------------------------ MODULE TransmitPathProofs ------------------------
(***************************************************************************)
(* For any finite set of banks, however sockets fail and whenever the      *)
(* engine is stopped and started again: no bank sends before every bank    *)
(* has joined, nobody writes the epoch while one of them reads it, and the *)
(* count of active banks is exact and does not go below zero.              *)
(*                                                                         *)
(* The barrier compares a counter with the number of banks.  The invariant *)
(* says that, from start() to the end of stop(), the counters are the      *)
(* numbers of banks that are marked (CountsExact), what it takes to be at  *)
(* each label (LabelMeans), and that a bank that has not joined is a proof *)
(* that the epoch was not stored in this run (EpochMeans).                 *)
(*                                                                         *)
(* Of the sessions an engine publishes: parse() returns what generate()    *)
(* was given, a session leaves a listener's table only by right, and the   *)
(* table lists what was described.  The first rests on where generate()    *)
(* puts its lines (GeneratedLines, WhereGenerated); the others on who an   *)
(* entry is from and what it says (TableMeans), which its key tells where  *)
(* two senders share the table.                                            *)
(***************************************************************************)
EXTENDS TransmitPath, Publication, FiniteSetTheorems, TLAPS

Marked(f) == {b \in Banks : f[b]}

\* readyCount and activeTransmitters count the banks marked in joined and
\* active, except between stop() and the next start(), which resets them.
CountsExact ==
    main # "stopped" =>
        /\ readyCount = Cardinality(Marked(joined))
        /\ activeTransmitters = Cardinality(Marked(active))

\* A bank past Opens is active, one past Joins has joined; without an engine
\* there are neither.
LabelMeans ==
    /\ \A b \in Banks :
          /\ pc[b] \in {"flag", "join", "epoch", "release", "barrier", "send"} => active[b]
          /\ pc[b] \in {"epoch", "release", "barrier", "send"} => joined[b]
          /\ pc[b] \in {"none", "open", "unflag"} => ~active[b]
    /\ main = "stopped" =>
          \A b \in Banks : pc[b] = "none" /\ ~joined[b] /\ ~active[b]

\* The bank that stores the epoch is the one that joined last, and is alone in
\* that; the epoch is ready when it has done, and banks send only then.
EpochMeans ==
    main # "stopped" =>
        /\ \A b \in Banks : pc[b] \in {"epoch", "release"} =>
              /\ ~epochReady /\ \A other \in Banks : joined[other]
              /\ \A other \in Banks : pc[other] \in {"epoch", "release"} => other = b
        /\ epochReady => \A other \in Banks : joined[other]
        /\ \A b \in Banks : pc[b] = "send" => epochReady

\* The inductive invariant.
IInv == TypeOK /\ CountsExact /\ LabelMeans /\ EpochMeans

----------------------------------------------------------------------------
(* Counting.                                                               *)

\* A number of banks is at most the number of all, and is that only when all
\* are marked.
LEMMA MarkedBounds ==
  ASSUME NEW f \in [Banks -> BOOLEAN]
  PROVE  /\ IsFiniteSet(Marked(f))
         /\ Cardinality(Banks) \in Nat \ {0}
         /\ Cardinality(Marked(f)) \in 0 .. Cardinality(Banks)
         /\ Cardinality(Marked(f)) = Cardinality(Banks) => \A b \in Banks : f[b]
  <1>1. IsFiniteSet(Banks) /\ Banks # {}
    BY BanksAssumption DEF BanksAssumption
  <1>2. Marked(f) \subseteq Banks
    BY DEF Marked
  <1>3. /\ IsFiniteSet(Marked(f)) /\ Cardinality(Marked(f)) <= Cardinality(Banks)
        /\ Cardinality(Marked(f)) = Cardinality(Banks) => Marked(f) = Banks
    BY <1>1, <1>2, FS_Subset
  <1>4. Cardinality(Banks) \in Nat /\ Cardinality(Marked(f)) \in Nat
    BY <1>1, <1>3, FS_CardinalityType
  <1>5. Cardinality(Banks) # 0
    BY <1>1, FS_EmptySet
  <1> QED
    BY <1>3, <1>4, <1>5 DEF Marked

\* Marking and unmarking one bank.
LEMMA MarkedChange ==
  ASSUME NEW f \in [Banks -> BOOLEAN], NEW b \in Banks
  PROVE  /\ Cardinality(Marked([f EXCEPT ![b] = TRUE]))
              = Cardinality(Marked(f)) + (IF f[b] THEN 0 ELSE 1)
         /\ Cardinality(Marked([f EXCEPT ![b] = FALSE]))
              = Cardinality(Marked(f)) - (IF f[b] THEN 1 ELSE 0)
  <1>1. IsFiniteSet(Marked(f)) /\ Cardinality(Marked(f)) \in Nat
    BY MarkedBounds
  <1>2. /\ Marked([f EXCEPT ![b] = TRUE]) = Marked(f) \cup {b}
        /\ Marked([f EXCEPT ![b] = FALSE]) = Marked(f) \ {b}
        /\ b \in Marked(f) <=> f[b]
    <2>1. /\ \A c : c \in Marked([f EXCEPT ![b] = TRUE]) <=> c \in Marked(f) \cup {b}
          /\ \A c : c \in Marked([f EXCEPT ![b] = FALSE]) <=> c \in Marked(f) \ {b}
          /\ b \in Marked(f) <=> f[b]
      BY DEF Marked
    <2> QED
      BY <2>1
  <1>3. /\ Cardinality(Marked(f) \cup {b})
             = (IF b \in Marked(f) THEN Cardinality(Marked(f)) ELSE Cardinality(Marked(f)) + 1)
        /\ Cardinality(Marked(f) \ {b})
             = (IF b \in Marked(f) THEN Cardinality(Marked(f)) - 1 ELSE Cardinality(Marked(f)))
    BY <1>1, FS_AddElement, FS_RemoveElement
  <1>4. PICK n \in Nat : n = Cardinality(Marked(f))
    BY <1>1
  <1>5. /\ Cardinality(Marked([f EXCEPT ![b] = TRUE])) = (IF f[b] THEN n ELSE n + 1)
        /\ Cardinality(Marked([f EXCEPT ![b] = FALSE])) = (IF f[b] THEN n - 1 ELSE n)
    BY <1>2, <1>3, <1>4, Zenon
  <1>6. /\ (IF f[b] THEN n ELSE n + 1) = n + (IF f[b] THEN 0 ELSE 1)
        /\ (IF f[b] THEN n - 1 ELSE n) = n - (IF f[b] THEN 1 ELSE 0)
    OBVIOUS
  <1> QED
    BY <1>4, <1>5, <1>6, Zenon

\* Nobody is marked.
LEMMA MarkedNone ==
  ASSUME NEW f, \A b \in Banks : ~f[b]
  PROVE  Cardinality(Marked(f)) = 0
  <1>1. Marked(f) = {}
    BY DEF Marked
  <1> QED
    BY <1>1, FS_EmptySet
----------------------------------------------------------------------------
(* The invariant holds initially and every step keeps it.                  *)

\* The engine is stopped and nothing is counted.
LEMMA InitInv == Init => IInv
  <1> SUFFICES ASSUME Init PROVE IInv
    OBVIOUS
  <1>1. TypeOK
    <2>1. joined \in [Banks -> BOOLEAN]
      BY DEF Init
    <2>2. 0 \in 0 .. Cardinality(Banks)
      BY <2>1, MarkedBounds
    <2> QED
      BY <2>2 DEF Init, TypeOK
  <1> QED
    BY <1>1 DEF Init, IInv, CountsExact, LabelMeans, EpochMeans

\* What the counting steps need of the invariant.
LEMMA InvParts ==
  ASSUME IInv
  PROVE  /\ joined \in [Banks -> BOOLEAN] /\ active \in [Banks -> BOOLEAN]
         /\ readyCount \in Nat /\ activeTransmitters \in Nat
         /\ Cardinality(Banks) \in Nat \ {0}
         /\ \A b \in Banks : pc[b] # "none" => main # "stopped"
  <1>1. joined \in [Banks -> BOOLEAN] /\ active \in [Banks -> BOOLEAN]
    BY DEF IInv, TypeOK
  <1>2. Cardinality(Banks) \in Nat \ {0}
    BY <1>1, MarkedBounds
  <1> QED
    BY <1>1, <1>2 DEF IInv, TypeOK, LabelMeans

\* start() resets the counters when no bank is marked.
LEMMA StartInv == IInv /\ Start => IInv'
  <1> SUFFICES ASSUME IInv, Start PROVE IInv'
    OBVIOUS
  <1>1. TypeOK'
    <2>1. 0 \in 0 .. Cardinality(Banks)
      BY InvParts
    <2> QED
      BY <2>1 DEF IInv, TypeOK, Start
  <1>2. CountsExact'
    <2>1. /\ \A b \in Banks : ~joined[b] /\ ~active[b]
          /\ joined' = joined /\ active' = active /\ readyCount' = 0 /\ activeTransmitters' = 0
      BY DEF IInv, LabelMeans, Start
    <2>2. Cardinality(Marked(joined)) = 0 /\ Cardinality(Marked(active)) = 0
      BY <2>1, MarkedNone
    <2> QED
      BY <2>1, <2>2, Zenon DEF CountsExact
  <1>3. LabelMeans' /\ EpochMeans'
    BY DEF IInv, LabelMeans, EpochMeans, Start
  <1> QED
    BY <1>1, <1>2, <1>3 DEF IInv

\* The actions that touch neither the epoch's counter nor the active banks'
\* keep the counters exact.
LEMMA CountsKept ==
  ASSUME IInv, UNCHANGED <<readyCount, joined, active, activeTransmitters>>,
         main # "stopped" \/ main' = main
  PROVE  CountsExact'
  BY Zenon DEF IInv, CountsExact

\* The thread of a bank begins without a socket.
LEMMA SpawnInv == ASSUME NEW b \in Banks PROVE IInv /\ Spawn(b) => IInv'
  <1> SUFFICES ASSUME IInv, Spawn(b) PROVE IInv'
    OBVIOUS
  <1>1. TypeOK'
    BY DEF IInv, TypeOK, Spawn, Goto, epochVars, flagVars
  <1>2. CountsExact'
    BY CountsKept DEF Spawn, epochVars, flagVars
  <1>3. LabelMeans' /\ EpochMeans'
    BY DEF IInv, TypeOK, LabelMeans, EpochMeans, Spawn, Goto, epochVars, flagVars
  <1> QED
    BY <1>1, <1>2, <1>3 DEF IInv

\* stop() returns when all threads have ended.
LEMMA StopInv == IInv /\ (Stop \/ Stopped) => IInv'
  <1> SUFFICES ASSUME IInv, Stop \/ Stopped PROVE IInv'
    OBVIOUS
  <1>1. CASE Stop
    <2>1. TypeOK'
      BY <1>1 DEF IInv, TypeOK, Stop, epochVars, flagVars
    <2>2. CountsExact'
      BY <1>1, CountsKept DEF Stop, epochVars, flagVars
    <2>3. LabelMeans' /\ EpochMeans'
      BY <1>1 DEF IInv, LabelMeans, EpochMeans, Stop, epochVars, flagVars
    <2> QED
      BY <2>1, <2>2, <2>3 DEF IInv
  <1>2. CASE Stopped
    <2>1. TypeOK'
      BY <1>2 DEF IInv, TypeOK, Stopped
    <2>2. CountsExact' /\ LabelMeans' /\ EpochMeans'
      BY <1>2 DEF CountsExact, LabelMeans, EpochMeans, Stopped
    <2> QED
      BY <2>1, <2>2 DEF IInv
  <1> QED
    BY <1>1, <1>2

\* The steps of transmitLoop that leave the counters alone.
LEMMA QuietInv ==
  ASSUME NEW b \in Banks, IInv,
         LoopEnds(b) \/ SetsFlag(b) \/ StoresEpoch(b) \/ ReleasesEpoch(b) \/ PassesBarrier(b)
         \/ ClearsFlag(b)
  PROVE  IInv'
  <1> USE DEF Goto, epochVars, flagVars
  <1>1. TypeOK'
    BY DEF IInv, TypeOK, LoopEnds, SetsFlag, StoresEpoch, ReleasesEpoch, PassesBarrier, ClearsFlag
  <1>2. /\ UNCHANGED <<readyCount, joined, active, activeTransmitters>> /\ main' = main
    BY DEF LoopEnds, SetsFlag, StoresEpoch, ReleasesEpoch, PassesBarrier, ClearsFlag
  <1>3. CountsExact'
    BY <1>2, CountsKept
  <1>4. main # "stopped"
    BY InvParts DEF LoopEnds, SetsFlag, StoresEpoch, ReleasesEpoch, PassesBarrier, ClearsFlag
  <1>5. LabelMeans'
    BY <1>2, <1>4 DEF IInv, TypeOK, LabelMeans, LoopEnds, SetsFlag, StoresEpoch, ReleasesEpoch,
                      PassesBarrier, ClearsFlag
  <1>6. EpochMeans'
    <2>1. CASE ReleasesEpoch(b)
      BY <1>4, <2>1 DEF IInv, TypeOK, EpochMeans, ReleasesEpoch
    <2>2. CASE StoresEpoch(b)
      BY <1>4, <2>2 DEF IInv, TypeOK, EpochMeans, StoresEpoch
    <2>3. CASE PassesBarrier(b)
      BY <1>4, <2>3 DEF IInv, TypeOK, EpochMeans, LabelMeans, PassesBarrier
    <2>4. CASE LoopEnds(b) \/ SetsFlag(b) \/ ClearsFlag(b)
      BY <1>4, <2>4 DEF IInv, TypeOK, EpochMeans, LoopEnds, SetsFlag, ClearsFlag
    <2> QED
      BY <2>1, <2>2, <2>3, <2>4
  <1> QED
    BY <1>1, <1>3, <1>5, <1>6 DEF IInv

\* Opening the socket counts the bank.
LEMMA OpensInv == ASSUME NEW b \in Banks PROVE IInv /\ Opens(b) => IInv'
  <1> SUFFICES ASSUME IInv, Opens(b) PROVE IInv'
    OBVIOUS
  <1>1. main # "stopped" /\ ~active[b] /\ active \in [Banks -> BOOLEAN]
    BY InvParts DEF IInv, LabelMeans, Opens
  <1>2. active' = [active EXCEPT ![b] = TRUE] /\ active' \in [Banks -> BOOLEAN]
    BY <1>1 DEF Opens
  <1>3. /\ activeTransmitters' = activeTransmitters + 1
        /\ activeTransmitters = Cardinality(Marked(active)) /\ activeTransmitters \in Nat
    BY <1>1, InvParts DEF IInv, CountsExact, Opens
  <1>4. activeTransmitters' = Cardinality(Marked(active'))
    <2>1. Cardinality(Marked(active')) = Cardinality(Marked(active)) + (IF active[b] THEN 0 ELSE 1)
      BY <1>1, <1>2, MarkedChange, Zenon
    <2> QED
      BY <1>1, <1>3, <2>1
  <1>5. activeTransmitters' \in 0 .. Cardinality(Banks)
    BY <1>2, <1>4, MarkedBounds, Zenon
  <1>6. TypeOK'
    BY <1>2, <1>5 DEF IInv, TypeOK, Opens, Goto, epochVars
  <1>7. CountsExact'
    BY <1>1, <1>4, Zenon DEF IInv, CountsExact, Opens, epochVars
  <1>8. LabelMeans' /\ EpochMeans'
    BY <1>1 DEF IInv, TypeOK, LabelMeans, EpochMeans, Opens, Goto, epochVars
  <1> QED
    BY <1>6, <1>7, <1>8 DEF IInv

\* A bank that stops sending was counted.
LEMMA StopsSendingInv == ASSUME NEW b \in Banks PROVE IInv /\ StopsSending(b) => IInv'
  <1> SUFFICES ASSUME IInv, StopsSending(b) PROVE IInv'
    OBVIOUS
  <1>1. main # "stopped" /\ active[b] /\ active \in [Banks -> BOOLEAN]
    BY InvParts DEF IInv, LabelMeans, StopsSending
  <1>2. active' = [active EXCEPT ![b] = FALSE] /\ active' \in [Banks -> BOOLEAN]
    BY <1>1 DEF StopsSending
  <1>3. /\ activeTransmitters' = activeTransmitters - 1
        /\ activeTransmitters = Cardinality(Marked(active)) /\ activeTransmitters \in Nat
    BY <1>1, InvParts DEF IInv, CountsExact, StopsSending
  <1>4. activeTransmitters' = Cardinality(Marked(active'))
    <2>1. Cardinality(Marked(active')) = Cardinality(Marked(active)) - (IF active[b] THEN 1 ELSE 0)
      BY <1>1, <1>2, MarkedChange, Zenon
    <2> QED
      BY <1>1, <1>3, <2>1
  <1>5. activeTransmitters' \in 0 .. Cardinality(Banks)
    BY <1>2, <1>4, MarkedBounds, Zenon
  <1>6. TypeOK'
    BY <1>2, <1>5 DEF IInv, TypeOK, StopsSending, Goto, epochVars
  <1>7. CountsExact'
    BY <1>1, <1>4, Zenon DEF IInv, CountsExact, StopsSending, epochVars
  <1>8. LabelMeans' /\ EpochMeans'
    BY <1>1 DEF IInv, TypeOK, LabelMeans, EpochMeans, StopsSending, Goto, epochVars
  <1> QED
    BY <1>6, <1>7, <1>8 DEF IInv

\* The barrier: a bank that has not joined keeps everybody else from the
\* epoch, and the count reaches the number of banks when nobody is left.
LEMMA JoinsInv == ASSUME NEW b \in Banks PROVE IInv /\ Joins(b) => IInv'
  <1> SUFFICES ASSUME IInv, Joins(b) PROVE IInv'
    OBVIOUS
  <1>1. main # "stopped" /\ active[b] /\ joined \in [Banks -> BOOLEAN]
    BY InvParts DEF IInv, LabelMeans, Joins
  <1>2. joined' = [joined EXCEPT ![b] = TRUE] /\ joined' \in [Banks -> BOOLEAN]
    BY <1>1 DEF Joins
  <1>3. /\ readyCount' = readyCount + (IF joined[b] THEN 0 ELSE 1)
        /\ readyCount = Cardinality(Marked(joined)) /\ readyCount \in Nat
    BY <1>1, InvParts DEF IInv, CountsExact, Joins
  <1>4. readyCount' = Cardinality(Marked(joined'))
    <2>1. Cardinality(Marked(joined')) = Cardinality(Marked(joined)) + (IF joined[b] THEN 0 ELSE 1)
      BY <1>1, <1>2, MarkedChange, Zenon
    <2> QED
      BY <1>3, <2>1, Zenon
  <1>5. readyCount' \in 0 .. Cardinality(Banks)
    BY <1>2, <1>4, MarkedBounds, Zenon
  <1>6. readyCount' = Cardinality(Banks) => \A other \in Banks : joined'[other]
    BY <1>2, <1>4, MarkedBounds, Zenon
  <1>7. TypeOK'
    BY <1>2, <1>5 DEF IInv, TypeOK, Joins, Goto, flagVars
  <1>8. CountsExact'
    BY <1>1, <1>4, Zenon DEF IInv, CountsExact, Joins, flagVars
  <1>9. LabelMeans'
    BY <1>1 DEF IInv, TypeOK, LabelMeans, Joins, Goto, flagVars
  <1>10. EpochMeans'
    <2>1. CASE joined[b]
      <3>1. joined' = joined /\ pc' = [pc EXCEPT ![b] = "barrier"]
        BY <1>1, <2>1 DEF Joins, Goto
      <3> QED
        BY <1>1, <3>1 DEF IInv, TypeOK, EpochMeans, Joins
    <2>2. CASE ~joined[b]
      <3>1. /\ ~epochReady /\ epochReady' = epochReady
            /\ \A other \in Banks : pc[other] \notin {"epoch", "release", "send"}
        BY <1>1, <2>2 DEF IInv, EpochMeans, Joins
      <3>2. \A other \in Banks : pc'[other] \notin {"release", "send"}
                                 /\ (pc'[other] = "epoch" => other = b)
        BY <3>1 DEF IInv, TypeOK, Joins, Goto
      <3>3. pc'[b] = "epoch" => \A other \in Banks : joined'[other]
        BY <1>3, <1>6, <2>2 DEF IInv, TypeOK, Joins, Goto
      <3> QED
        BY <3>1, <3>2, <3>3 DEF EpochMeans
    <2> QED
      BY <2>1, <2>2
  <1> QED
    BY <1>7, <1>8, <1>9, <1>10 DEF IInv

\* Every step preserves the invariant.
LEMMA NextInv == IInv /\ [Next]_vars => IInv'
  <1> SUFFICES ASSUME IInv, [Next]_vars PROVE IInv'
    OBVIOUS
  <1>1. CASE UNCHANGED vars
    BY <1>1 DEF vars, epochVars, flagVars, IInv, TypeOK, CountsExact, LabelMeans, EpochMeans
  <1>2. ASSUME NEW b \in Banks, OpenFails(b) \/ Sends(b) PROVE UNCHANGED vars
    BY <1>2 DEF OpenFails, Sends
  <1>3. CASE Next
    BY <1>1, <1>2, <1>3, StartInv, SpawnInv, StopInv, QuietInv, OpensInv, StopsSendingInv, JoinsInv
       DEF Next, Bank
  <1> QED
    BY <1>1, <1>3

\* The invariant holds in every reachable state.
LEMMA AlwaysInv == Spec => []IInv
  BY InitInv, NextInv, PTL DEF Spec

----------------------------------------------------------------------------
(* The theorems.                                                           *)

\* setTxActive counts every bank once and uncounts only what it has counted:
\* activeTransmitters_, a size_t, does not wrap below zero and never exceeds
\* the number of banks, and transmitReadyCount_ never counts a bank twice.
THEOREM TransmitCountsStayInRange == Spec => []TypeOK
  <1>1. IInv => TypeOK
    BY DEF IInv
  <1> QED
    BY <1>1, AlwaysInv, PTL

\* For any number of banks, banks that send do so from one epoch, which nobody
\* is writing and all of them have joined.
THEOREM BanksShareEpoch == Spec => []SharedEpoch
  <1>1. IInv => SharedEpoch
    BY DEF IInv, LabelMeans, EpochMeans, SharedEpoch
  <1> QED
    BY <1>1, AlwaysInv, PTL

----------------------------------------------------------------------------
(* SAP and SDP: what a description says is what is read from it.           *)

LEMMA MaxOfOne == ASSUME NEW i \in Int PROVE Max({i}) = i
  BY DEF Max

\* The lines of a description: their kinds, what they say, and how they end.
KindsAre(lines) ==
    /\ lines[1].kind = "v" /\ lines[2].kind = "o" /\ lines[3].kind = "s" /\ lines[4].kind = "c"
    /\ lines[5].kind = "t" /\ lines[6].kind = "m" /\ lines[7].kind = "rtpmap"
    /\ lines[8].kind = "ptime" /\ lines[9].kind = "framecount" /\ lines[10].kind = "refclk"
    /\ lines[11].kind = "mediaclk"

Says(lines, s) ==
    /\ lines[2].value = <<"-", "1", "1", "IN", "IP4", s.origin>>
    /\ lines[3].value = s.name
    /\ lines[4].value = <<"IN", "IP4", s.address>>
    /\ lines[6].value = [media |-> "audio", port |-> s.port, profile |-> "RTP/AVP",
                         payload |-> s.payload]
    /\ lines[7].value = [payload |-> s.payload, encoding |-> s.encoding, rate |-> s.rate,
                         channels |-> s.channels]
    /\ lines[8].value = s.ptime
    /\ lines[9].value = s.frames
    /\ lines[10].value = [marked |-> TRUE, domain |-> s.domain]

EndsWith(lines, s) ==
    /\ s.source = <<>> => DOMAIN lines = 1 .. 12 /\ lines[12].kind = "sendonly"
    /\ s.source # <<>> => /\ DOMAIN lines = 1 .. 13 /\ lines[13].kind = "sendonly"
                          /\ lines[12].kind = "filter"
                          /\ lines[12].value = <<"incl", "IN", "IP4", s.address, s.source>>

\* What generate() writes, with and without a source filter.
LEMMA GeneratedLines ==
    ASSUME NEW s, NEW lines, lines = Generate(s)
    PROVE  KindsAre(lines) /\ Says(lines, s) /\ EndsWith(lines, s)
<1> DEFINE a1 == Line("v", "0")
           a2 == Line("o", <<"-", "1", "1", "IN", "IP4", s.origin>>)
           a3 == Line("s", s.name)
           a4 == Line("c", <<"IN", "IP4", s.address>>)
           a5 == Line("t", "0 0")
           a6 == Line("m", [media |-> "audio", port |-> s.port, profile |-> "RTP/AVP",
                            payload |-> s.payload])
           a7 == Line("rtpmap", [payload |-> s.payload, encoding |-> s.encoding,
                                 rate |-> s.rate, channels |-> s.channels])
           a8 == Line("ptime", s.ptime)
           a9 == Line("framecount", s.frames)
           a10 == Line("refclk", [marked |-> TRUE, domain |-> s.domain])
           a11 == Line("mediaclk", "direct=0")
           b == Line("filter", <<"incl", "IN", "IP4", s.address, s.source>>)
           z == Line("sendonly", "")
           head == <<a1, a2, a3, a4, a5, a6, a7, a8, a9, a10, a11>>
<1>1. s.source = <<>> => lines = (head \o <<>>) \o <<z>>
  BY Zenon DEF Generate, SourceFilter
<1>2. s.source # <<>> => lines = (head \o <<b>>) \o <<z>>
  BY Zenon DEF Generate, SourceFilter
<1>3. a1.kind = "v"
  BY DEF Line
<1>4. a2.kind = "o" /\ a2.value = <<"-", "1", "1", "IN", "IP4", s.origin>>
  BY DEF Line
<1>5. a3.kind = "s" /\ a3.value = s.name
  BY DEF Line
<1>6. a4.kind = "c" /\ a4.value = <<"IN", "IP4", s.address>>
  BY DEF Line
<1>7. a5.kind = "t"
  BY DEF Line
<1>8. a6.kind = "m" /\ a6.value = [media |-> "audio", port |-> s.port, profile |-> "RTP/AVP",
                                   payload |-> s.payload]
  BY DEF Line
<1>9. a7.kind = "rtpmap" /\ a7.value = [payload |-> s.payload, encoding |-> s.encoding,
                                        rate |-> s.rate, channels |-> s.channels]
  BY DEF Line
<1>10. a8.kind = "ptime" /\ a8.value = s.ptime
  BY DEF Line
<1>11. a9.kind = "framecount" /\ a9.value = s.frames
  BY DEF Line
<1>12. a10.kind = "refclk" /\ a10.value = [marked |-> TRUE, domain |-> s.domain]
  BY DEF Line
<1>13. a11.kind = "mediaclk"
  BY DEF Line
<1>14. b.kind = "filter" /\ b.value = <<"incl", "IN", "IP4", s.address, s.source>>
  BY DEF Line
<1>15. z.kind = "sendonly"
  BY DEF Line
<1> HIDE DEF a1, a2, a3, a4, a5, a6, a7, a8, a9, a10, a11, b, z
<1>16. ASSUME lines = (head \o <<>>) \o <<z>>
       PROVE  /\ lines[1] = a1 /\ lines[2] = a2 /\ lines[3] = a3 /\ lines[4] = a4
              /\ lines[5] = a5 /\ lines[6] = a6 /\ lines[7] = a7 /\ lines[8] = a8
              /\ lines[9] = a9 /\ lines[10] = a10 /\ lines[11] = a11
              /\ lines[12] = z /\ DOMAIN lines = 1 .. 12
  <2>1. lines[1] = a1 /\ lines[2] = a2 /\ lines[3] = a3 /\ lines[4] = a4
    BY <1>16
  <2>2. lines[5] = a5 /\ lines[6] = a6 /\ lines[7] = a7 /\ lines[8] = a8
    BY <1>16
  <2>3. lines[9] = a9 /\ lines[10] = a10 /\ lines[11] = a11
    BY <1>16
  <2>4. lines[12] = z /\ DOMAIN lines = 1 .. 12
    BY <1>16
  <2> QED BY <2>1, <2>2, <2>3, <2>4, Zenon
<1>17. ASSUME lines = (head \o <<b>>) \o <<z>>
       PROVE  /\ lines[1] = a1 /\ lines[2] = a2 /\ lines[3] = a3 /\ lines[4] = a4
              /\ lines[5] = a5 /\ lines[6] = a6 /\ lines[7] = a7 /\ lines[8] = a8
              /\ lines[9] = a9 /\ lines[10] = a10 /\ lines[11] = a11
              /\ lines[12] = b /\ lines[13] = z /\ DOMAIN lines = 1 .. 13
  <2>1. lines[1] = a1 /\ lines[2] = a2 /\ lines[3] = a3 /\ lines[4] = a4
    BY <1>17
  <2>2. lines[5] = a5 /\ lines[6] = a6 /\ lines[7] = a7 /\ lines[8] = a8
    BY <1>17
  <2>3. lines[9] = a9 /\ lines[10] = a10 /\ lines[11] = a11
    BY <1>17
  <2>4. ((head \o <<b>>) \o <<z>>)[12] = b
    OBVIOUS
  <2>5. DOMAIN lines = 1 .. 13
    BY <1>17
  <2>6. ((head \o <<b>>) \o <<z>>)[13] = z
    OBVIOUS
  <2> QED BY <1>17, <2>1, <2>2, <2>3, <2>4, <2>5, <2>6, Zenon
<1>18. /\ lines[1] = a1 /\ lines[2] = a2 /\ lines[3] = a3 /\ lines[4] = a4
       /\ lines[5] = a5 /\ lines[6] = a6 /\ lines[7] = a7 /\ lines[8] = a8
       /\ lines[9] = a9 /\ lines[10] = a10 /\ lines[11] = a11
       /\ s.source = <<>> => DOMAIN lines = 1 .. 12 /\ lines[12] = z
       /\ s.source # <<>> => DOMAIN lines = 1 .. 13 /\ lines[13] = z /\ lines[12] = b
  BY <1>1, <1>2, <1>16, <1>17, Zenon
<1>19. KindsAre(lines)
  BY <1>18, <1>3, <1>4, <1>5, <1>6, <1>7, <1>8, <1>9, <1>10, <1>11, <1>12, <1>13, Zenon
     DEF KindsAre
<1>20. Says(lines, s)
  BY <1>18, <1>4, <1>5, <1>6, <1>8, <1>9, <1>10, <1>11, <1>12, Zenon DEF Says
<1>21. EndsWith(lines, s)
  BY <1>18, <1>14, <1>15, Zenon DEF EndsWith
<1> QED BY <1>19, <1>20, <1>21

\* A line of a kind comes where generate() puts it, and nowhere else.
LEMMA WhereGenerated ==
    ASSUME NEW s, NEW lines, lines = Generate(s)
    PROVE  /\ Where(lines, "o") = {2} /\ Where(lines, "s") = {3} /\ Where(lines, "c") = {4}
           /\ Where(lines, "m") = {6} /\ Where(lines, "rtpmap") = {7} /\ Where(lines, "ptime") = {8}
           /\ Where(lines, "framecount") = {9} /\ Where(lines, "refclk") = {10}
           /\ s.source = <<>> => Where(lines, "filter") = {}
           /\ s.source # <<>> => Where(lines, "filter") = {12}
<1>1. KindsAre(lines) /\ Says(lines, s) /\ EndsWith(lines, s)
  BY GeneratedLines
<1>2. Usable(lines[2])
  <2>1. lines[2].value = <<"-", "1", "1", "IN", "IP4", s.origin>> /\ lines[2].kind = "o"
    BY <1>1, Zenon DEF Says, KindsAre
  <2>2. Len(<<"-", "1", "1", "IN", "IP4", s.origin>>) >= 6
    OBVIOUS
  <2>3. Len(lines[2].value) >= 6
    BY <2>1, <2>2, Zenon
  <2> QED BY <2>1, <2>3 DEF Usable
<1>3. Usable(lines[4])
  <2>1. lines[4].value = <<"IN", "IP4", s.address>> /\ lines[4].kind = "c"
    BY <1>1, Zenon DEF Says, KindsAre
  <2>2. Len(<<"IN", "IP4", s.address>>) >= 3
    OBVIOUS
  <2>3. Len(lines[4].value) >= 3
    BY <2>1, <2>2, Zenon
  <2> QED BY <2>1, <2>3 DEF Usable
<1>4. s.source # <<>> => Usable(lines[12])
  <2>1. Len(<<"incl", "IN", "IP4", s.address, s.source>>) >= 5
    OBVIOUS
  <2>2. s.source # <<>> => lines[12].kind = "filter" /\ Len(lines[12].value) >= 5
    BY <1>1, <2>1, Zenon DEF EndsWith
  <2>3. ASSUME NEW line, line.kind = "filter", Len(line.value) >= 5 PROVE Usable(line)
    BY <2>3 DEF Usable
  <2> QED BY <2>2, <2>3, Zenon
<1>5. Usable(lines[10])
  <2>1. lines[10].value = [marked |-> TRUE, domain |-> s.domain] /\ lines[10].kind = "refclk"
    BY <1>1, Zenon DEF Says, KindsAre
  <2>2. lines[10].value.marked
    BY <2>1
  <2> QED BY <2>1, <2>2 DEF Usable
<1>6. /\ Usable(lines[3]) /\ Usable(lines[6]) /\ Usable(lines[7]) /\ Usable(lines[8])
      /\ Usable(lines[9])
  BY <1>1 DEF Usable, KindsAre
<1>7. ASSUME NEW i \in DOMAIN lines
      PROVE  /\ lines[i].kind = "o" => i = 2
             /\ lines[i].kind = "s" => i = 3
             /\ lines[i].kind = "c" => i = 4
             /\ lines[i].kind = "m" => i = 6
             /\ lines[i].kind = "rtpmap" => i = 7
             /\ lines[i].kind = "ptime" => i = 8
             /\ lines[i].kind = "framecount" => i = 9
             /\ lines[i].kind = "refclk" => i = 10
             /\ lines[i].kind = "filter" => i = 12 /\ s.source # <<>>
  <2>1. i \in 1 .. 13 /\ (s.source = <<>> => i # 13)
    BY <1>1 DEF EndsWith
  <2>2. \/ i = 1 \/ i = 2 \/ i = 3 \/ i = 4 \/ i = 5 \/ i = 6 \/ i = 7 \/ i = 8 \/ i = 9
        \/ i = 10 \/ i = 11 \/ i = 12 \/ i = 13
    BY <2>1
  <2> QED BY <1>1, <2>1, <2>2 DEF KindsAre, EndsWith
<1>8. 1 .. 12 \subseteq DOMAIN lines
  BY <1>1 DEF EndsWith
<1>9. Where(lines, "o") = {2}
  <2>1. 2 \in DOMAIN lines
    BY <1>8
  <2>2. \A i \in DOMAIN lines : lines[i].kind = "o" => i = 2
    BY <1>7, Zenon
  <2> QED BY <1>1, <1>2, <2>1, <2>2, Zenon DEF Where, KindsAre
<1>10. Where(lines, "s") = {3}
  <2>1. 3 \in DOMAIN lines
    BY <1>8
  <2>2. \A i \in DOMAIN lines : lines[i].kind = "s" => i = 3
    BY <1>7, Zenon
  <2> QED BY <1>1, <1>6, <2>1, <2>2, Zenon DEF Where, KindsAre
<1>11. Where(lines, "c") = {4}
  <2>1. 4 \in DOMAIN lines
    BY <1>8
  <2>2. \A i \in DOMAIN lines : lines[i].kind = "c" => i = 4
    BY <1>7, Zenon
  <2> QED BY <1>1, <1>3, <2>1, <2>2, Zenon DEF Where, KindsAre
<1>12. Where(lines, "m") = {6}
  <2>1. 6 \in DOMAIN lines
    BY <1>8
  <2>2. \A i \in DOMAIN lines : lines[i].kind = "m" => i = 6
    BY <1>7, Zenon
  <2> QED BY <1>1, <1>6, <2>1, <2>2, Zenon DEF Where, KindsAre
<1>13. Where(lines, "rtpmap") = {7}
  <2>1. 7 \in DOMAIN lines
    BY <1>8
  <2>2. \A i \in DOMAIN lines : lines[i].kind = "rtpmap" => i = 7
    BY <1>7, Zenon
  <2> QED BY <1>1, <1>6, <2>1, <2>2, Zenon DEF Where, KindsAre
<1>14. Where(lines, "ptime") = {8}
  <2>1. 8 \in DOMAIN lines
    BY <1>8
  <2>2. \A i \in DOMAIN lines : lines[i].kind = "ptime" => i = 8
    BY <1>7, Zenon
  <2> QED BY <1>1, <1>6, <2>1, <2>2, Zenon DEF Where, KindsAre
<1>15. Where(lines, "framecount") = {9}
  <2>1. 9 \in DOMAIN lines
    BY <1>8
  <2>2. \A i \in DOMAIN lines : lines[i].kind = "framecount" => i = 9
    BY <1>7, Zenon
  <2> QED BY <1>1, <1>6, <2>1, <2>2, Zenon DEF Where, KindsAre
<1>16. Where(lines, "refclk") = {10}
  <2>1. 10 \in DOMAIN lines
    BY <1>8
  <2>2. \A i \in DOMAIN lines : lines[i].kind = "refclk" => i = 10
    BY <1>7, Zenon
  <2> QED BY <1>1, <1>5, <2>1, <2>2, Zenon DEF Where, KindsAre
<1>17. s.source = <<>> => Where(lines, "filter") = {}
  BY <1>7, Zenon DEF Where
<1>18. s.source # <<>> => Where(lines, "filter") = {12}
  <2>1. s.source # <<>> => 12 \in DOMAIN lines
    BY <1>8
  <2>2. \A i \in DOMAIN lines : lines[i].kind = "filter" => i = 12
    BY <1>7, Zenon
  <2> QED BY <1>1, <1>4, <2>1, <2>2, Zenon DEF Where, EndsWith
<1> QED BY <1>17, <1>18, <1>9, <1>10, <1>11, <1>12, <1>13, <1>14, <1>15, <1>16, Zenon

\* A session, field by field
Fields(s) ==
    [name |-> s.name, origin |-> s.origin, address |-> s.address, port |-> s.port,
     payload |-> s.payload, encoding |-> s.encoding, rate |-> s.rate,
     channels |-> s.channels, ptime |-> s.ptime, frames |-> s.frames,
     domain |-> s.domain, source |-> s.source]

\* What parse() takes from the lines generate() has written is what they were
\* written from.
LEMMA FieldsReturn ==
    ASSUME NEW s, NEW lines, lines = Generate(s)
    PROVE  Described(lines) = Fields(s)
<1> DEFINE media == Given(lines, "m", Defaults)
           map == Given(lines, "rtpmap", Defaults)
           clock == Given(lines, "refclk", Defaults)
           o == Given(lines, "o", [n \in 1 .. 6 |-> Defaults.origin])
           c == Given(lines, "c", [n \in 1 .. 3 |-> Defaults.address])
           f == Given(lines, "filter", [n \in 1 .. 5 |-> Defaults.source])
<1>1. Says(lines, s) /\ EndsWith(lines, s)
  BY GeneratedLines
<1>2. /\ Where(lines, "o") = {2} /\ Where(lines, "s") = {3} /\ Where(lines, "c") = {4}
      /\ Where(lines, "m") = {6} /\ Where(lines, "rtpmap") = {7} /\ Where(lines, "ptime") = {8}
      /\ Where(lines, "framecount") = {9} /\ Where(lines, "refclk") = {10}
      /\ s.source = <<>> => Where(lines, "filter") = {}
      /\ s.source # <<>> => Where(lines, "filter") = {12}
  BY WhereGenerated
<1>3. /\ Max({2}) = 2 /\ Max({3}) = 3 /\ Max({4}) = 4 /\ Max({6}) = 6 /\ Max({7}) = 7
      /\ Max({8}) = 8 /\ Max({9}) = 9 /\ Max({10}) = 10 /\ Max({12}) = 12
  BY MaxOfOne
<1>4. \A i : {i} # {}
  OBVIOUS
<1>5. Given(lines, "s", Defaults.name) = s.name
  <2>1. Given(lines, "s", Defaults.name) = lines[3].value
    BY <1>2, <1>3, <1>4, Zenon DEF Given
  <2> QED BY <1>1, <2>1, Zenon DEF Says
<1>6. Given(lines, "ptime", Defaults.ptime) = s.ptime
  <2>1. Given(lines, "ptime", Defaults.ptime) = lines[8].value
    BY <1>2, <1>3, <1>4, Zenon DEF Given
  <2> QED BY <1>1, <2>1, Zenon DEF Says
<1>7. Given(lines, "framecount", Defaults.frames) = s.frames
  <2>1. Given(lines, "framecount", Defaults.frames) = lines[9].value
    BY <1>2, <1>3, <1>4, Zenon DEF Given
  <2> QED BY <1>1, <2>1, Zenon DEF Says
<1>8. clock.domain = s.domain
  <2>1. clock = lines[10].value
    BY <1>2, <1>3, <1>4, Zenon DEF Given
  <2>2. lines[10].value = [marked |-> TRUE, domain |-> s.domain]
    BY <1>1, Zenon DEF Says
  <2> HIDE DEF clock
  <2> QED BY <2>1, <2>2
<1>9. media.port = s.port /\ media.payload = s.payload
  <2>1. media = lines[6].value
    BY <1>2, <1>3, <1>4, Zenon DEF Given
  <2>2. lines[6].value = [media |-> "audio", port |-> s.port, profile |-> "RTP/AVP",
                          payload |-> s.payload]
    BY <1>1, Zenon DEF Says
  <2> HIDE DEF media
  <2> QED BY <2>1, <2>2
<1>10. map.encoding = s.encoding /\ map.rate = s.rate /\ map.channels = s.channels
  <2>1. map = lines[7].value
    BY <1>2, <1>3, <1>4, Zenon DEF Given
  <2>2. lines[7].value = [payload |-> s.payload, encoding |-> s.encoding, rate |-> s.rate,
                          channels |-> s.channels]
    BY <1>1, Zenon DEF Says
  <2> HIDE DEF map
  <2> QED BY <2>1, <2>2
<1>11. o[6] = s.origin
  <2>1. o = lines[2].value
    BY <1>2, <1>3, <1>4, Zenon DEF Given
  <2>2. lines[2].value = <<"-", "1", "1", "IN", "IP4", s.origin>>
    BY <1>1, Zenon DEF Says
  <2>3. ASSUME NEW x PROVE <<"-", "1", "1", "IN", "IP4", x>>[6] = x
    OBVIOUS
  <2> QED BY <2>1, <2>2, <2>3, Zenon
<1>12. c[3] = s.address
  <2>1. c = lines[4].value
    BY <1>2, <1>3, <1>4, Zenon DEF Given
  <2>2. lines[4].value = <<"IN", "IP4", s.address>>
    BY <1>1, Zenon DEF Says
  <2>3. ASSUME NEW x PROVE <<"IN", "IP4", x>>[3] = x
    OBVIOUS
  <2> QED BY <2>1, <2>2, <2>3, Zenon
<1>13. f[5] = s.source
  <2>1. CASE s.source = <<>>
    <3>1. f = [n \in 1 .. 5 |-> Defaults.source]
      BY <1>2, <2>1, Zenon DEF Given
    <3>2. Defaults.source = <<>>
      BY DEF Defaults
    <3>3. [n \in 1 .. 5 |-> Defaults.source][5] = Defaults.source
      OBVIOUS
    <3> QED BY <2>1, <3>1, <3>2, <3>3, Zenon
  <2>2. CASE s.source # <<>>
    <3>1. f = lines[12].value
      BY <1>2, <1>3, <1>4, <2>2, Zenon DEF Given
    <3>2. lines[12].value = <<"incl", "IN", "IP4", s.address, s.source>>
      BY <1>1, <2>2, Zenon DEF EndsWith
    <3>3. <<"incl", "IN", "IP4", s.address, s.source>>[5] = s.source
      OBVIOUS
    <3> QED BY <3>1, <3>2, <3>3, Zenon
  <2> QED BY <2>1, <2>2
<1>14. Described(lines) =
          [name |-> Given(lines, "s", Defaults.name), origin |-> o[6], address |-> c[3],
           port |-> media.port, payload |-> media.payload, encoding |-> map.encoding,
           rate |-> map.rate, channels |-> map.channels,
           ptime |-> Given(lines, "ptime", Defaults.ptime),
           frames |-> Given(lines, "framecount", Defaults.frames),
           domain |-> clock.domain, source |-> f[5]]
  BY Zenon DEF Described
<1> HIDE DEF media, map, clock, o, c, f
<1> QED BY <1>5, <1>6, <1>7, <1>8, <1>9, <1>10, <1>11, <1>12, <1>13, <1>14, Zenon DEF Fields

SessionFields == DOMAIN Defaults

\* A session has all fields, and no others.
IsSession(s) == s = [field \in SessionFields |-> s[field]]

LEMMA SessionFieldsAre ==
    SessionFields = {"name", "origin", "address", "port", "payload", "encoding", "rate",
                     "channels", "ptime", "frames", "domain", "source"}
  BY DEF SessionFields, Defaults

LEMMA FieldsIsSession == ASSUME NEW s, NEW r, r = Fields(s) PROVE IsSession(r)
  BY SessionFieldsAre DEF Fields, IsSession

LEMMA SessionIsFields == ASSUME NEW s, IsSession(s), NEW r, r = Fields(s) PROVE r = s
<1>1. IsSession(r)
  BY FieldsIsSession
<1>2. ASSUME NEW field \in SessionFields PROVE r[field] = s[field]
  <2>1. \/ field = "name" \/ field = "origin" \/ field = "address" \/ field = "port"
        \/ field = "payload" \/ field = "encoding" \/ field = "rate" \/ field = "channels"
        \/ field = "ptime" \/ field = "frames" \/ field = "domain" \/ field = "source"
    BY SessionFieldsAre
  <2>2. /\ r.name = s.name /\ r.origin = s.origin /\ r.address = s.address /\ r.port = s.port
        /\ r.payload = s.payload /\ r.encoding = s.encoding /\ r.rate = s.rate
        /\ r.channels = s.channels /\ r.ptime = s.ptime /\ r.frames = s.frames
        /\ r.domain = s.domain /\ r.source = s.source
    BY DEF Fields
  <2> QED BY <2>1, <2>2
<1>3. [field \in SessionFields |-> r[field]] = [field \in SessionFields |-> s[field]]
  BY <1>2
<1> QED BY <1>1, <1>3, Zenon DEF IsSession

\* A session returns as it was.
LEMMA DescriptionReturns ==
    ASSUME NEW s, IsSession(s), NEW r, r = Described(Generate(s))
    PROVE  r = s
<1>1. r = Fields(s)
  BY FieldsReturn
<1> QED BY <1>1, SessionIsFields

LEMMA DefaultsIsSession == IsSession(Defaults)
<1>1. Defaults = Fields(Defaults)
  BY SMTT(30) DEF Fields, Defaults
<1> QED BY <1>1, FieldsIsSession

LEMMA DeviceIsSession == IsSession(Device) /\ Device.origin = <<10, 0, 0, 3>>
<1>1. IsSession(Device)
  <2> DEFINE o == <<10, 0, 0, 3>>
             a == <<239, 1, 1, 1>>
             c == 2
             p == 98
  <2>1. Device = [Defaults EXCEPT !.name = "Device", !.origin = o, !.channels = c, !.address = a,
                                  !.payload = p]
    BY DEF Device
  <2> HIDE DEF o, a, c, p
  <2> QED BY <2>1, DefaultsIsSession, SessionFieldsAre DEF IsSession
<1>2. Device.origin = <<10, 0, 0, 3>>
  BY DEF Device, Defaults
<1> QED BY <1>1, <1>2

LEMMA BankIsSession ==
    ASSUME NEW b PROVE IsSession(Session(b)) /\ Session(b).origin = <<10, 0, 0, 1>>
<1>1. IsSession(Session(b))
  <2> DEFINE o == <<10, 0, 0, 1>>
             a == <<239, 69, 83, 80 + b>>
             t == 5004 + b
             p == 97
             c == 2
  <2>1. Session(b) = [Defaults EXCEPT !.name = Outputs, !.origin = o, !.source = o, !.address = a,
                                      !.port = t, !.payload = p, !.channels = c]
    BY DEF Session
  <2> HIDE DEF o, a, t, p, c
  <2> QED BY <2>1, DefaultsIsSession, SessionFieldsAre DEF IsSession
<1>2. Session(b).origin = <<10, 0, 0, 1>>
  BY DEF Session, Defaults
<1> QED BY <1>1, <1>2

\* The numbers of a session are in the ranges of their fields, and it has a name
\* and a multicast address.
InRange(s) ==
    /\ s.port \in Ports /\ s.payload \in Types /\ s.rate \in Nat /\ s.channels \in Ports
    /\ s.ptime \in Nat /\ s.frames \in Nat /\ s.domain \in Types
    /\ s.name # "" /\ isMulticast(s.address)

\* The payload type of the media line is the one the rtpmap is compared with.
LEMMA MapFitsMedia == ASSUME NEW s, NEW lines, lines = Generate(s) PROVE FitsMedia(lines, 7)
<1>1. KindsAre(lines) /\ Says(lines, s) /\ EndsWith(lines, s)
  BY GeneratedLines
<1> DEFINE before == SubSeq(lines, 1, 7 - 1)
<1>2. DOMAIN before = 1 .. 6 /\ \A i \in 1 .. 6 : before[i] = lines[i]
  <2>1. before = [i \in 1 .. 6 |-> lines[i]]
    BY <1>1 DEF EndsWith
  <2> HIDE DEF before
  <2> QED BY <2>1
<1>3. 6 \in 1 .. 6
  OBVIOUS
<1>4. \A i \in 1 .. 6 : lines[i].kind = "m" => i = 6
  <2> SUFFICES ASSUME NEW i \in 1 .. 6, lines[i].kind = "m" PROVE i = 6
    OBVIOUS
  <2>1. i = 1 \/ i = 2 \/ i = 3 \/ i = 4 \/ i = 5 \/ i = 6
    OBVIOUS
  <2> QED BY <1>1, <2>1 DEF KindsAre
<1>5. Usable(lines[6])
  BY <1>1 DEF Usable, KindsAre
<1> HIDE DEF before
<1>6. Where(before, "m") = {6}
  <2>1. ASSUME NEW i \in DOMAIN before, before[i].kind = "m" PROVE i = 6
    BY <1>2, <1>4, <2>1, Zenon
  <2>2. 6 \in DOMAIN before /\ before[6].kind = "m" /\ Usable(before[6])
    BY <1>1, <1>2, <1>3, <1>5, Zenon DEF KindsAre
  <2> QED BY <2>1, <2>2, Zenon DEF Where
<1>7. Given(before, "m", Defaults) = lines[6].value
  <2>1. Max({6}) = 6 /\ {6} # {}
    BY MaxOfOne
  <2> QED BY <1>2, <1>3, <1>6, <2>1, Zenon DEF Given
<1>8. lines[6].value.payload = s.payload
  <2>1. lines[6].value = [media |-> "audio", port |-> s.port, profile |-> "RTP/AVP",
                          payload |-> s.payload]
    BY <1>1, Zenon DEF Says
  <2> QED BY <2>1
<1>9. lines[7].value.payload = s.payload
  <2>1. lines[7].value = [payload |-> s.payload, encoding |-> s.encoding, rate |-> s.rate,
                          channels |-> s.channels]
    BY <1>1, Zenon DEF Says
  <2> QED BY <2>1
<1> QED BY <1>7, <1>8, <1>9, Zenon DEF FitsMedia, PayloadAt, before

\* No line generate() writes for such a session is refused.
LEMMA NothingRefused ==
    ASSUME NEW s, InRange(s), NEW lines, lines = Generate(s), NEW i \in DOMAIN lines
    PROVE  ~Refuses(lines, i)
<1>1. KindsAre(lines) /\ Says(lines, s) /\ EndsWith(lines, s)
  BY GeneratedLines
<1>2. /\ Where(lines, "m") = {6} /\ Where(lines, "rtpmap") = {7} /\ Where(lines, "ptime") = {8}
      /\ Where(lines, "framecount") = {9} /\ Where(lines, "refclk") = {10}
  BY WhereGenerated, Zenon
<1>3. /\ \A k \in {"m", "rtpmap", "ptime", "framecount"} :
            lines[i].kind = k => i \in Where(lines, k)
      /\ lines[i].kind = "refclk" /\ lines[i].value.marked => i \in Where(lines, "refclk")
  BY DEF Where, Usable
<1>4. CASE lines[i].kind = "m"
  <2>1. i = 6
    BY <1>2, <1>3, <1>4
  <2>2. lines[i].value = [media |-> "audio", port |-> s.port, profile |-> "RTP/AVP",
                          payload |-> s.payload]
    BY <1>1, <2>1, Zenon DEF Says
  <2>3. /\ lines[i].value.media = "audio" /\ lines[i].value.profile = "RTP/AVP"
        /\ lines[i].value.port = s.port /\ lines[i].value.payload = s.payload
    BY <2>2
  <2> QED BY <1>4, <2>3, Zenon DEF Refuses, InRange
<1>5. CASE lines[i].kind = "rtpmap"
  <2>1. i = 7
    BY <1>2, <1>3, <1>5
  <2>2. lines[i].value = [payload |-> s.payload, encoding |-> s.encoding, rate |-> s.rate,
                          channels |-> s.channels]
    BY <1>1, <2>1, Zenon DEF Says
  <2>3. lines[i].value.rate = s.rate /\ lines[i].value.channels = s.channels
    BY <2>2
  <2>4. FitsMedia(lines, i)
    BY <2>1, MapFitsMedia
  <2>5. s.rate >= 0
    <3>1. s.rate \in Nat
      BY Zenon DEF InRange
    <3> QED BY <3>1
  <2> QED BY <1>5, <2>3, <2>4, <2>5, Zenon DEF Refuses, InRange
<1>6. CASE lines[i].kind = "ptime"
  <2>1. i = 8
    BY <1>2, <1>3, <1>6
  <2>2. lines[i].value = s.ptime
    BY <1>1, <2>1, Zenon DEF Says
  <2>3. ~(s.ptime < 0)
    <3>1. s.ptime \in Nat
      BY Zenon DEF InRange
    <3> QED BY <3>1
  <2> QED BY <1>6, <2>2, <2>3, Zenon DEF Refuses
<1>7. CASE lines[i].kind = "framecount"
  <2>1. i = 9
    BY <1>2, <1>3, <1>7
  <2>2. lines[i].value = s.frames
    BY <1>1, <2>1, Zenon DEF Says
  <2>3. ~(s.frames < 0)
    <3>1. s.frames \in Nat
      BY Zenon DEF InRange
    <3> QED BY <3>1
  <2> QED BY <1>7, <2>2, <2>3, Zenon DEF Refuses
<1>8. CASE lines[i].kind = "refclk"
  <2>1. CASE lines[i].value.marked
    <3>1. i = 10
      BY <1>2, <1>3, <1>8, <2>1
    <3>2. lines[i].value = [marked |-> TRUE, domain |-> s.domain]
      BY <1>1, <3>1, Zenon DEF Says
    <3>3. lines[i].value.domain = s.domain
      BY <3>2
    <3> QED BY <1>8, <3>3, Zenon DEF Refuses, InRange
  <2>2. CASE ~lines[i].value.marked
    BY <1>8, <2>2, Zenon DEF Refuses
  <2> QED BY <2>1, <2>2
<1> QED BY <1>4, <1>5, <1>6, <1>7, <1>8, Zenon DEF Refuses

\* parse() of what generate() writes is the session it was written from, for
\* every session with a name, a multicast address and numbers in the ranges of
\* their fields, with a source filter or without (SDP.cpp:9-28, :30-97).
THEOREM ParseReturns == \A s : IsSession(s) /\ InRange(s) => Parse(Generate(s)) = {s}
<1> SUFFICES ASSUME NEW s, IsSession(s), InRange(s), NEW lines, lines = Generate(s)
             PROVE  Parse(lines) = {s}
  BY Zenon
<1>1. Described(lines) = s
  BY DescriptionReturns
<1>2. \A i \in DOMAIN lines : ~Refuses(lines, i)
  BY NothingRefused
<1>3. Where(lines, "m") # {} /\ Where(lines, "rtpmap") # {}
  <2>1. Where(lines, "m") = {6} /\ Where(lines, "rtpmap") = {7}
    BY WhereGenerated, Zenon
  <2> QED BY <2>1
<1>4. s.name # "" /\ isMulticast(s.address)
  BY Zenon DEF InRange
<1> QED BY <1>1, <1>2, <1>3, <1>4, Zenon DEF Parse

----------------------------------------------------------------------------
(* Who takes a session out of the listener's table.                        *)

OriginOf(from) == IF from = "publisher" THEN <<10, 0, 0, 1>> ELSE <<10, 0, 0, 3>>

\* Two senders are on the air.
Shared == cast.banks > 0 /\ cast.other # {}

\* A message of the other sender: it describes a session, and has a deletion flag
\* and lines.
IsMessage(m) == IsSession(m.means) /\ {"deletion", "lines"} \subseteq DOMAIN m.wire

\* The other sender lays out its description as generate() does.
OwnLayout == \A m \in cast.other : m.wire.lines = Generate(m.means)

\* The senders there are.
Sender(from) ==
    /\ from \in {"publisher", "other"}
    /\ from = "publisher" => cast.banks > 0
    /\ from = "other" => cast.other # {}

\* Beside the publisher, the other sender is a device with a description in the
\* engine's own layout.
CastMeans ==
    /\ Shared => cast.other = {Message(Device, Generate(Device))}
    /\ \A m \in cast.other : IsMessage(m)

AirMeans == \A d \in air : Sender(d.from)

\* An entry of the table; it is what its sender described and fits the profile.
Entry(e) ==
    /\ e = [session |-> e.session, from |-> e.from, bank |-> e.bank, age |-> e.age]
    /\ e.age \in Nat /\ Sender(e.from)
    /\ OwnLayout => e.session = Meant(e) /\ IsSession(e.session) /\ Supported(e.session)

\* Where two senders share the table, the key says which of them an entry is from.
KeyMeans(k, from) == Shared => k[2] = OriginOf(from)

TableMeans == \A k \in DOMAIN table : Entry(table[k]) /\ KeyMeans(k, table[k].from)

\* A publisher that runs has a bank.
RunMeans == pubPc # "off" => cast.banks > 0

PublicationInv == CastMeans /\ RunMeans /\ AirMeans /\ TableMeans

LEMMA MessageIsOne ==
    ASSUME NEW s, IsSession(s), NEW lines, NEW m, m = Message(s, lines) PROVE IsMessage(m)
  BY DEF IsMessage, Message, Encode

\* A session stays one when a field is changed.
LEMMA ChangedIsSession ==
    ASSUME NEW s, IsSession(s), NEW field \in SessionFields, NEW x, NEW r,
           r = [s EXCEPT ![field] = x]
    PROVE  IsSession(r)
  BY DEF IsSession

LEMMA DescriptionsAreSessions == ASSUME NEW s \in Descriptions PROVE IsSession(s)
<1>1. \/ s = Device \/ s = [Device EXCEPT !.origin = Listener, !.name = Outputs]
      \/ \E field \in {"encoding", "rate", "channels", "ptime", "frames", "domain", "address",
                      "name", "port", "payload", "origin"} :
            \E x : s = [Device EXCEPT ![field] = x]
  BY Zenon DEF Descriptions
<1>2. IsSession([Device EXCEPT !.origin = Listener, !.name = Outputs])
  BY DeviceIsSession, SessionFieldsAre DEF IsSession
<1> QED BY <1>1, <1>2, DeviceIsSession, SessionFieldsAre, ChangedIsSession

LEMMA SilentIsMessage ==
    ASSUME NEW field \in SessionFields, NEW value, NEW kinds, NEW m, m = Silent(field, value, kinds)
    PROVE  IsMessage(m)
<1> DEFINE d == [Device EXCEPT ![field] = value]
<1>1. IsSession(d)
  BY DeviceIsSession, ChangedIsSession
<1>2. m = Message(d, Except(d, kinds))
  BY DEF Silent
<1> HIDE DEF d
<1> QED BY <1>1, <1>2, MessageIsOne

LEMMA LayoutsAreMessages == ASSUME NEW m \in Layouts PROVE IsMessage(m)
<1> DEFINE s2 == [Device EXCEPT !.payload = 96]
           s6(d) == [Device EXCEPT !.domain = d]
           l0 == Except(Device, {"ptime", "framecount", "refclk", "mediaclk", "sendonly"})
           l1 == Only(Device, {"rtpmap"}) \o Except(Device, {"rtpmap"})
           l2 == LET s == [Device EXCEPT !.payload = 96]
                 IN Only(s, {"rtpmap"}) \o Except(s, {"rtpmap"})
           l3 == Except(Device, {"rtpmap"})
           l4 == Append(Generate(Device), OtherMap(99, 8))
           l5 == Generate(Device) \o <<OtherMedia("audio", 99), OtherMap(99, 8)>>
           l7 == Append(Generate(Device), OtherMedia("audio", 0))
           l8 == <<Line("c", <<"IN", "IP4", <<239, 1, 1, 2>>>>)>> \o Generate(Device)
           l9 == <<OtherMedia("video", 100)>> \o Generate(Device)
           l10 == Append(Except(Device, {"o"}), Line("o", <<"-", "1">>))
           l6(d) == Append(Except(Device, {"refclk"}),
                           Line("refclk", [marked |-> FALSE, domain |-> d]))
<1>1. m \in {Message(Device, l0), Message(Device, l1), Message(s2, l2), Message(Device, l3),
             Message(Device, l4), Message(Device, l5), Message(Device, l7), Message(Device, l8),
             Message(Device, l9), Message(Device, l10),
             Silent("ptime", 4, {"ptime"}), Silent("frames", 6, {"framecount"})}
            \cup {Message(s6(d), l6(d)) : d \in {0, 1}}
  BY DEF Layouts
<1> HIDE DEF s2, s6, l0, l1, l2, l3, l4, l5, l6, l7, l8, l9, l10
<1>2. \/ m = Silent("ptime", 4, {"ptime"}) \/ m = Silent("frames", 6, {"framecount"})
      \/ m = Message(s2, l2)
      \/ m \in {Message(Device, l0), Message(Device, l1), Message(Device, l3), Message(Device, l4),
                Message(Device, l5), Message(Device, l7), Message(Device, l8), Message(Device, l9),
                Message(Device, l10)}
      \/ \E d \in {0, 1} : m = Message(s6(d), l6(d))
  BY <1>1, Zenon
<1>3. IsSession(s2)
  BY DeviceIsSession, SessionFieldsAre, ChangedIsSession DEF s2
<1>4. ASSUME NEW d PROVE IsSession(s6(d))
  BY DeviceIsSession, SessionFieldsAre, ChangedIsSession DEF s6
<1>5. ASSUME NEW l PROVE IsMessage(Message(Device, l))
  BY DeviceIsSession, MessageIsOne
<1>6. "ptime" \in SessionFields /\ "frames" \in SessionFields
  BY SessionFieldsAre
<1> QED BY <1>2, <1>3, <1>4, <1>5, <1>6, SilentIsMessage, MessageIsOne, Zenon

LEMMA WiresAreMessages == ASSUME NEW w \in Wires PROVE {"deletion", "lines"} \subseteq DOMAIN w
<1> DEFINE v == Message(Device, Generate(Device)).wire
           b1 == <<"zero">> \o v.body
           b2 == <<"v=0">>
           b3 == <<"text/plain", "zero", "v=0">>
           b4 == <<"application/sdp", "v=0">>
           b5 == <<"application/sdp", "zero">>
           b6 == <<"application/sdp", "zero", "text">>
<1>1. {"deletion", "lines"} \subseteq DOMAIN v
  BY DeviceIsSession, MessageIsOne DEF IsMessage
<1>2. w \in {[v EXCEPT !.words = 1, !.body = b1], [v EXCEPT !.words = 3],
             [v EXCEPT !.body = b2], [v EXCEPT !.body = b3], [v EXCEPT !.body = b4],
             [v EXCEPT !.body = b5], [v EXCEPT !.body = b6],
             [v EXCEPT !.version = 2], [v EXCEPT !.encrypted = TRUE],
             [v EXCEPT !.compressed = TRUE]}
  BY DEF Wires
<1> HIDE DEF v, b1, b2, b3, b4, b5, b6
<1> QED BY <1>1, <1>2

LEMMA OthersAreMessages == ASSUME NEW m \in Others PROVE IsMessage(m)
<1>1. \/ \E s \in Descriptions : m = Message(s, Generate(s))
      \/ m \in Layouts
      \/ m \in [means : {Device}, wire : Wires]
  BY Zenon DEF Others
<1>2. ASSUME NEW s \in Descriptions, m = Message(s, Generate(s)) PROVE IsMessage(m)
  BY <1>2, DescriptionsAreSessions, MessageIsOne
<1>3. ASSUME m \in [means : {Device}, wire : Wires] PROVE IsMessage(m)
  <2>1. m.wire \in Wires /\ m.means = Device
    BY <1>3
  <2> QED BY <2>1, WiresAreMessages, DeviceIsSession DEF IsMessage
<1> QED BY <1>1, <1>2, <1>3, LayoutsAreMessages, Zenon

LEMMA CastsMean == cast \in Casts => CastMeans
<1> SUFFICES ASSUME cast \in Casts PROVE CastMeans
  OBVIOUS
<1> DEFINE own == Message(Device, Generate(Device))
           base == [banks |-> 2, collide |-> FALSE, other |-> {}, deletes |-> TRUE, windows |-> FALSE]
<1>1. \/ cast \in {base, [base EXCEPT !.collide = TRUE],
                   [base EXCEPT !.banks = 1, !.windows = TRUE],
                   [base EXCEPT !.banks = 1, !.other = {own}],
                   [base EXCEPT !.other = {own}, !.deletes = FALSE]}
      \/ \E m \in Others : cast = [base EXCEPT !.banks = 0, !.other = {m}]
  BY Zenon DEF Casts
<1> HIDE DEF own
<1>2. \/ cast.other = {} \/ cast.other = {own}
      \/ \E m \in Others : cast.banks = 0 /\ cast.other = {m}
  <2>1. ASSUME NEW m \in Others, cast = [base EXCEPT !.banks = 0, !.other = {m}]
        PROVE  cast.banks = 0 /\ cast.other = {m}
    BY <2>1
  <2>2. base.other = {} /\ [base EXCEPT !.collide = TRUE].other = {}
    OBVIOUS
  <2>3. [base EXCEPT !.banks = 1, !.windows = TRUE].other = {}
    OBVIOUS
  <2>4. [base EXCEPT !.banks = 1, !.other = {own}].other = {own}
    OBVIOUS
  <2>5. [base EXCEPT !.other = {own}, !.deletes = FALSE].other = {own}
    OBVIOUS
  <2> HIDE DEF base
  <2> QED BY <1>1, <2>1, <2>2, <2>3, <2>4, <2>5, Zenon
<1>3. IsMessage(own)
  BY DeviceIsSession, MessageIsOne DEF own
<1>4. CASE cast.other = {}
  BY <1>4, Zenon DEF CastMeans, Shared
<1>5. CASE cast.other = {own}
  <2>1. \A m \in cast.other : IsMessage(m)
    BY <1>3, <1>5
  <2> QED BY <1>5, <2>1, Zenon DEF CastMeans, own
<1>6. ASSUME NEW m \in Others, cast.banks = 0, cast.other = {m} PROVE CastMeans
  <2>1. ~Shared
    BY <1>6 DEF Shared
  <2>2. \A x \in cast.other : IsMessage(x)
    BY <1>6, OthersAreMessages
  <2> QED BY <2>1, <2>2, Zenon DEF CastMeans
<1> QED BY <1>2, <1>4, <1>5, <1>6

\* Whatever is read from a datagram has the origin of its sender.
LEMMA OriginRead ==
    ASSUME CastMeans, Shared, NEW d, Sender(d.from), NEW s \in Parse(WireOf(d).lines)
    PROVE  s.origin = OriginOf(d.from)
<1>1. s = Described(WireOf(d).lines)
  BY Zenon DEF Parse
<1>2. CASE d.from = "publisher"
  <2>1. WireOf(d).lines = Generate(Session(d.bank))
    BY <1>2 DEF WireOf, Encode
  <2>2. s = Session(d.bank)
    BY <1>1, <2>1, BankIsSession, DescriptionReturns
  <2> QED BY <1>2, <2>2, BankIsSession DEF OriginOf
<1>3. CASE d.from = "other"
  <2> DEFINE m == Message(Device, Generate(Device))
  <2>1. (CHOOSE x \in cast.other : TRUE) = m
    <3>1. cast.other = {m}
      BY Zenon DEF CastMeans
    <3> HIDE DEF m
    <3> QED BY <3>1
  <2>2. WireOf(d) = [m.wire EXCEPT !.deletion = d.deletion]
    BY <1>3, <2>1 DEF WireOf
  <2>3. m.wire = [Encode(Device, FALSE, 5005) EXCEPT !.lines = Generate(Device)]
    BY DEF Message
  <2>4. m.wire.lines = Generate(Device)
    BY <2>3 DEF Encode
  <2>5. WireOf(d).lines = Generate(Device)
    BY <2>2, <2>3, <2>4 DEF Encode
  <2>6. s = Device
    BY <1>1, <2>5, DeviceIsSession, DescriptionReturns
  <2> QED BY <1>3, <2>6, DeviceIsSession DEF OriginOf
<1> QED BY <1>2, <1>3 DEF Sender

\* An entry a datagram applies to is one of its own sender.
LEMMA SameSender ==
    ASSUME PublicationInv, NEW d \in air, NEW s \in Parse(WireOf(d).lines),
           NEW k \in DOMAIN table, k = <<WireOf(d).hash, s.origin>>
    PROVE  table[k].from = d.from
<1>1. Sender(d.from) /\ Sender(table[k].from) /\ KeyMeans(k, table[k].from)
  BY Zenon DEF PublicationInv, AirMeans, TableMeans, Entry
<1>2. CASE Shared
  <2>1. s.origin = OriginOf(d.from)
    BY <1>1, <1>2, OriginRead DEF PublicationInv
  <2>2. k[2] = s.origin
    OBVIOUS
  <2>3. OriginOf(d.from) = OriginOf(table[k].from)
    BY <1>1, <1>2, <2>1, <2>2 DEF KeyMeans
  <2>4. <<10, 0, 0, 1>> # <<10, 0, 0, 3>>
    OBVIOUS
  <2> QED BY <1>1, <2>3, <2>4, Zenon DEF OriginOf, Sender
<1>3. CASE ~Shared
  BY <1>1, <1>3, Zenon DEF Sender, Shared
<1> QED BY <1>2, <1>3

\* A datagram deletes when it says so.
LEMMA DeletionSaid ==
    ASSUME CastMeans, NEW d, Sender(d.from) PROVE WireOf(d).deletion = d.deletion
<1>1. CASE d.from = "publisher"
  BY <1>1 DEF WireOf, Encode
<1>2. CASE d.from = "other"
  <2> DEFINE m == CHOOSE m \in cast.other : TRUE
             v == m.wire
  <2>1. m \in cast.other
    BY <1>2, Zenon DEF Sender
  <2>2. {"deletion", "lines"} \subseteq DOMAIN v
    BY <2>1, Zenon DEF CastMeans, IsMessage
  <2>3. WireOf(d) = [v EXCEPT !.deletion = d.deletion]
    BY <1>2 DEF WireOf
  <2> HIDE DEF m, v
  <2> QED BY <2>2, <2>3
<1> QED BY <1>1, <1>2 DEF Sender

\* The lines of a message in the engine's own layout are those of what is meant.
LEMMA OwnLines ==
    ASSUME CastMeans, OwnLayout, NEW d, Sender(d.from)
    PROVE  WireOf(d).lines = Generate(Meant(d)) /\ IsSession(Meant(d))
<1>1. CASE d.from = "publisher"
  <2>1. WireOf(d).lines = Generate(Session(d.bank))
    BY <1>1 DEF WireOf, Encode
  <2>2. Meant(d) = Session(d.bank)
    BY <1>1 DEF Meant
  <2> QED BY <2>1, <2>2, BankIsSession
<1>2. CASE d.from = "other"
  <2> DEFINE m == CHOOSE m \in cast.other : TRUE
             v == m.wire
  <2>1. m \in cast.other
    BY <1>2, Zenon DEF Sender
  <2>2. IsMessage(m) /\ v.lines = Generate(m.means)
    BY <2>1, Zenon DEF CastMeans, OwnLayout
  <2>3. "lines" \in DOMAIN v
    BY <2>2 DEF IsMessage
  <2>4. WireOf(d) = [v EXCEPT !.deletion = d.deletion] /\ Meant(d) = m.means
    BY <1>2 DEF WireOf, Meant
  <2> HIDE DEF v, m
  <2>5. WireOf(d).lines = v.lines
    BY <2>3, <2>4
  <2> QED BY <2>2, <2>4, <2>5, Zenon DEF IsMessage
<1> QED BY <1>1, <1>2 DEF Sender

\* What is read from a description in the engine's own layout is what was meant.
LEMMA ReadAsMeant ==
    ASSUME CastMeans, OwnLayout, NEW d, Sender(d.from), NEW s \in Parse(WireOf(d).lines)
    PROVE  s = Meant(d) /\ IsSession(s)
<1>1. s = Described(WireOf(d).lines)
  BY Zenon DEF Parse
<1> QED BY <1>1, OwnLines, DescriptionReturns

\* What becomes of the table: nothing, one entry leaves, or one is written.
LEMMA HandledMeans ==
    ASSUME NEW t, NEW d, NEW r \in Handled(t, d), r # t
    PROVE  \E s \in Parse(WireOf(d).lines) :
              LET k == <<WireOf(d).hash, s.origin>>
              IN /\ Supported(s)
                 /\ IF WireOf(d).deletion THEN r = Erase(t, k)
                    ELSE r \in Upsert(t, k, [session |-> s, from |-> d.from,
                                            bank |-> d.bank, age |-> 0])
<1> DEFINE w == WireOf(d)
           sessions == IF Decodes(w) THEN {s \in Parse(w.lines) : Supported(s) /\ ~Own(s)} ELSE {}
           s == CHOOSE s \in sessions : TRUE
           k == <<w.hash, s.origin>>
           new == [session |-> s, from |-> d.from, bank |-> d.bank, age |-> 0]
<1>1. sessions # {}
  <2>1. ASSUME sessions = {} PROVE Handled(t, d) = {t}
    BY <2>1, Zenon DEF Handled
  <2> QED BY <2>1
<1>2. s \in sessions
  BY <1>1, Zenon
<1>3. s \in Parse(w.lines) /\ Supported(s)
  <2>1. \A x \in sessions : x \in Parse(w.lines) /\ Supported(x)
    OBVIOUS
  <2> HIDE DEF sessions, s
  <2> QED BY <1>2, <2>1, Zenon
<1>4. IF w.deletion THEN Handled(t, d) = {Erase(t, k)} ELSE Handled(t, d) = Upsert(t, k, new)
  BY <1>1, Zenon DEF Handled
<1>5. IF w.deletion THEN r = Erase(t, k) ELSE r \in Upsert(t, k, new)
  <2> HIDE DEF w, k, new
  <2> QED BY <1>4
<1> HIDE DEF w, s
<1> QED BY <1>3, <1>5, Zenon DEF w

\* A table in which a session has a slot lacks one of the old entries at most, and
\* that is one of the oldest of a full table.
LEMMA RoomMeans ==
    ASSUME NEW t, NEW k, NEW r \in WithRoom(t, k)
    PROVE  /\ DOMAIN r \subseteq DOMAIN t /\ \A x \in DOMAIN r : r[x] = t[x]
           /\ \A x \in DOMAIN t \ DOMAIN r :
                 /\ k \notin DOMAIN t /\ ~(Cardinality(DOMAIN t) < MaxSessions)
                 /\ \A other \in DOMAIN t : t[other].age <= t[x].age
<1>1. CASE r = t
  BY <1>1
<1>2. CASE r # t
  <2>1. /\ k \notin DOMAIN t /\ ~(Cardinality(DOMAIN t) < MaxSessions)
        /\ r \in {Restrict(t, DOMAIN t \ {old}) : old \in Oldest(t)}
    BY <1>2, Zenon DEF WithRoom
  <2>2. PICK old \in Oldest(t) : r = Restrict(t, DOMAIN t \ {old})
    BY <2>1, Zenon
  <2>3. r = [x \in DOMAIN t \ {old} |-> t[x]]
    BY <2>2 DEF Restrict
  <2>4. DOMAIN r = DOMAIN t \ {old} /\ \A x \in DOMAIN r : r[x] = t[x]
    BY <2>3
  <2>5. \A other \in DOMAIN t : t[other].age <= t[old].age
    BY Zenon DEF Oldest
  <2> QED BY <2>1, <2>4, <2>5, Zenon
<1> QED BY <1>1, <1>2

\* expire() keeps what is not too old, as it is.
LEMMA ExpiredKeeps ==
    /\ DOMAIN Expired \subseteq DOMAIN table
    /\ \A k \in DOMAIN Expired : Expired[k] = table[k]
    /\ TableMeans => \A k \in DOMAIN table : table[k].age > Timeout \/ k \in DOMAIN Expired
<1>1. Timeout \in Nat
  BY PublicationAssumption
<1> QED BY <1>1 DEF Expired, Restrict, TableMeans, Entry

----------------------------------------------------------------------------
(* The invariant and the theorems.                                         *)

LEMMA PublicationStarts == PublicationInit => PublicationInv
<1> SUFFICES ASSUME PublicationInit PROVE PublicationInv
  OBVIOUS
<1>1. CastMeans
  BY CastsMean DEF PublicationInit
<1>2. AirMeans
  BY DEF PublicationInit, AirMeans
<1>3. DOMAIN table = {}
  BY DEF PublicationInit
<1>4. TableMeans
  BY <1>3, Zenon DEF TableMeans
<1>5. RunMeans
  BY DEF PublicationInit, RunMeans
<1> QED BY <1>1, <1>2, <1>4, <1>5 DEF PublicationInv

\* The senders do not change, so the entries that stay mean what they meant.
LEMMA CastStays ==
    ASSUME cast' = cast
    PROVE  /\ CastMeans => CastMeans'
           /\ \A x : Sender(x)' = Sender(x)
           /\ \A e : Entry(e)' = Entry(e)
           /\ \A k, x : KeyMeans(k, x)' = KeyMeans(k, x)
<1>1. CastMeans => CastMeans'
  BY DEF CastMeans, Shared
<1>2. \A x : Sender(x)' = Sender(x)
  BY DEF Sender
<1>3. \A e : Meant(e)' = Meant(e)
  BY DEF Meant
<1>4. OwnLayout' = OwnLayout
  BY DEF OwnLayout
<1>5. \A e : Entry(e)' = Entry(e)
  BY <1>2, <1>3, <1>4 DEF Entry
<1>6. \A k, x : KeyMeans(k, x)' = KeyMeans(k, x)
  BY DEF KeyMeans, Shared
<1> QED BY <1>1, <1>2, <1>5, <1>6

LEMMA TableStays ==
    ASSUME TableMeans, cast' = cast, DOMAIN table' \subseteq DOMAIN table,
           \A k \in DOMAIN table' : table'[k] = table[k]
    PROVE  TableMeans'
  BY CastStays, Zenon DEF TableMeans

\* The steps that apply a datagram.
LEMMA ReceiveKeeps ==
    ASSUME PublicationInv, NEW d \in air, Receive(d)
    PROVE  TableMeans' /\ LeavesRightly
<1> DEFINE e == Expired
           w == WireOf(d)
<1>1. table' \in Handled(e, d) /\ cast' = cast /\ d \in air \ air'
  BY DEF Receive, Arrives
<1>2. CastMeans /\ AirMeans /\ TableMeans /\ Sender(d.from)
  BY DEF PublicationInv, AirMeans
<1>3. /\ DOMAIN e \subseteq DOMAIN table
      /\ \A k \in DOMAIN e : e[k] = table[k]
      /\ \A k \in DOMAIN table : table[k].age > Timeout \/ k \in DOMAIN e
  BY <1>2, ExpiredKeeps
<1>4. w.deletion = d.deletion
  BY <1>2, DeletionSaid
<1>5. CASE table' = e
  <2>1. table' = e
    BY <1>5
  <2> HIDE DEF e
  <2>2. TableMeans'
    BY <1>1, <1>2, <1>3, <2>1, TableStays
  <2> QED BY <1>3, <2>1, <2>2, Zenon DEF LeavesRightly
<1>6. CASE table' # e
  <2>1. PICK s \in Parse(w.lines) :
              LET k == <<w.hash, s.origin>>
              IN /\ Supported(s)
                 /\ IF w.deletion THEN table' = Erase(e, k)
                    ELSE table' \in Upsert(e, k, [session |-> s, from |-> d.from,
                                                  bank |-> d.bank, age |-> 0])
    BY <1>1, <1>6, HandledMeans, Zenon
  <2> DEFINE k == <<w.hash, s.origin>>
             new == [session |-> s, from |-> d.from, bank |-> d.bank, age |-> 0]
  <2>2. k \in DOMAIN table => table[k].from = d.from
    BY SameSender
  <2>3. KeyMeans(k, d.from)
    <3>1. Shared => s.origin = OriginOf(d.from)
      BY <1>2, OriginRead
    <3>2. k[2] = s.origin
      OBVIOUS
    <3> QED BY <3>1, <3>2, Zenon DEF KeyMeans
  <2>4. w.deletion => table' = Erase(e, k)
    BY <1>1, <2>1, Zenon
  <2>5. ~w.deletion => table' \in Upsert(e, k, new)
    BY <1>1, <2>1, Zenon
  <2>6. Entry(new) /\ new.from = d.from
    <3>1. new.session = s /\ new.from = d.from /\ new.bank = d.bank /\ new.age = 0
      OBVIOUS
    <3>2. Meant(new) = Meant(d)
      BY <3>1 DEF Meant
    <3>3. OwnLayout => s = Meant(d) /\ IsSession(s)
      BY <1>2, ReadAsMeant
    <3>4. Supported(s)
      BY <2>1, Zenon
    <3>5. new = [session |-> new.session, from |-> new.from, bank |-> new.bank, age |-> new.age]
      BY <3>1, Zenon
    <3> HIDE DEF new
    <3> QED BY <1>2, <3>1, <3>2, <3>3, <3>4, <3>5 DEF Entry
  <2> HIDE DEF e, w, k, new
  <2>7. CASE w.deletion
    <3>1. table' = [x \in DOMAIN e \ {k} |-> e[x]]
      BY <2>4, <2>7 DEF Erase, Restrict
    <3>2. DOMAIN table' = DOMAIN e \ {k} /\ \A x \in DOMAIN table' : table'[x] = e[x]
      BY <3>1
    <3>3. TableMeans'
      BY <1>1, <1>2, <1>3, <3>2, TableStays
    <3>4. LeavesRightly
      BY <1>1, <1>3, <1>4, <2>2, <2>7, <3>2, Zenon DEF LeavesRightly
    <3> QED BY <3>3, <3>4
  <2>8. CASE ~w.deletion
    <3>1. PICK r \in WithRoom(e, k) :
             table' = [x \in DOMAIN r \cup {k} |-> IF x = k THEN new ELSE r[x]]
      BY <2>5, <2>8, Zenon DEF Upsert
    <3>2. /\ DOMAIN table' = DOMAIN r \cup {k} /\ table'[k] = new
          /\ \A x \in DOMAIN r : x # k => table'[x] = r[x]
      BY <3>1
    <3>5. /\ DOMAIN r \subseteq DOMAIN e /\ \A x \in DOMAIN r : r[x] = e[x]
          /\ \A x \in DOMAIN e \ DOMAIN r :
                /\ k \notin DOMAIN e /\ ~(Cardinality(DOMAIN e) < MaxSessions)
                /\ \A other \in DOMAIN e : e[other].age <= e[x].age
      BY RoomMeans
    <3>3. TableMeans'
      <4> SUFFICES ASSUME NEW x \in DOMAIN table'
                   PROVE  (Entry(table[x]) /\ KeyMeans(x, table[x].from))'
        BY Zenon DEF TableMeans
      <4>1. CASE x = k
        <5>1. Entry(table'[x]) /\ KeyMeans(x, table'[x].from)
          BY <2>3, <2>6, <3>2, <4>1, Zenon
        <5> QED BY <1>1, <5>1, CastStays, Zenon
      <4>2. CASE x # k
        <5>1. x \in DOMAIN r /\ x \in DOMAIN e
          BY <3>2, <3>5, <4>2, Zenon
        <5>2. x \in DOMAIN table /\ table'[x] = table[x]
          BY <1>3, <3>2, <3>5, <4>2, <5>1, Zenon
        <5>3. Entry(table'[x]) /\ KeyMeans(x, table'[x].from)
          BY <1>2, <5>2, Zenon DEF TableMeans
        <5> QED BY <1>1, <5>3, CastStays, Zenon
      <4> QED BY <4>1, <4>2
    <3>4. LeavesRightly
      <4>1. ASSUME NEW x \in DOMAIN table, x \in DOMAIN r
            PROVE  x \in DOMAIN table' /\ table'[x].from = table[x].from
        <5>1. x \in DOMAIN table'
          BY <3>2, <4>1, Zenon
        <5>2. CASE x = k
          BY <2>2, <2>6, <3>2, <5>1, <5>2, Zenon
        <5>3. CASE x # k
          BY <1>3, <3>2, <3>5, <4>1, <5>1, <5>3, Zenon
        <5> QED BY <5>1, <5>2, <5>3
      <4>2. ASSUME NEW x \in DOMAIN table, x \in DOMAIN e, x \notin DOMAIN r
            PROVE  /\ ~(Cardinality(DOMAIN e) < MaxSessions)
                   /\ \A other \in DOMAIN e : table[other].age <= table[x].age
                   /\ k \in DOMAIN table' /\ k \notin DOMAIN e
        BY <1>3, <3>2, <3>5, <4>2, Zenon
      <4> QED BY <1>3, <4>1, <4>2, Zenon DEF LeavesRightly, e
    <3> QED BY <3>3, <3>4
  <2> QED BY <2>7, <2>8
<1> QED BY <1>5, <1>6

\* The other steps that change the table.
LEMMA ExpiringKeeps ==
    ASSUME PublicationInv, table' = Expired, cast' = cast
    PROVE  TableMeans' /\ LeavesRightly
<1> DEFINE e == Expired
<1>1. /\ DOMAIN e \subseteq DOMAIN table
      /\ \A k \in DOMAIN e : e[k] = table[k]
      /\ \A k \in DOMAIN table : table[k].age > Timeout \/ k \in DOMAIN e
  BY ExpiredKeeps DEF PublicationInv
<1>2. table' = e
  OBVIOUS
<1> HIDE DEF e
<1>3. TableMeans'
  BY <1>1, <1>2, TableStays DEF PublicationInv
<1> QED BY <1>1, <1>2, <1>3, Zenon DEF LeavesRightly

LEMMA RestartKeeps == ASSUME Restart PROVE TableMeans' /\ LeavesRightly
<1>1. DOMAIN table' = {}
  BY DEF Restart
<1>2. TableMeans'
  BY <1>1, Zenon DEF TableMeans
<1> QED BY <1>2, Zenon DEF LeavesRightly

LEMMA TickKeeps == ASSUME PublicationInv, Tick PROVE TableMeans' /\ LeavesRightly
<1>1. /\ table' = [k \in DOMAIN table |-> [table[k] EXCEPT !.age = Min({@ + 1, Timeout + 1})]]
      /\ cast' = cast
  BY DEF Tick
<1>2. TableMeans
  BY DEF PublicationInv
<1>3. ASSUME NEW k \in DOMAIN table
      PROVE  /\ k \in DOMAIN table' /\ table'[k].from = table[k].from
             /\ Entry(table'[k])
  <2> DEFINE e == table[k]
  <2>1. Entry(e)
    BY <1>2, Zenon DEF TableMeans
  <2>2. e.age \in Nat /\ Timeout \in Nat
    BY <2>1, PublicationAssumption DEF Entry
  <2>3. Min({e.age + 1, Timeout + 1}) \in Nat
    BY <2>2 DEF Min
  <2>4. table'[k] = [e EXCEPT !.age = Min({e.age + 1, Timeout + 1})]
    BY <1>1
  <2>5. e = [session |-> e.session, from |-> e.from, bank |-> e.bank, age |-> e.age]
        /\ Sender(e.from)
    BY <2>1, Zenon DEF Entry
  <2>6. OwnLayout => e.session = Meant(e) /\ IsSession(e.session) /\ Supported(e.session)
    BY <2>1, Zenon DEF Entry
  <2> HIDE DEF e
  <2>7. table'[k] = [session |-> e.session, from |-> e.from, bank |-> e.bank,
                     age |-> Min({e.age + 1, Timeout + 1})]
    BY <2>4, <2>5
  <2> DEFINE r == table'[k]
  <2>8. r.session = e.session /\ r.from = e.from /\ r.bank = e.bank /\ r.age \in Nat
    BY <2>3, <2>7
  <2>9. Meant(r) = Meant(e)
    BY <2>8 DEF Meant
  <2>10. r = [session |-> r.session, from |-> r.from, bank |-> r.bank, age |-> r.age]
    BY <2>7
  <2>11. Entry(r)
    BY <2>5, <2>6, <2>8, <2>9, <2>10, Zenon DEF Entry
  <2> QED BY <1>1, <2>8, <2>11 DEF e
<1>4. DOMAIN table' = DOMAIN table
  BY <1>1
<1>5. TableMeans'
  <2> SUFFICES ASSUME NEW k \in DOMAIN table'
               PROVE  (Entry(table[k]) /\ KeyMeans(k, table[k].from))'
    BY Zenon DEF TableMeans
  <2>1. Entry(table'[k]) /\ KeyMeans(k, table'[k].from)
    BY <1>2, <1>3, <1>4, Zenon DEF TableMeans
  <2> QED BY <1>1, <2>1, CastStays, Zenon
<1> QED BY <1>3, <1>5, Zenon DEF LeavesRightly

LEMMA UntouchedKeeps ==
    ASSUME PublicationInv, table' = table, cast' = cast
    PROVE  TableMeans' /\ LeavesRightly
<1>1. TableMeans'
  BY TableStays DEF PublicationInv
<1> QED BY <1>1, Zenon DEF LeavesRightly

\* A datagram comes on the air when a sender there is sends it.
LEMMA SendKeeps ==
    ASSUME AirMeans, cast' = cast, NEW d, Sender(d.from), NEW lost \in BOOLEAN, Send(d, lost)
    PROVE  AirMeans'
<1>1. \A x \in air' : Sender(x.from)
  BY DEF Send, AirMeans
<1> QED BY <1>1, CastStays, Zenon DEF AirMeans

LEMMA AirStays ==
    ASSUME AirMeans, cast' = cast, air' \subseteq air PROVE AirMeans'
<1>1. \A x \in air' : Sender(x.from)
  BY DEF AirMeans
<1> QED BY <1>1, CastStays, Zenon DEF AirMeans

LEMMA PublicationSteps ==
    ASSUME PublicationInv, [PublicationNext]_publicationVars
    PROVE  PublicationInv' /\ LeavesRightly
<1> USE DEF pubVars, subVars
<1>1. cast' = cast
  BY DEF publicationVars, PublicationNext, StartPublisher, Publisher, OpenPublisher, Wake, Announce,
         Delete, StopPublisher, Kill, OtherSends, ListenerFails, ListenerOpens, Retry, Turn, Quiet,
         ReceiveFails, Receive, Restart, Tick
<1>2. CastMeans'
  BY <1>1, CastStays DEF PublicationInv
<1>3. RunMeans'
  BY <1>1 DEF PublicationInv, RunMeans, publicationVars, PublicationNext, StartPublisher, Publisher,
         OpenPublisher, Wake, Announce, Delete, StopPublisher, Kill, OtherSends, ListenerFails,
         ListenerOpens, Retry, Turn, Quiet, ReceiveFails, Receive, Restart, Tick
<1>4. AirMeans'
  <2>1. ASSUME NEW b \in PublishedBanks, NEW lost \in BOOLEAN, Announce(b, lost) \/ Delete(b, lost)
        PROVE  AirMeans'
    <3>1. Sender("publisher")
      BY <2>1 DEF PublicationInv, RunMeans, Announce, Delete, Sender
    <3>2. Announcement(b).from = "publisher" /\ Deletion(b).from = "publisher"
      BY DEF Announcement, Deletion
    <3>3. Send(Announcement(b), lost) \/ Send(Deletion(b), lost)
      BY <2>1 DEF Announce, Delete
    <3> QED BY <1>1, <3>1, <3>2, <3>3, SendKeeps DEF PublicationInv
  <2>2. CASE OtherSends
    <3>1. PICK deletion \in {FALSE, cast.deletes} : Send(Foreign(deletion), FALSE)
      BY <2>2 DEF OtherSends
    <3>2. Sender("other") /\ Foreign(deletion).from = "other"
      BY <2>2 DEF OtherSends, Sender, Foreign
    <3> QED BY <1>1, <3>1, <3>2, SendKeeps DEF PublicationInv
  <2>3. ASSUME air' \subseteq air PROVE AirMeans'
    BY <1>1, <2>3, AirStays DEF PublicationInv
  <2>4. \/ \E b \in PublishedBanks, lost \in BOOLEAN : Announce(b, lost) \/ Delete(b, lost)
        \/ OtherSends
        \/ air' \subseteq air
    BY DEF publicationVars, PublicationNext, StartPublisher, Publisher, OpenPublisher, Wake,
           StopPublisher, Kill, ListenerFails, ListenerOpens, Retry, Turn, Quiet,
           ReceiveFails, Receive, Arrives, Restart, Tick
  <2> QED BY <2>1, <2>2, <2>3, <2>4, Zenon
<1>5. TableMeans' /\ LeavesRightly
  <2>1. CASE \E d \in air : Receive(d)
    BY <2>1, ReceiveKeeps
  <2>2. CASE Quiet \/ ReceiveFails
    BY <1>1, <2>2, ExpiringKeeps DEF Quiet, ReceiveFails
  <2>3. CASE Restart
    BY <2>3, RestartKeeps
  <2>4. CASE Tick
    BY <2>4, TickKeeps
  <2>5. CASE table' = table
    BY <1>1, <2>5, UntouchedKeeps
  <2> QED
    BY <2>1, <2>2, <2>3, <2>4, <2>5
    DEF publicationVars, PublicationNext, StartPublisher, Publisher, OpenPublisher, Wake, Announce,
        Delete, StopPublisher, Kill, OtherSends, ListenerFails, ListenerOpens, Retry, Turn
<1> QED BY <1>2, <1>3, <1>4, <1>5 DEF PublicationInv

LEMMA PublicationInvariant == PublicationSpec => []PublicationInv
  BY PublicationStarts, PublicationSteps, PTL DEF PublicationSpec

\* A session leaves the table of a listener only by a deletion of its own sender,
\* by its age, with the listener itself, or as one of the oldest of a full table,
\* for a session that is new there.  However datagrams are lost, delayed and
\* overtaken, and although the hashes of two senders are the same, nothing else
\* takes its place: for any number of slots (LiveEngine.cpp:371-405,
\* SessionDirectory.cpp:68-122).
THEOREM SessionsLeftByRight == PublicationSpec => LeftByRight
  BY PublicationInvariant, PublicationSteps, PTL DEF PublicationSpec, LeftByRight

\* Nothing is left unsaid in the engine's own layout.
LEMMA AllIsSaid == ASSUME NEW s, IsSession(s), NEW r, r = AsSaid(s, Generate(s)) PROVE r = s
<1> DEFINE lines == Generate(s)
<1>1. Described(lines) = s
  BY DescriptionReturns
<1>2. /\ Where(lines, "s") # {} /\ Where(lines, "o") # {} /\ Where(lines, "c") # {}
      /\ Where(lines, "m") # {} /\ Where(lines, "rtpmap") # {} /\ Where(lines, "ptime") # {}
      /\ Where(lines, "framecount") # {} /\ Where(lines, "refclk") # {}
  BY WhereGenerated, Zenon
<1>3. Where(lines, "filter") = {} => s.source = Defaults.source
  <2>1. ASSUME Where(lines, "filter") = {}
        PROVE  Given(lines, "filter", [n \in 1 .. 5 |-> Defaults.source])[5] = Defaults.source
    BY <2>1 DEF Given
  <2>2. Described(lines).source = Given(lines, "filter", [n \in 1 .. 5 |-> Defaults.source])[5]
    BY DEF Described
  <2> QED BY <1>1, <2>1, <2>2
<1> HIDE DEF lines
<1>4. DOMAIN LineFor = SessionFields
  BY SessionFieldsAre DEF LineFor
<1>5. ASSUME NEW field \in SessionFields PROVE r[field] = s[field]
  <2>1. r[field] = IF Where(lines, LineFor[field]) = {} THEN Defaults[field] ELSE s[field]
    BY <1>4 DEF AsSaid, lines
  <2>2. CASE field = "source"
    BY <1>3, <2>1, <2>2 DEF LineFor
  <2>3. CASE field # "source"
    <3>1. LineFor[field] \in {"s", "o", "c", "m", "rtpmap", "ptime", "framecount", "refclk"}
      BY <2>3, SessionFieldsAre DEF LineFor
    <3>2. Where(lines, LineFor[field]) # {}
      BY <1>2, <3>1
    <3> QED BY <2>1, <3>2
  <2> QED BY <2>2, <2>3
<1>6. r = [field \in SessionFields |-> r[field]]
  BY <1>4 DEF AsSaid
<1>7. [field \in SessionFields |-> r[field]] = [field \in SessionFields |-> s[field]]
  BY <1>5
<1> QED BY <1>6, <1>7, Zenon DEF IsSession

\* What a table lists is what its sender described, with nothing left to defaults,
\* and fits the engine's profile, for every sender that lays out its description
\* as generate() does: the publisher itself, and all of the other senders but
\* those of Layouts (SDP.cpp:30-97, :99-128, SAP.cpp:31-50, LiveEngine.cpp:386-399).
THEOREM OwnLayoutListedAsSent == PublicationSpec /\ OwnLayout => []ListedAsSent
<1>1. ASSUME OwnLayout, [PublicationNext]_publicationVars PROVE OwnLayout'
  <2>1. cast' = cast
    BY <1>1 DEF pubVars, subVars, publicationVars, PublicationNext, StartPublisher, Publisher,
           OpenPublisher, Wake, Announce, Delete, StopPublisher, Kill, OtherSends, ListenerFails,
           ListenerOpens, Retry, Turn, Quiet, ReceiveFails, Receive, Restart, Tick
  <2> QED BY <1>1, <2>1 DEF OwnLayout
<1>2. ASSUME OwnLayout, PublicationInv PROVE ListedAsSent
  <2> SUFFICES ASSUME NEW k \in DOMAIN table, NEW d, NEW said,
                      d = [from |-> table[k].from, bank |-> table[k].bank, deletion |-> FALSE],
                      said = AsSaid(Meant(table[k]), WireOf(d).lines)
               PROVE  table[k].session = said /\ Supported(said)
    BY Zenon DEF ListedAsSent
  <2> DEFINE s == table[k].session
  <2>1. s = Meant(table[k]) /\ IsSession(s) /\ Supported(s) /\ Sender(table[k].from) /\ CastMeans
    BY <1>2, Zenon DEF PublicationInv, TableMeans, Entry
  <2>2. d.from = table[k].from /\ d.bank = table[k].bank
    OBVIOUS
  <2>3. Meant(d) = Meant(table[k])
    BY <2>2 DEF Meant
  <2>4. WireOf(d).lines = Generate(Meant(d))
    BY <1>2, <2>1, <2>2, OwnLines
  <2> HIDE DEF s
  <2>5. said = s
    BY <2>1, <2>3, <2>4, AllIsSaid
  <2> QED BY <2>1, <2>5 DEF s
<1> QED BY <1>1, <1>2, PublicationInvariant, PTL DEF PublicationSpec
=============================================================================
