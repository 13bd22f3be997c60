----------------------- MODULE EngineControllerProofs -----------------------
(***************************************************************************)
(* For any number of engine processes, configurations and status calls,    *)
(* and wherever the application is killed: EngineController keeps track of *)
(* every engine it has started until it has ended, a start that fails and  *)
(* a stop that succeeds leave none behind, and a start that succeeds has   *)
(* started the engine it was asked for.                                    *)
(*                                                                         *)
(* An engine is reached only through `child` and the local of stop() it is *)
(* moved to, and both are overwritten.  The invariant says at which points *)
(* of a command they are known to be empty (Phases).  What a status call    *)
(* shows is not the engine but a flag and a lock: that success means the   *)
(* engine follows from who may hold the lock.                              *)
(*                                                                         *)
(* The configurations follow (BridgeConfiguration): the engine accepts what *)
(* the validation of the application lets through, stays within its rings  *)
(* with it, and serves the flows that the application lists.               *)
(***************************************************************************)
EXTENDS EngineController, BridgeConfiguration, TLAPS

\* What holds at each point of a command: where the child is, that a closed
\* application has none, and what the last result says about it.
Phases ==
    /\ pc = "wait" => held \in Processes /\ child = None
    /\ pc # "wait" => held = None
    /\ pc = "spawn" => child = None
    /\ pc = "poll" => child \in Processes /\ launched[child] = argument /\ ~term[child]
    /\ ~open => pc = "idle" /\ child = None /\ ours = {}
    /\ result # "none" => pc = "idle"
    /\ result \in {"failed", "stopped"} => child = None

\* The inductive invariant.
IInv == TypeOK /\ Phases /\ NoEngineForgotten

\* No engine was started and no command is being handled.
LEMMA InitInv == Init => IInv
  <1> SUFFICES ASSUME Init PROVE IInv
    OBVIOUS
  <1>1. TypeOK
    <2>1. \A p \in Engines : proc[p] = "dead" /\ term[p] = FALSE /\ launched[p] = None
      BY DEF Init
    <2>2. /\ proc \in [Engines -> {"dead", "starting", "locked", "active", "running", "stopping",
                                 "leaving"}]
          /\ term \in [Engines -> BOOLEAN] /\ launched \in [Engines -> Configurations \cup {None}]
      BY <2>1 DEF Init
    <2>3. polls \in 0 .. MaxPolls
      BY ControllerAssumption DEF Init, ControllerAssumption
    <2> QED
      BY <2>2, <2>3 DEF Init, TypeOK
  <1>2. Phases /\ NoEngineForgotten
    BY DEF Init, Phases, NoEngineForgotten
  <1> QED
    BY <1>1, <1>2 DEF IInv

----------------------------------------------------------------------------
(* The engines go on by themselves.                                        *)

\* No engine comes to life in a step of an engine.
LEMMA EngineStepInv ==
  ASSUME NEW p \in Engines, IInv, EngineStep(p)
  PROVE  IInv'
  <1> DEFINE States == {"dead", "starting", "locked", "active", "running", "stopping", "leaving"}
  <1>1. /\ UNCHANGED <<open, commandVars, child, held, launched, probing, ours, result, lost>>
        /\ term' = term /\ proc' \in [Engines -> States] /\ engineRunning' \in BOOLEAN
        /\ \A q \in Engines : proc[q] = "dead" => proc'[q] = "dead"
    <2>1. Progress(p) \/ Crash(p)
      BY DEF EngineStep
    <2>2. ASSUME NEW s \in States, Becomes(p, s), proc[p] # "dead"
          PROVE  /\ term' = term /\ proc' \in [Engines -> States]
                 /\ \A q \in Engines : proc[q] = "dead" => proc'[q] = "dead"
      BY <2>2 DEF Becomes, IInv, TypeOK
    <2>3. \E s \in States : Becomes(p, s) /\ proc[p] # "dead"
      BY <2>1 DEF Progress, Own, Refuse, Activate, EndStart, BeginStop, Deactivate, EndStop, Crash, Owns
    <2>4. engineRunning' \in BOOLEAN
      BY <2>1 DEF Progress, Own, Refuse, Activate, EndStart, BeginStop, Deactivate, EndStop, Crash,
                  IInv, TypeOK
    <2> QED
      BY <2>2, <2>3, <2>4 DEF EngineStep
  <1>2. TypeOK'
    BY <1>1 DEF IInv, TypeOK, commandVars
  <1>3. Phases'
    BY <1>1 DEF IInv, Phases, commandVars
  <1>4. NoEngineForgotten'
    BY <1>1 DEF IInv, TypeOK, NoEngineForgotten, Alive, Engines
  <1> QED
    BY <1>2, <1>3, <1>4 DEF IInv

\* Another launcher's engine is not one of this application's.
LEMMA RivalStepInv == IInv /\ RivalStep => IInv'
  <1> SUFFICES ASSUME IInv, RivalStep PROVE IInv'
    OBVIOUS
  <1> DEFINE States == {"dead", "starting", "locked", "active", "running", "stopping", "leaving"}
  <1>1. /\ UNCHANGED <<open, commandVars, child, held, launched, engineRunning, ours, result, lost>>
        /\ term' \in [Engines -> BOOLEAN] /\ probing' \in BOOLEAN
        /\ proc' \in [Engines -> States]
        /\ \A q \in Engines \ {Rival} : proc'[q] = proc[q] /\ term'[q] = term[q]
    BY DEF RivalStep, IInv, TypeOK, Engines
  <1>2. TypeOK'
    BY <1>1 DEF IInv, TypeOK, commandVars
  <1>3. Phases'
    BY <1>1, ControllerAssumption DEF IInv, Phases, commandVars, Engines, ControllerAssumption
  <1>4. NoEngineForgotten'
    BY <1>1, ControllerAssumption
       DEF IInv, TypeOK, NoEngineForgotten, Alive, Engines, ControllerAssumption
  <1> QED
    BY <1>2, <1>3, <1>4 DEF IInv

----------------------------------------------------------------------------
(* The application.                                                        *)

\* A command begins with the child of the last one, or none.
LEMMA InvokeInv == IInv /\ Invoke => IInv'
  <1> SUFFICES ASSUME IInv, Invoke PROVE IInv'
    OBVIOUS
  <1>1. TypeOK'
    BY DEF IInv, TypeOK, Invoke, engineVars
  <1>2. Phases'
    BY DEF IInv, Phases, Invoke, engineVars
  <1>3. NoEngineForgotten'
    BY DEF IInv, NoEngineForgotten, Alive, Invoke, engineVars
  <1> QED
    BY <1>1, <1>2, <1>3 DEF IInv

\* start(): the slot is emptied only of a child that has ended or is recorded
\* as lost, and filled only when it is empty.
LEMMA StartInv ==
  ASSUME IInv, StartStatus \/ StartSlot \/ Spawn \/ SpawnFails \/ Poll
  PROVE  IInv'
  <1> USE DEF Return
  <1>1. CASE StartStatus \/ SpawnFails \/ Poll
    <2>1. /\ UNCHANGED <<open, child, held, engineVars, ours, lost>>
          /\ pc # "wait" /\ pc' # "wait" /\ pc' # "spawn" /\ pc # "idle"
          /\ pc' = "poll" => pc = "poll" /\ argument' = argument
      BY <1>1 DEF StartStatus, SpawnFails, Poll
    <2>2. TypeOK'
      <3>1. polls' \in 0 .. MaxPolls
        <4>1. polls' = polls \/ polls' = 0 \/ (polls < MaxPolls /\ polls' = polls + 1)
          BY <1>1 DEF StartStatus, SpawnFails, Poll
        <4>2. polls \in 0 .. MaxPolls
          BY DEF IInv, TypeOK
        <4> QED
          BY <4>1, <4>2, ControllerAssumption DEF ControllerAssumption
      <3>2. argument' \in Configurations \cup {None}
        BY <1>1 DEF IInv, TypeOK, StartStatus, SpawnFails, Poll
      <3>3. /\ pc' \in {"idle", "slot", "poll", "take"}
            /\ command' \in {command, "none", "giveUp"}
            /\ result' \in {result, "started", "refused"}
        BY <1>1 DEF StartStatus, SpawnFails, Poll
      <3> QED
        BY <2>1, <3>1, <3>2, <3>3 DEF IInv, TypeOK, engineVars
    <2>3. Phases'
      BY <1>1, <2>1 DEF IInv, Phases, engineVars, StartStatus, SpawnFails, Poll
    <2>4. NoEngineForgotten'
      BY <2>1 DEF IInv, NoEngineForgotten, Alive, engineVars
    <2> QED
      BY <2>2, <2>3, <2>4 DEF IInv
  <1>2. CASE StartSlot
    <2>1. TypeOK'
      BY <1>2, ControllerAssumption DEF IInv, TypeOK, engineVars, StartSlot, ControllerAssumption
    <2>2. Phases'
      BY <1>2 DEF IInv, Phases, engineVars, StartSlot
    <2>3. NoEngineForgotten'
      BY <1>2 DEF IInv, TypeOK, NoEngineForgotten, Alive, Living, engineVars, StartSlot
    <2> QED
      BY <2>1, <2>2, <2>3 DEF IInv
  <1>3. CASE Spawn
    <2>1. PICK p \in Processes :
             /\ ~Alive(p)
             /\ proc' = [proc EXCEPT ![p] = "starting"] /\ term' = [term EXCEPT ![p] = FALSE]
             /\ launched' = [launched EXCEPT ![p] = argument]
             /\ ours' = ours \cup {p} /\ lost' = lost \ {p}
             /\ child' = p
      BY <1>3 DEF Spawn
    <2>2. TypeOK'
      BY <1>3, <2>1 DEF IInv, TypeOK, Engines, Spawn
    <2>3. Phases'
      BY <1>3, <2>1 DEF IInv, TypeOK, Phases, Engines, Spawn
    <2>4. NoEngineForgotten'
      BY <1>3, <2>1 DEF IInv, TypeOK, Phases, NoEngineForgotten, Alive, Engines, Spawn
    <2> QED
      BY <2>2, <2>3, <2>4 DEF IInv
  <1> QED
    BY <1>1, <1>2, <1>3

\* What a stop() leaves behind, whatever it was called for.
LEMMA AfterStopMeans ==
  ASSUME IInv, NEW ok \in BOOLEAN, AfterStop(ok), pc \in {"take", "wait"}
  PROVE  /\ open' \in BOOLEAN /\ pc' \in {"idle", "status"}
         /\ command' \in {"none", "start"}
         /\ argument' \in Configurations \cup {None} /\ polls' \in 0 .. MaxPolls
         /\ ours' = ours \/ ours' = {}
         /\ ~open' => pc' = "idle" /\ ours' = {}
         /\ result' \in {"none", "refused", "failed", "stopped", "exited"}
         /\ result' # "none" => pc' = "idle"
  <1>1. open /\ result = "none" /\ 0 \in 0 .. MaxPolls
    BY ControllerAssumption DEF IInv, TypeOK, Phases, ControllerAssumption
  <1>2. CASE command = "restart" /\ ok
    BY <1>1, <1>2 DEF AfterStop, IInv, TypeOK
  <1>3. CASE command = "exit"
    BY <1>1, <1>3 DEF AfterStop, Return
  <1>4. CASE command = "giveUp"
    BY <1>1, <1>4 DEF AfterStop, Return
  <1>5. CASE ~(command = "restart" /\ ok) /\ command # "exit" /\ command # "giveUp"
    <2>1. Return(IF ok THEN "stopped" ELSE "refused") /\ UNCHANGED <<open, ours>>
      BY <1>5 DEF AfterStop
    <2> QED
      BY <1>1, <2>1 DEF Return
  <1> QED
    BY <1>2, <1>3, <1>4, <1>5

\* stop() takes the child out of the slot and does not let go of it while it
\* lives, unless it cannot be waited for.
LEMMA StopInv ==
  ASSUME IInv, StopNothing \/ StopTerm \/ StopEnded \/ StopWaitFails \/ StopDeadline
  PROVE  IInv'
  <1> DEFINE States == {"dead", "starting", "locked", "active", "running", "stopping", "leaving"}
  <1>1. CASE StopTerm
    <2>1. child \in Processes /\ held = None /\ child \in Engines /\ open /\ result = "none"
      BY <1>1 DEF StopTerm, IInv, TypeOK, Phases, Engines
    <2>2. /\ held' = child /\ child' = None /\ pc' = "wait"
          /\ UNCHANGED <<open, command, argument, polls, launched, engineRunning, probing, ours,
                         result, lost>>
          /\ term' \in [Engines -> BOOLEAN]
          /\ proc' \in [Engines -> States]
          /\ \A q \in Engines : proc[q] = "dead" => proc'[q] = "dead"
      BY <1>1, <2>1 DEF StopTerm, Becomes, IInv, TypeOK
    <2>3. TypeOK'
      BY <2>1, <2>2 DEF IInv, TypeOK
    <2>4. Phases'
      BY <2>1, <2>2 DEF Phases
    <2>5. NoEngineForgotten'
      BY <2>1, <2>2 DEF IInv, TypeOK, NoEngineForgotten, Alive, Engines
    <2> QED
      BY <2>3, <2>4, <2>5 DEF IInv
  <1>2. CASE StopNothing \/ StopEnded \/ StopWaitFails \/ StopDeadline
    <2>1. \E ok \in BOOLEAN : AfterStop(ok)
      <3>1. ASSUME NEW running \in StatusAnswers PROVE running \in BOOLEAN
        BY <3>1 DEF StatusAnswers, OwnerActive, IInv, TypeOK
      <3> QED
        BY <1>2, <3>1, Zenon DEF StopNothing, StopEnded, StopWaitFails, StopDeadline
    <2>2. pc \in {"take", "wait"}
      BY <1>2 DEF StopNothing, StopEnded, StopWaitFails, StopDeadline
    <2>3. PICK ok \in BOOLEAN : AfterStop(ok)
      BY <2>1
    <2>4. /\ open' \in BOOLEAN /\ pc' \in {"idle", "status"}
          /\ command' \in {"none", "start"}
          /\ argument' \in Configurations \cup {None} /\ polls' \in 0 .. MaxPolls
          /\ ours' = ours \/ ours' = {}
          /\ ~open' => pc' = "idle" /\ ours' = {}
          /\ result' \in {"none", "refused", "failed", "stopped", "exited"}
          /\ result' # "none" => pc' = "idle"
      BY <2>2, <2>3, AfterStopMeans
    <2>5. child = None /\ child' = None /\ held' = None /\ UNCHANGED <<term, launched, engineRunning, probing>>
      BY <1>2 DEF StopNothing, StopEnded, StopWaitFails, StopDeadline, engineVars, IInv, Phases
    <2>6. /\ proc' \in [Engines -> States]
          /\ lost' \subseteq Processes /\ lost \subseteq lost'
          /\ \A q \in Engines : proc[q] = "dead" => proc'[q] = "dead"
          /\ held # None => proc'[held] = "dead" \/ held \in lost'
      BY <1>2 DEF StopNothing, StopEnded, StopWaitFails, StopDeadline, engineVars, IInv, TypeOK,
                  Phases, Engines, Alive
    <2>7. TypeOK'
      BY <2>4, <2>5, <2>6 DEF IInv, TypeOK
    <2>8. Phases'
      BY <2>4, <2>5 DEF Phases
    <2>9. NoEngineForgotten'
      BY <2>4, <2>5, <2>6, ControllerAssumption
         DEF IInv, TypeOK, NoEngineForgotten, Alive, Engines, ControllerAssumption
    <2> QED
      BY <2>7, <2>8, <2>9 DEF IInv
  <1> QED
    BY <1>1, <1>2

\* The application's death leaves no engine it has to know of.
LEMMA KilledInv == IInv /\ (Killed \/ Relaunched) => IInv'
  <1> SUFFICES ASSUME IInv, Killed \/ Relaunched PROVE IInv'
    OBVIOUS
  <1>1. TypeOK'
    <2>1. 0 \in 0 .. MaxPolls
      BY ControllerAssumption DEF ControllerAssumption
    <2>2. CASE Killed
      BY <2>1, <2>2 DEF IInv, TypeOK, Killed, Return, engineVars
    <2>3. CASE Relaunched
      BY <2>3 DEF IInv, TypeOK, Relaunched, engineVars, commandVars
    <2> QED
      BY <2>2, <2>3
  <1>2. Phases'
    BY DEF IInv, Phases, Killed, Relaunched, Return, engineVars, commandVars
  <1>3. NoEngineForgotten'
    BY DEF IInv, Phases, NoEngineForgotten, Killed, Relaunched
  <1> QED
    BY <1>1, <1>2, <1>3 DEF IInv

\* Every step preserves the invariant.
LEMMA NextInv == IInv /\ [Next]_vars => IInv'
  <1> SUFFICES ASSUME IInv, [Next]_vars PROVE IInv'
    OBVIOUS
  <1>1. CASE UNCHANGED vars
    BY <1>1 DEF vars, commandVars, engineVars, IInv, TypeOK, Phases, NoEngineForgotten, Alive
  <1>2. CASE Next
    BY <1>2, InvokeInv, StartInv, StopInv, KilledInv, RivalStepInv, EngineStepInv
       DEF Next, Command
  <1> QED
    BY <1>1, <1>2

\* The invariant holds in every reachable state.
LEMMA AlwaysInv == Spec => []IInv
  BY InitInv, NextInv, PTL DEF Spec

----------------------------------------------------------------------------
(* The theorems.                                                           *)

\* EngineController's variables keep their types; start() never makes more
\* than MaxPolls status calls.
THEOREM ControllerTypeCorrect == Spec => []TypeOK
  <1>1. IInv => TypeOK
    BY DEF IInv
  <1> QED
    BY <1>1, AlwaysInv, PTL

\* Every engine the application has started and that lives is in the slot, with
\* a stop() in progress, or was lost when try_wait failed on it.
THEOREM EveryEngineTracked == Spec => []NoEngineForgotten
  <1>1. IInv => NoEngineForgotten
    BY DEF IInv
  <1> QED
    BY <1>1, AlwaysInv, PTL

\* A start that failed, and a stop that succeeded, leave no engine of this
\* application behind but one that was lost, and none comes back as long as no
\* further command is given.
THEOREM FailedStartCleansUp == Spec => []NothingLeftBehind
  <1>1. IInv => NothingLeftBehind
    BY ControllerAssumption
       DEF IInv, TypeOK, Phases, NoEngineForgotten, NothingLeftBehind, ControllerAssumption
  <1> QED
    BY <1>1, AlwaysInv, PTL

\* A start() that returns success has started an engine that holds the shared
\* memory, with the configuration it was given, whatever flag a crash has left
\* there, unless an engine it does not know of is alive or another status call
\* has the lock.  The flag may be stale, but the lock is held by somebody who
\* lives, and that can only be the child.
THEOREM SuccessIsOurEngine == Spec => StartedIsOurs
  <1> DEFINE Known == ~probing /\ \A p \in Engines : Alive(p) => p \in ours \ lost
  <1> DEFINE Started == result' = "started" /\ result # "started"
  <1>1. ASSUME IInv, [Next]_vars, Started, Known
        PROVE  child # None /\ Owns(child) /\ ~term[child] /\ launched[child] = argument
    <2>1. Poll /\ TRUE \in StatusAnswers
      <3>1. CASE UNCHANGED vars
        BY <1>1, <3>1 DEF vars
      <3>2. CASE StopNothing \/ StopEnded \/ StopWaitFails \/ StopDeadline
        <4>1. \E ok \in BOOLEAN : AfterStop(ok)
          <5>1. ASSUME NEW running \in StatusAnswers PROVE running \in BOOLEAN
            BY <1>1, <5>1 DEF StatusAnswers, OwnerActive, IInv, TypeOK
          <5> QED
            BY <3>2, <5>1, Zenon DEF StopNothing, StopEnded, StopWaitFails, StopDeadline
        <4>2. pc \in {"take", "wait"}
          BY <3>2 DEF StopNothing, StopEnded, StopWaitFails, StopDeadline
        <4> QED
          BY <1>1, <4>1, <4>2, AfterStopMeans
      <3>3. CASE Invoke \/ StartStatus \/ StartSlot \/ Spawn \/ SpawnFails \/ StopTerm \/ Killed
                 \/ Relaunched \/ RivalStep \/ \E p \in Engines : EngineStep(p)
        BY <1>1, <3>3 DEF Invoke, StartStatus, StartSlot, Spawn, SpawnFails, StopTerm, Killed,
                          Relaunched, RivalStep, EngineStep, Return
      <3>4. CASE Poll
        BY <1>1, <3>4 DEF Poll, Return
      <3> QED
        BY <1>1, <3>1, <3>2, <3>3, <3>4 DEF Next, Command
    <2>2. PICK p \in Engines : Owns(p)
      BY <1>1, <2>1 DEF StatusAnswers, OwnerActive
    <2>3. p \in ours \ lost /\ p \in {child, held} \cup lost /\ p \in Processes
      BY <1>1, <2>2 DEF IInv, TypeOK, NoEngineForgotten, Alive, Owns
    <2>4. held = None /\ launched[child] = argument /\ ~term[child]
      BY <1>1, <2>1 DEF IInv, Phases, Poll
    <2> QED
      BY <2>2, <2>3, <2>4, ControllerAssumption DEF ControllerAssumption
  <1>2. IInv /\ [Next]_vars
          => [Started /\ Known
                => child # None /\ Owns(child) /\ ~term[child] /\ launched[child] = argument]_vars
    BY <1>1
  <1> QED
    BY <1>2, AlwaysInv, PTL DEF Spec, StartedIsOurs

----------------------------------------------------------------------------
(* The command line (BridgeConfiguration): the channels and the ports of   *)
(* the banks, for any number of channels, banks and ports.                 *)

\* Products that the banks' channels and ports are made of.
LEMMA Multiples ==
  ASSUME NEW c \in Nat, NEW a \in Nat, NEW b \in Nat, a <= b
  PROVE  a * c \in Nat /\ b * c \in Nat /\ a * c <= b * c /\ c * a \in Nat /\ c * a <= c * b
  OBVIOUS

LEMMA NextMultiple ==
  ASSUME NEW c \in Nat, NEW a \in Nat
  PROVE  (a + 1) * c = a * c + c
  OBVIOUS

\* A port that does not pass the last one does not wrap around.
LEMMA PortFits ==
  ASSUME NEW base \in Nat, NEW stride \in Nat, NEW last \in Nat, NEW bank \in Nat, bank <= last,
         PortMax \in Nat, stride * last <= PortMax - base
  PROVE  bankPort(base, stride, bank) = base + stride * bank /\ stride * bank \in Nat
  <1>1. stride * bank \in Nat /\ stride * last \in Nat /\ stride * bank <= stride * last
    BY Multiples
  <1>2. PICK p \in Nat, q \in Nat : p = stride * bank /\ q = stride * last
    BY <1>1
  <1>3. base + p <= PortMax
    BY <1>1, <1>2
  <1>4. (base + p) % (PortMax + 1) = base + p
    BY <1>3
  <1> QED
    BY <1>1, <1>2, <1>4 DEF bankPort

\* What an engine that accepts its command line knows of it.
LEMMA AcceptedNumbers ==
  ASSUME NEW o, Accepts(o)
  PROVE  /\ o.streams \in Nat /\ o.streams >= 1 /\ o.channels \in Nat /\ o.start \in Nat /\ o.start >= 1
         /\ o.start - 1 + o.streams * o.channels <= VirtualChannels
         /\ o.rxPort \in Nat /\ o.txPort \in Nat /\ o.stride \in Nat
         /\ o.stride * (o.streams - 1) <= PortMax - o.rxPort
         /\ o.stride * (o.streams - 1) <= PortMax - o.txPort
         /\ VirtualChannels \in Nat /\ PortMax \in Nat
  <1>1. VirtualChannels \in Nat /\ PortMax \in Nat /\ BankCount \in Nat /\ ChannelCounts \subseteq Nat
    BY ConfigurationAssumption DEF ConfigurationAssumption
  <1>2. Parsed(o)
    BY DEF Accepts
  <1>3. o.streams \in 1 .. BankCount /\ o.channels \in ChannelCounts /\ o.start \in 1 .. VirtualChannels
    BY <1>2 DEF Parsed
  <1>4. {o.rxPort, o.txPort, o.stride} \subseteq 0 .. PortMax
    BY <1>2 DEF Parsed
  <1>5. o.rxPort \in Nat /\ o.txPort \in Nat /\ o.stride \in Nat
    BY <1>1, <1>4
  <1>6. o.start - 1 + o.streams * o.channels <= VirtualChannels
    BY <1>2 DEF Parsed
  <1>7. /\ o.stride * (o.streams - 1) <= PortMax - o.rxPort
        /\ o.stride * (o.streams - 1) <= PortMax - o.txPort
    BY DEF Accepts
  <1>8. o.streams \in Nat /\ o.streams >= 1 /\ o.start \in Nat /\ o.start >= 1
    BY <1>1, <1>3
  <1>9. o.channels \in Nat
    BY <1>1, <1>3
  <1> QED
    BY <1>1, <1>5, <1>6, <1>7, <1>8, <1>9, Zenon

\* The channels of a bank lie behind those of the banks before, and exist.
LEMMA ChannelsFit ==
  ASSUME NEW o, Accepts(o), NEW b \in 0 .. o.streams - 1
  PROVE  /\ bankChannels(o, b) \subseteq 0 .. VirtualChannels - 1
         /\ \A a \in 0 .. b - 1 : bankChannels(o, a) \cap bankChannels(o, b) = {}
  <1>1. PICK n \in Nat, c \in Nat, s \in Nat :
           /\ n = o.streams /\ c = o.channels /\ s = o.start - 1
           /\ s + n * c <= VirtualChannels
    BY AcceptedNumbers
  <1>2. VirtualChannels \in Nat /\ b \in Nat /\ b + 1 <= n
    BY <1>1, AcceptedNumbers
  <1>3. bankChannels(o, b) = {s + b * c + ch : ch \in 0 .. c - 1}
    BY <1>1 DEF bankChannels
  <1>4. bankChannels(o, b) \subseteq 0 .. VirtualChannels - 1
    <2> SUFFICES ASSUME NEW ch \in 0 .. c - 1
                 PROVE  s + b * c + ch \in 0 .. VirtualChannels - 1
      BY <1>3
    <2>1. (b + 1) * c = b * c + c /\ (b + 1) * c <= n * c /\ b * c \in Nat /\ n * c \in Nat
      BY <1>1, <1>2, Multiples, NextMultiple, SMTT(30)
    <2>2. PICK here \in Nat, all \in Nat : here = b * c /\ all = n * c
      BY <2>1
    <2>3. here + c <= all /\ s + all <= VirtualChannels
      BY <1>1, <2>1, <2>2
    <2> QED
      BY <1>1, <1>2, <2>2, <2>3
  <1>5. ASSUME NEW a \in 0 .. b - 1 PROVE bankChannels(o, a) \cap bankChannels(o, b) = {}
    <2>1. bankChannels(o, a) = {s + a * c + ch : ch \in 0 .. c - 1}
      BY <1>1 DEF bankChannels
    <2> SUFFICES ASSUME NEW ch \in 0 .. c - 1, NEW other \in 0 .. c - 1
                 PROVE  s + a * c + ch # s + b * c + other
      BY <1>3, <2>1
    <2>2. a \in Nat /\ a + 1 <= b
      BY <1>2
    <2>3. (a + 1) * c = a * c + c /\ (a + 1) * c <= b * c /\ a * c \in Nat /\ b * c \in Nat
      <3>1. PICK after \in Nat : after = a + 1 /\ after <= b
        BY <2>2
      <3>2. after * c <= b * c /\ b * c \in Nat
        BY <1>2, <3>1, Multiples
      <3> QED
        BY <2>2, <3>1, <3>2, NextMultiple
    <2>4. PICK before \in Nat, here \in Nat : before = a * c /\ here = b * c
      BY <2>3
    <2>5. before + c <= here
      BY <2>3, <2>4
    <2> QED
      BY <1>1, <2>4, <2>5
  <1> QED
    BY <1>4, <1>5

\* Whatever command line an engine is started with, by the application or by
\* hand: if it starts, the channels of its banks exist and none is used twice,
\* and no port has wrapped around (EngineMain.cpp, LiveEngine::start,
\* bankPort).
THEOREM LaunchedStaysInBounds == EditorSpec => []EngineStaysInBounds
  <1>1. EngineStaysInBounds
    <2> SUFFICES ASSUME Accepts(options), NEW b \in 0 .. options.streams - 1
                 PROVE  /\ bankChannels(options, b) \subseteq 0 .. VirtualChannels - 1
                        /\ \A a \in 0 .. b - 1 : bankChannels(options, a) \cap bankChannels(options, b) = {}
                        /\ bankPort(options.rxPort, options.stride, b) >= options.rxPort
                        /\ bankPort(options.txPort, options.stride, b) >= options.txPort
      BY DEF EngineStaysInBounds
    <2>1. /\ options.streams \in Nat /\ options.stride \in Nat /\ PortMax \in Nat
          /\ options.rxPort \in Nat /\ options.txPort \in Nat
          /\ options.stride * (options.streams - 1) <= PortMax - options.rxPort
          /\ options.stride * (options.streams - 1) <= PortMax - options.txPort
      BY AcceptedNumbers
    <2>2. /\ bankPort(options.rxPort, options.stride, b) = options.rxPort + options.stride * b
          /\ bankPort(options.txPort, options.stride, b) = options.txPort + options.stride * b
          /\ options.stride * b \in Nat
      <3>1. PICK last \in Nat, stride \in Nat, rx \in Nat, tx \in Nat :
              /\ last = options.streams - 1 /\ b <= last /\ b \in Nat
              /\ stride = options.stride /\ rx = options.rxPort /\ tx = options.txPort
        BY <2>1
      <3>2. stride * last <= PortMax - rx /\ stride * last <= PortMax - tx
        BY <2>1, <3>1
      <3>3. PICK bank \in Nat : bank = b
        BY <3>1
      <3>4. bank <= last /\ PortMax \in Nat
        BY <2>1, <3>1, <3>3
      <3>5. bankPort(rx, stride, bank) = rx + stride * bank /\ stride * bank \in Nat
        BY <3>2, <3>4, PortFits
      <3>6. bankPort(tx, stride, bank) = tx + stride * bank
        BY <3>2, <3>4, PortFits
      <3> QED
        BY <3>1, <3>3, <3>5, <3>6
    <2> QED
      BY <2>1, <2>2, ChannelsFit
  <1> QED
    BY <1>1, PTL

----------------------------------------------------------------------------
(* From flows to banks: what arguments_for() lets through.                 *)

FlowNumbers(f) ==
    /\ f.address \in 1 .. AddressMax /\ f.port \in Nat
    /\ f.start \in Nat \ {0} /\ f.channels \in Nat

\* What sorting does: s holds what t holds, in places 1, 2, and so on.
Arranged(s, t) == Len(s) \in Nat /\ DOMAIN s = 1 .. Len(s) /\ Range(s) = Range(t)

\* The port of a bank is that of its flow.
LEMMA PortOfFlow ==
  ASSUME NEW flows, NEW n \in Nat, Len(flows) = n, DOMAIN flows = 1 .. n,
         \A i \in 1 .. n : FlowNumbers(flows[i]), PortsFollow(flows),
         NEW stride \in Nat, stride = port_stride(flows), PortMax \in Nat,
         stride * (n - 1) <= PortMax - flows[1].port, NEW bank \in 0 .. n - 1
  PROVE  bankPort(flows[1].port, stride, bank) = flows[bank + 1].port
  <1>1. bank + 1 \in 1 .. n /\ 1 \in 1 .. n /\ bank \in Nat
    OBVIOUS
  <1>2. PICK base \in Nat : base = flows[1].port
    BY <1>1 DEF FlowNumbers
  <1>3. bankPort(base, stride, bank) = base + stride * bank /\ stride * bank \in Nat
    <2>1. PICK last \in Nat : last = n - 1 /\ bank <= last
      BY <1>1
    <2>2. stride * last <= PortMax - base
      BY <1>2, <2>1
    <2>3. PICK b \in Nat : b = bank /\ b <= last
      BY <1>1, <2>1
    <2>4. /\ base \in Nat /\ stride \in Nat /\ last \in Nat /\ b \in Nat
          /\ b <= last /\ PortMax \in Nat
      BY <2>3
    <2>5. bankPort(base, stride, b) = base + stride * b /\ stride * b \in Nat
      BY ONLY <2>2, <2>4, PortFits
    <2> QED
      BY <2>3, <2>5
  <1>4. CASE n = 1
    <2>1. bank = 0
      BY <1>4
    <2> QED
      BY <1>2, <1>3, <2>1
  <1>5. CASE n > 1
    <2>1. flows[bank + 1].port = Saturated(base + Saturated(stride * ((bank + 1) - 1)))
      BY <1>1, <1>2, <1>5 DEF PortsFollow
    <2>2. (bank + 1) - 1 = bank
      BY <1>1
    <2>3. PICK last \in Nat : last = n - 1 /\ bank <= last
      BY <1>1, <1>5
    <2>4. stride * bank <= stride * last /\ stride * last \in Nat
      BY <1>1, <2>3, Multiples
    <2>5. stride * last <= PortMax - base
      BY <1>2, <2>3
    <2>6. PICK p \in Nat, q \in Nat : p = stride * bank /\ q = stride * last
      BY <1>3, <2>4
    <2>7. p <= PortMax /\ base + p <= PortMax
      <3>1. p <= q /\ q <= PortMax - base
        BY <2>4, <2>5, <2>6
      <3> QED
        BY <3>1
    <2>8. Saturated(p) = p /\ Saturated(base + p) = base + p
      BY <2>7 DEF Saturated
    <2> QED
      BY <1>2, <1>3, <2>1, <2>2, <2>6, <2>8
  <1> QED
    BY <1>1, <1>4, <1>5

\* The address of a bank is that of its flow: bankAddress() does not count on
\* from a loopback address, of which there is then one.
LEMMA AddressOfFlow ==
  ASSUME NEW flows, NEW n \in Nat, DOMAIN flows = 1 .. n, \A i \in 1 .. n : FlowNumbers(flows[i]),
         validate_banks(flows), AddressMax \in Nat,
         flows[1].address \in Multicast \/ n = 1, NEW bank \in 0 .. n - 1
  PROVE  bankAddress(flows[1].address, bank) = flows[bank + 1].address
  <1>1. bank + 1 \in 1 .. n /\ 1 \in 1 .. n /\ bank \in Nat /\ (bank + 1) - 1 = bank
    OBVIOUS
  <1>2. flows[1].address \in Nat /\ flows[bank + 1].address \in 1 .. AddressMax
    BY <1>1 DEF FlowNumbers
  <1>3. flows[bank + 1].address = flows[1].address + bank
    BY <1>1 DEF validate_banks
  <1>4. CASE n = 1
    BY <1>1, <1>2, <1>3, <1>4 DEF bankAddress
  <1>5. CASE flows[1].address \in Multicast
    <2>1. ~(bank > AddressMax - flows[1].address)
      BY <1>1, <1>2, <1>3
    <2> QED
      BY <1>3, <1>5, <2>1 DEF bankAddress
  <1> QED
    BY <1>4, <1>5

\* The channels of a bank are those of its flow, counted from 0.
LEMMA ChannelsOfFlow ==
  ASSUME NEW flows, NEW n \in Nat, DOMAIN flows = 1 .. n, \A i \in 1 .. n : FlowNumbers(flows[i]),
         validate_banks(flows), NEW o, o.start = flows[1].start, o.channels = flows[1].channels,
         NEW bank \in 0 .. n - 1
  PROVE  LET f == flows[bank + 1] IN
         bankChannels(o, bank) = {m - 1 : m \in f.start .. LastChannel(f)}
  <1>1. bank + 1 \in 1 .. n /\ 1 \in 1 .. n /\ bank \in Nat /\ (bank + 1) - 1 = bank
    OBVIOUS
  <1>2. PICK s \in Nat, c \in Nat : s = flows[1].start /\ c = flows[1].channels
    BY <1>1 DEF FlowNumbers
  <1>3. flows[bank + 1].start = s + bank * c /\ flows[bank + 1].channels = c
    BY <1>1, <1>2 DEF validate_banks
  <1>4. PICK k \in Nat : k = bank * c
    BY <1>1
  <1>5. bankChannels(o, bank) = {s - 1 + k + ch : ch \in 0 .. c - 1}
    BY <1>2, <1>4 DEF bankChannels
  <1>6. flows[bank + 1].start .. LastChannel(flows[bank + 1]) = s + k .. s + k + c - 1
    BY <1>3, <1>4 DEF LastChannel
  <1>7. {s - 1 + k + ch : ch \in 0 .. c - 1} \subseteq {m - 1 : m \in s + k .. s + k + c - 1}
    <2> SUFFICES ASSUME NEW ch \in 0 .. c - 1
                 PROVE  \E m \in s + k .. s + k + c - 1 : s - 1 + k + ch = m - 1
      OBVIOUS
    <2>1. s + k + ch \in s + k .. s + k + c - 1 /\ s - 1 + k + ch = (s + k + ch) - 1
      OBVIOUS
    <2> QED
      BY <2>1
  <1>8. {m - 1 : m \in s + k .. s + k + c - 1} \subseteq {s - 1 + k + ch : ch \in 0 .. c - 1}
    <2> SUFFICES ASSUME NEW m \in s + k .. s + k + c - 1
                 PROVE  \E ch \in 0 .. c - 1 : m - 1 = s - 1 + k + ch
      OBVIOUS
    <2>1. m - (s + k) \in 0 .. c - 1 /\ m - 1 = s - 1 + k + (m - (s + k))
      OBVIOUS
    <2> QED
      BY <2>1
  <1> QED
    BY <1>5, <1>6, <1>7, <1>8

\* A bank as its flow describes it.
Described(f) ==
    [address |-> f.address, port |-> f.port, payload |-> f.payload,
     channels |-> {m - 1 : m \in f.start .. LastChannel(f)}]

AllDescribed(flows) == {Described(flows[i]) : i \in DOMAIN flows}

\* The banks of a direction, as the engine makes them of the first flow.
BanksOf(flows, o) ==
    {[address |-> bankAddress(flows[1].address, bank),
      port |-> bankPort(flows[1].port, o.stride, bank),
      payload |-> flows[1].payload,
      channels |-> bankChannels(o, bank)] : bank \in 0 .. Len(flows) - 1}

\* Banks and flows of one direction.
LEMMA BanksAreFlows ==
  ASSUME NEW flows, NEW n \in Nat, n >= 1, Len(flows) = n, DOMAIN flows = 1 .. n,
         \A i \in 1 .. n : FlowNumbers(flows[i]),
         validate_banks(flows), PortsFollow(flows),
         NEW o, o.start = flows[1].start, o.channels = flows[1].channels, o.stride \in Nat,
         o.stride = port_stride(flows), AddressMax \in Nat, PortMax \in Nat,
         o.stride * (n - 1) <= PortMax - flows[1].port,
         flows[1].address \in Multicast \/ n = 1
  PROVE  BanksOf(flows, o) = AllDescribed(flows)
  <1> DEFINE Bank(bank) == [address |-> bankAddress(flows[1].address, bank),
                            port |-> bankPort(flows[1].port, o.stride, bank),
                            payload |-> flows[1].payload,
                            channels |-> bankChannels(o, bank)]
  <1>1. ASSUME NEW bank \in 0 .. n - 1 PROVE Bank(bank) = Described(flows[bank + 1])
    <2>1. bankAddress(flows[1].address, bank) = flows[bank + 1].address
      BY AddressOfFlow
    <2>2. bankPort(flows[1].port, o.stride, bank) = flows[bank + 1].port
      BY PortOfFlow
    <2>3. bankChannels(o, bank)
            = {m - 1 : m \in flows[bank + 1].start .. LastChannel(flows[bank + 1])}
      BY ChannelsOfFlow, SMTT(30)
    <2>4. flows[bank + 1].payload = flows[1].payload
      BY DEF validate_banks
    <2> QED
      BY <2>1, <2>2, <2>3, <2>4 DEF Described
  <1> HIDE DEF Bank
  <1>2. ASSUME NEW i \in 1 .. n PROVE i - 1 \in 0 .. n - 1 /\ (i - 1) + 1 = i
    OBVIOUS
  <1>3. {Bank(bank) : bank \in 0 .. n - 1} \subseteq {Described(flows[i]) : i \in 1 .. n}
    <2>1. \A bank \in 0 .. n - 1 : bank + 1 \in 1 .. n
      OBVIOUS
    <2> QED
      BY <1>1, <2>1
  <1>4. {Described(flows[i]) : i \in 1 .. n} \subseteq {Bank(bank) : bank \in 0 .. n - 1}
    <2> SUFFICES ASSUME NEW i \in 1 .. n PROVE \E bank \in 0 .. n - 1 : Described(flows[i]) = Bank(bank)
      OBVIOUS
    <2>1. Bank(i - 1) = Described(flows[(i - 1) + 1])
      BY <1>1, <1>2
    <2> QED
      BY <1>2, <2>1
  <1> QED
    BY <1>3, <1>4 DEF Bank, BanksOf, AllDescribed

LEMMA WantedAreFlows ==
  ASSUME NEW c, NEW d, NEW flows, Arranged(flows, FlowsOf(c, d))
  PROVE  Wanted(c, d) = AllDescribed(flows)
  <1> DEFINE all == FlowsOf(c, d)
  <1>1. Wanted(c, d) = {Described(all[i]) : i \in DOMAIN all}
    BY DEF Wanted, Described
  <1>2. {flows[i] : i \in DOMAIN flows} = {all[i] : i \in DOMAIN all}
    BY DEF Arranged, Range
  <1> HIDE DEF all
  <1>3. /\ \A i \in DOMAIN flows : \E j \in DOMAIN all : flows[i] = all[j]
        /\ \A j \in DOMAIN all : \E i \in DOMAIN flows : all[j] = flows[i]
    BY <1>2
  <1>4. {Described(all[i]) : i \in DOMAIN all} = {Described(flows[i]) : i \in DOMAIN flows}
    BY <1>3
  <1> QED
    BY <1>1, <1>3, <1>4 DEF all, AllDescribed

\* The banks of an engine whose command line was made of c.
LEMMA SupportedServesFlows ==
  ASSUME NEW c, Supported(c), Accepts(arguments_for(c)), NEW d \in Directions,
         \A e \in Directions : Arranged(Banks(c, e), FlowsOf(c, e)),
         \A i \in DOMAIN Banks(c, d) : FlowNumbers(Banks(c, d)[i])
  PROVE  LET o == arguments_for(c) IN
         \/ Served(o, d) = Wanted(c, d)
         \/ o.streams > 1 /\ (IF d = "receive" THEN o.rx ELSE o.tx) \notin Multicast
  <1> DEFINE o == arguments_for(c)
             flows == Banks(c, d)
             n == Len(flows)
             receive == Banks(c, "receive")
             transmit == Banks(c, "transmit")
  <1>1. /\ receive # <<>> /\ Len(receive) = Len(transmit)
        /\ validate_banks(receive) /\ validate_banks(transmit)
        /\ receive[1].channels = transmit[1].channels /\ receive[1].start = transmit[1].start
        /\ PortsFollow(receive) /\ PortsFollow(transmit)
        /\ port_stride(receive) = port_stride(transmit)
    BY DEF Supported
  <1>2. /\ o.streams = Len(receive) /\ o.channels = receive[1].channels /\ o.start = receive[1].start
        /\ o.rx = receive[1].address /\ o.tx = transmit[1].address
        /\ o.rxPort = receive[1].port /\ o.txPort = transmit[1].port
        /\ o.stride = port_stride(receive)
        /\ o.rxPayload = receive[1].payload /\ o.txPayload = transmit[1].payload
    BY DEF arguments_for
  <1>3. /\ o.streams >= 1 /\ o.streams \in Nat /\ o.stride \in Nat
        /\ o.stride * (o.streams - 1) <= PortMax - o.rxPort
        /\ o.stride * (o.streams - 1) <= PortMax - o.txPort /\ PortMax \in Nat
    BY AcceptedNumbers
  <1>4. AddressMax \in Nat
    BY ConfigurationAssumption DEF ConfigurationAssumption
  <1> HIDE DEF o, flows, receive, transmit
  <1>5. CASE o.streams > 1 /\ (IF d = "receive" THEN o.rx ELSE o.tx) \notin Multicast
    BY <1>5 DEF o
  <1>6. ASSUME o.streams = 1 \/ (IF d = "receive" THEN o.rx ELSE o.tx) \in Multicast
        PROVE  Served(o, d) = Wanted(c, d)
    <2>1. CASE d = "receive"
      <3>1. flows = receive
        BY <2>1 DEF flows, receive
      <3>2. Arranged(flows, FlowsOf(c, d))
        BY DEF flows
      <3>3. Wanted(c, d) = AllDescribed(flows)
        BY <3>2, WantedAreFlows
      <3>4. n = o.streams /\ DOMAIN flows = 1 .. n
        BY <1>2, <3>1, <3>2 DEF Arranged
      <3>5. /\ o.start = flows[1].start /\ o.channels = flows[1].channels
            /\ o.rx = flows[1].address /\ o.rxPort = flows[1].port /\ o.rxPayload = flows[1].payload
            /\ o.stride = port_stride(flows) /\ validate_banks(flows) /\ PortsFollow(flows)
        BY <1>1, <1>2, <3>1
      <3>6. flows[1].address \in Multicast \/ n = 1
        BY <1>6, <2>1, <3>4, <3>5
      <3>7. Served(o, d) = BanksOf(flows, o)
        BY <2>1, <3>4, <3>5 DEF Served, BanksOf
      <3>8. o.stride * (n - 1) <= PortMax - flows[1].port /\ n \in Nat /\ n >= 1
        BY <1>3, <3>4, <3>5
      <3> HIDE DEF n
      <3>9. Len(flows) = n
        BY DEF n
      <3>10. \A i \in 1 .. n : FlowNumbers(flows[i])
        BY <3>4 DEF flows
      <3>11. BanksOf(flows, o) = AllDescribed(flows)
        BY <1>3, <1>4, <3>4, <3>5, <3>6, <3>8, <3>9, <3>10, BanksAreFlows, SMTT(40)
      <3> QED
        BY <3>3, <3>7, <3>11
    <2>2. CASE d = "transmit"
      <3>1. flows = transmit
        BY <2>2 DEF flows, transmit
      <3>2. Arranged(flows, FlowsOf(c, d))
        BY DEF flows
      <3>3. Wanted(c, d) = AllDescribed(flows)
        BY <3>2, WantedAreFlows
      <3>4. n = o.streams /\ DOMAIN flows = 1 .. n
        BY <1>1, <1>2, <3>1, <3>2 DEF Arranged
      <3>5. /\ o.start = flows[1].start /\ o.channels = flows[1].channels
            /\ o.tx = flows[1].address /\ o.txPort = flows[1].port /\ o.txPayload = flows[1].payload
            /\ o.stride = port_stride(flows) /\ validate_banks(flows) /\ PortsFollow(flows)
        BY <1>1, <1>2, <3>1
      <3>6. flows[1].address \in Multicast \/ n = 1
        BY <1>6, <2>2, <3>4, <3>5
      <3>7. Served(o, d) = BanksOf(flows, o)
        BY <2>2, <3>4, <3>5 DEF Served, BanksOf
      <3>8. o.stride * (n - 1) <= PortMax - flows[1].port /\ n \in Nat /\ n >= 1
        BY <1>3, <3>4, <3>5
      <3> HIDE DEF n
      <3>9. Len(flows) = n
        BY DEF n
      <3>10. \A i \in 1 .. n : FlowNumbers(flows[i])
        BY <3>4 DEF flows
      <3>11. BanksOf(flows, o) = AllDescribed(flows)
        BY <1>3, <1>4, <3>4, <3>5, <3>6, <3>8, <3>9, <3>10, BanksAreFlows, SMTT(40)
      <3> QED
        BY <3>3, <3>7, <3>11
    <2> QED
      BY <2>1, <2>2 DEF Directions
  <1> QED
    BY <1>3, <1>5, <1>6 DEF o

----------------------------------------------------------------------------
(* The editor: once an engine is launched nothing is edited any more.      *)

LaunchedFrom ==
    launcher = "app" /\ options # Unset =>
        Supported(configuration) /\ options = arguments_for(configuration)

LEMMA AlwaysLaunchedFrom == EditorSpec => []LaunchedFrom
  <1>1. EditorInit => LaunchedFrom
    BY DEF EditorInit, LaunchedFrom
  <1>2. LaunchedFrom /\ [EditorNext]_editorVars => LaunchedFrom'
    <2> SUFFICES ASSUME LaunchedFrom, [EditorNext]_editorVars PROVE LaunchedFrom'
      OBVIOUS
    <2>1. CASE Editable /\ (ChooseProfile \/ ChooseInterface \/ Rename \/ EditFlow
                            \/ DeleteFlow \/ AddFlow \/ ImportSession)
      <3>1. options = Unset
        BY <2>1 DEF Editable
      <3>2. options' = options
        BY <2>1 DEF ChooseProfile, ChooseInterface, Rename, EditFlow, DeleteFlow, AddFlow,
                    ImportSession, Edit
      <3> QED
        BY <3>1, <3>2 DEF LaunchedFrom
    <2>2. CASE Save \/ Reload
      BY <2>2 DEF Save, Reload, LaunchedFrom
    <2>3. CASE Launch
      BY <2>3 DEF Launch, LaunchedFrom
    <2>4. CASE TerminalLaunch
      BY <2>4 DEF TerminalLaunch, LaunchedFrom
    <2>5. CASE UNCHANGED editorVars
      BY <2>5 DEF editorVars, LaunchedFrom
    <2> QED
      BY <2>1, <2>2, <2>3, <2>4, <2>5 DEF EditorNext
  <1> QED
    BY <1>1, <1>2, PTL DEF EditorSpec

\* The flows that banks are made of have passed validate().
LEMMA BankFlowsValid ==
  ASSUME FlowsListed, launcher = "app", Supported(configuration), NEW d \in Directions
  PROVE  /\ Arranged(Banks(configuration, d), FlowsOf(configuration, d))
         /\ Banks(configuration, d) \in Seq(Range(configuration.flows))
         /\ \A i \in DOMAIN Banks(configuration, d) :
               LET f == Banks(configuration, d)[i]
               IN  FlowFits(f) /\ FlowValid(configuration, f) /\ FlowNumbers(f)
  <1> DEFINE all == Range(configuration.flows)
             banks == Banks(configuration, d)
             enabled == Enabled(configuration.flows)
  <1>1. validate(configuration)
    BY DEF Supported
  <1>2. /\ \A f \in all : FlowFits(f)
        /\ Range(enabled) = {f \in all : f.enabled}
        /\ banks \in Seq(all)
        /\ Range(banks) = {f \in all : f.enabled /\ f.direction = d}
        /\ Range(banks) = Range(FlowsOf(configuration, d))
    BY <1>1 DEF FlowsListed
  <1>3. \A i \in DOMAIN enabled : FlowValid(configuration, enabled[i])
    BY <1>1 DEF validate
  <1> HIDE DEF all, banks, enabled
  <1>4. \A f \in Range(enabled) : FlowValid(configuration, f)
    BY <1>3 DEF Range
  <1>5. ASSUME NEW i \in DOMAIN banks
        PROVE  FlowFits(banks[i]) /\ FlowValid(configuration, banks[i]) /\ FlowNumbers(banks[i])
    <2>1. banks[i] \in Range(banks)
      BY DEF Range
    <2>2. FlowFits(banks[i]) /\ FlowValid(configuration, banks[i])
      BY <1>2, <1>4, <2>1
    <2>3. banks[i].address \in Multicast \cup Loopback
      BY <2>2 DEF FlowValid
    <2>4. banks[i].address \in 1 .. AddressMax /\ PortMax \in Nat
      BY <2>3, ConfigurationAssumption DEF ConfigurationAssumption
    <2>5. banks[i].start # 0
      BY <2>2 DEF FlowValid, Routed
    <2> QED
      BY <2>2, <2>4, <2>5 DEF FlowFits, FlowNumbers
  <1>6. Len(banks) \in Nat /\ DOMAIN banks = 1 .. Len(banks)
    BY <1>2
  <1>7. Arranged(banks, FlowsOf(configuration, d))
    BY <1>2, <1>6 DEF Arranged
  <1> QED
    BY <1>2, <1>5, <1>7 DEF all, banks

\* The engine's checks of a direction follow from those of the application.
LEMMA DirectionParses ==
  ASSUME NEW c, NEW flows, NEW n \in Nat, n >= 1, DOMAIN flows = 1 .. n,
         \A i \in 1 .. n : FlowFits(flows[i]) /\ FlowValid(c, flows[i]) /\ FlowNumbers(flows[i]),
         validate_banks(flows)
  PROVE  /\ flows[1].port \in 0 .. PortMax /\ flows[1].payload \in 0 .. PayloadMax
         /\ flows[1].channels \in ChannelCounts /\ flows[1].jitter \in JitterPackets
         /\ flows[1].start \in 1 .. VirtualChannels
         /\ flows[1].start - 1 + n * flows[1].channels <= VirtualChannels
         /\ bankAddress(flows[1].address, n - 1) # 0
  <1> DEFINE first == flows[1]
             last == flows[n]
  <1>1. VirtualChannels \in Nat /\ AddressMax \in Nat /\ PayloadMax \in Nat /\ ChannelCounts \subseteq Nat \ {0}
    BY ConfigurationAssumption DEF ConfigurationAssumption
  <1>2. /\ FlowFits(first) /\ FlowValid(c, first) /\ FlowNumbers(first)
        /\ FlowValid(c, last) /\ FlowNumbers(last)
    OBVIOUS
  <1>3. first.channels \in ChannelCounts /\ first.jitter \in JitterPackets /\ first.payload <= PayloadMax
    BY <1>2 DEF FlowValid
  <1>4. first.port \in 0 .. PortMax /\ first.payload \in Nat
    BY <1>2 DEF FlowFits
  <1>5. PICK s \in Nat, k \in Nat : s = first.start /\ k = first.channels /\ s >= 1 /\ k >= 1
    <2>1. first.start \in Nat \ {0} /\ first.channels \in Nat \ {0}
      BY <1>1, <1>2, <1>3 DEF FlowNumbers
    <2> QED
      BY <2>1
  <1>6. last.start = s + (n - 1) * k /\ last.channels = k
    BY <1>5 DEF validate_banks
  <1>7. PICK m \in Nat : m = n - 1
    OBVIOUS
  <1>8. (m + 1) * k = m * k + k /\ m * k \in Nat
    BY <1>7, NextMultiple
  <1>9. s + m * k + k - 1 <= VirtualChannels
    BY <1>2, <1>6, <1>7 DEF FlowValid, Routed, LastChannel
  <1>10. PICK p \in Nat : p = m * k
    BY <1>8
  <1>11. n * k = p + k
    BY <1>7, <1>8, <1>10
  <1>12. s \in 1 .. VirtualChannels /\ s - 1 + n * k <= VirtualChannels
    <2>1. s + p + k - 1 <= VirtualChannels
      BY <1>9, <1>10
    <2>2. s - 1 + (p + k) <= VirtualChannels /\ s \in 1 .. VirtualChannels
      <3>1. PICK v \in Nat : v = VirtualChannels
        BY <1>1
      <3>2. s + p + k - 1 <= v /\ s >= 1 /\ k >= 1
        BY <1>5, <2>1, <3>1
      <3>3. s - 1 + (p + k) <= v /\ s \in 1 .. v
        BY <3>2
      <3> QED
        BY <3>1, <3>3
    <2> QED
      BY <1>11, <2>2
  <1>13. bankAddress(first.address, n - 1) # 0
    <2>1. first.address \in 1 .. AddressMax /\ last.address \in 1 .. AddressMax
      BY <1>2 DEF FlowNumbers
    <2>2. CASE first.address \in Multicast
      <3>1. n - 1 \in 0 .. n - 1 /\ (n - 1) + 1 = n
        OBVIOUS
      <3>2. bankAddress(first.address, n - 1) = last.address
        BY <1>1, <2>2, <3>1, AddressOfFlow
      <3> QED
        BY <1>1, <2>1, <3>2
    <2>3. CASE first.address \notin Multicast
      BY <1>1, <2>1, <2>3 DEF bankAddress
    <2> QED
      BY <2>2, <2>3
  <1> QED
    <2>1. first.payload \in 0 .. PayloadMax
      BY <1>1, <1>3, <1>4
    <2>2. first.start \in 1 .. VirtualChannels /\ first.start - 1 + n * first.channels <= VirtualChannels
      BY <1>5, <1>12
    <2> QED
      BY <1>3, <1>4, <1>13, <2>1, <2>2

\* The step of the port is one a port can have.
LEMMA StrideParses ==
  ASSUME NEW flows, NEW n \in Nat, n >= 1, DOMAIN flows = 1 .. n, Len(flows) = n,
         \A i \in 1 .. n : FlowFits(flows[i]), PortsFollow(flows)
  PROVE  port_stride(flows) \in 0 .. PortMax
  <1>0. PortMax \in Nat
    BY ConfigurationAssumption DEF ConfigurationAssumption
  <1>1. CASE n = 1
    BY <1>0, <1>1 DEF port_stride
  <1>2. CASE n > 1
    <2>1. flows[1].port \in 0 .. PortMax /\ flows[2].port \in 0 .. PortMax
      BY <1>2 DEF FlowFits
    <2>2. port_stride(flows) = flows[2].port - flows[1].port /\ port_stride(flows) >= 0
      BY <1>2 DEF port_stride, PortsFollow
    <2> QED
      BY <1>0, <2>1, <2>2
  <1> QED
    BY <1>1, <1>2

\* From what the application checked to what the engine checks.
LEMMA SupportedAccepted ==
  ASSUME FlowsListed, launcher = "app", Supported(configuration),
         NEW o, o = arguments_for(configuration)
  PROVE  \/ Accepts(o)
         \/ o.stride * (o.streams - 1) > PortMax - o.rxPort
         \/ o.stride * (o.streams - 1) > PortMax - o.txPort
  <1> DEFINE receive == Banks(configuration, "receive")
             transmit == Banks(configuration, "transmit")
  <1>1. /\ receive # <<>> /\ Len(receive) = Len(transmit) /\ Len(receive) <= BankCount
        /\ validate_banks(receive) /\ validate_banks(transmit)
        /\ receive[1].channels = transmit[1].channels /\ receive[1].start = transmit[1].start
        /\ PortsFollow(receive) /\ configuration.interface # Unset
    BY DEF Supported
  <1>2. /\ o.interface = configuration.interface /\ o.streams = Len(receive)
        /\ o.channels = receive[1].channels /\ o.start = receive[1].start
        /\ o.rx = receive[1].address /\ o.tx = transmit[1].address
        /\ o.rxPort = receive[1].port /\ o.txPort = transmit[1].port
        /\ o.stride = port_stride(receive)
        /\ o.rxPayload = receive[1].payload /\ o.txPayload = transmit[1].payload
        /\ o.jitter = receive[1].jitter
    BY DEF arguments_for
  <1>3. /\ receive \in Seq(Range(configuration.flows)) /\ transmit \in Seq(Range(configuration.flows))
        /\ \A i \in DOMAIN receive : FlowFits(receive[i]) /\ FlowValid(configuration, receive[i])
                                     /\ FlowNumbers(receive[i])
        /\ \A i \in DOMAIN transmit : FlowFits(transmit[i]) /\ FlowValid(configuration, transmit[i])
                                      /\ FlowNumbers(transmit[i])
    BY BankFlowsValid DEF Directions
  <1> HIDE DEF receive, transmit
  <1>4. PICK n \in Nat : n = Len(receive)
    BY <1>3
  <1>5. /\ n >= 1 /\ DOMAIN receive = 1 .. n /\ DOMAIN transmit = 1 .. n
        /\ Len(receive) = n /\ Len(transmit) = n
    BY <1>1, <1>3, <1>4
  <1>6. /\ receive[1].port \in 0 .. PortMax /\ receive[1].payload \in 0 .. PayloadMax
        /\ receive[1].channels \in ChannelCounts /\ receive[1].jitter \in JitterPackets
        /\ receive[1].start \in 1 .. VirtualChannels
        /\ receive[1].start - 1 + n * receive[1].channels <= VirtualChannels
        /\ bankAddress(receive[1].address, n - 1) # 0
    BY <1>1, <1>3, <1>5, DirectionParses
  <1>7. /\ transmit[1].port \in 0 .. PortMax /\ transmit[1].payload \in 0 .. PayloadMax
        /\ bankAddress(transmit[1].address, n - 1) # 0
    BY <1>1, <1>3, <1>5, DirectionParses
  <1>8. port_stride(receive) \in 0 .. PortMax
    BY <1>1, <1>3, <1>5, StrideParses
  <1>9. PortMax \in Nat /\ BankCount \in Nat
    BY ConfigurationAssumption DEF ConfigurationAssumption
  <1>10. n \in 1 .. BankCount
    BY <1>1, <1>4, <1>5, <1>9
  <1>11. Parsed(o)
    BY <1>1, <1>2, <1>4, <1>6, <1>7, <1>8, <1>10 DEF Parsed
  <1>12. /\ o.stride * (o.streams - 1) \in Int
         /\ PortMax - o.rxPort \in Int /\ PortMax - o.txPort \in Int
    BY <1>2, <1>4, <1>6, <1>7, <1>8, <1>9, SMTT(30)
  <1>13. bankAddress(o.rx, o.streams - 1) # 0 /\ bankAddress(o.tx, o.streams - 1) # 0
    BY <1>2, <1>4, <1>6, <1>7
  <1> QED
    BY <1>11, <1>12, <1>13 DEF Accepts

\* Whatever was edited, saved, reloaded and launched: a command line that the
\* application made of a configuration it supports is not refused by the
\* engine, ports that saturate apart; for any number of channels, banks and
\* ports, taking from the sort and the filters only what FlowsListed says of
\* them (engine.rs: arguments_for, validate_banks; EngineMain.cpp;
\* LiveEngine::start).
THEOREM LaunchIsAccepted == EditorSpec /\ []FlowsListed => []SupportedIsAccepted
  <1>1. LaunchedFrom /\ FlowsListed => SupportedIsAccepted
    BY SupportedAccepted DEF LaunchedFrom, SupportedIsAccepted
  <1> QED
    BY <1>1, AlwaysLaunchedFrom, PTL

\* The banks of an engine that the application launched are the enabled flows,
\* each at its own address, port, payload type and channels, but for several
\* banks on loopback addresses, which all fall on the first; for any number of
\* channels, banks and ports (arguments_for, port_stride, bankAddress,
\* bankPort, consumeLoop, transmitLoop).
THEOREM LaunchServesFlows == EditorSpec /\ []FlowsListed => []BanksServeFlows
  <1>1. ASSUME LaunchedFrom, FlowsListed, launcher = "app", options # Unset, Accepts(options),
               NEW d \in Directions
        PROVE  \/ Served(options, d) = Wanted(configuration, d)
               \/ options.streams > 1 /\ (IF d = "receive" THEN options.rx ELSE options.tx) \notin Multicast
    <2>1. Supported(configuration) /\ options = arguments_for(configuration)
      BY <1>1 DEF LaunchedFrom
    <2>2. /\ \A e \in Directions : Arranged(Banks(configuration, e), FlowsOf(configuration, e))
          /\ \A i \in DOMAIN Banks(configuration, d) : FlowNumbers(Banks(configuration, d)[i])
      BY <1>1, <2>1, BankFlowsValid
    <2> QED
      BY <1>1, <2>1, <2>2, SupportedServesFlows
  <1>2. LaunchedFrom /\ FlowsListed => BanksServeFlows
    BY <1>1 DEF BanksServeFlows
  <1> QED
    BY <1>2, AlwaysLaunchedFrom, PTL
=============================================================================
