----------------------- MODULE EngineOwnershipProofs -----------------------
(***************************************************************************)
(* For any number of engines, status calls and clients, whatever the file  *)
(* is at first and whoever is killed when: the lock is held exactly by the *)
(* process that is between its flock and its close, and nobody works on a  *)
(* block that is not valid.                                                *)
(*                                                                         *)
(* OwnerHoldsLock is inductive given the types.  MappedIsValid is not: an  *)
(* owner that skipped ftruncate relies on a size it saw before it had the  *)
(* lock, so the invariant also says that such a size is never unmade       *)
(* (SizeSeen), and what each stage of open(true) has established           *)
(* (StageReached).                                                         *)
(***************************************************************************)
EXTENDS EngineOwnership, TLAPS

\* A size seen by fstat is still the size of the file.
SizeSeen == \A p \in Processes : existing[p] => size = "full"

\* After ftruncate, or a size that made it unnecessary, the file is long
\* enough; after the construction of the header, or a header that made it
\* unnecessary, the header is valid.
StageReached ==
    \A p \in Processes :
        /\ pc[p] \in {"map", "header", "fill", "owner", "running", "stopped"} => size = "full"
        /\ pc[p] \in {"fill", "owner", "running", "stopped"} => valid

\* The inductive invariant.
IInv == TypeOK /\ OwnerHoldsLock /\ SizeSeen /\ StageReached /\ MappedIsValid

\* The invariant holds at first.
LEMMA InitInv == Init => IInv
  <1> SUFFICES ASSUME Init PROVE IInv
    OBVIOUS
  <1>1. TypeOK
    <2>1. size \in {"none", "other", "full"} /\ valid \in BOOLEAN
      BY DEF Init
    <2>2. /\ lock \in Processes \cup {Nobody}
          /\ pc \in [Processes -> Labels] /\ existing \in [Processes -> BOOLEAN]
      BY DEF Init, Labels
    <2>3. /\ engineRunning \in BOOLEAN /\ rxActive \in BOOLEAN
          /\ ioRunning \in BOOLEAN /\ queued \in BOOLEAN
          /\ receiving \in [Engines -> BOOLEAN]
          /\ report \in [Probes -> [running : BOOLEAN, rx : BOOLEAN]]
      BY DEF Init, NoReport
    <2>4. clients \in 0 .. MaxClients
      BY ClientsAssumption, SMT DEF Init, ClientsAssumption
    <2>5. bridge \in BOOLEAN
      BY Zenon DEF Init
    <2> QED
      BY <2>1, <2>2, <2>3, <2>4, <2>5 DEF TypeOK
  <1>2. OwnerHoldsLock
    BY ProcessAssumption DEF ProcessAssumption, Init, OwnerHoldsLock, Owning
  <1>3. SizeSeen /\ StageReached
    BY DEF Init, SizeSeen, StageReached
  <1>4. MappedIsValid
    BY DEF Init, MappedIsValid, Processes
  <1> QED
    BY <1>1, <1>2, <1>3, <1>4 DEF IInv

\* Each system call and store of open(true) keeps the invariant.
LEMMA OpenInv ==
  ASSUME IInv, NEW p \in Processes, OpenAsOwner(p)
  PROVE  IInv'
  <1> USE ProcessAssumption DEF ProcessAssumption, IInv, Goto, fileVars, blockVars, driverVars
  <1>1. CASE CreateFile(p)
    <2>1. TypeOK' BY <1>1 DEF TypeOK, CreateFile, Labels
    <2>2. OwnerHoldsLock' BY <1>1 DEF TypeOK, CreateFile, OwnerHoldsLock, Owning
    <2>3. SizeSeen' /\ StageReached' BY <1>1 DEF TypeOK, CreateFile, SizeSeen, StageReached
    <2>4. MappedIsValid' BY <1>1 DEF TypeOK, CreateFile, MappedIsValid, PeerCanMap, Processes
    <2> QED BY <2>1, <2>2, <2>3, <2>4
  <1>2. CASE Stat(p)
    <2>1. TypeOK' BY <1>2 DEF TypeOK, Stat, Labels
    <2>2. OwnerHoldsLock' BY <1>2 DEF TypeOK, Stat, OwnerHoldsLock, Owning
    <2>3. SizeSeen' /\ StageReached' BY <1>2 DEF TypeOK, Stat, SizeSeen, StageReached
    <2>4. MappedIsValid' BY <1>2 DEF TypeOK, Stat, MappedIsValid, PeerCanMap, Processes
    <2> QED BY <2>1, <2>2, <2>3, <2>4
  <1>3. CASE TakeLock(p)
    <2>1. TypeOK' BY <1>3 DEF TypeOK, TakeLock, Labels
    <2>2. OwnerHoldsLock' BY <1>3 DEF TypeOK, TakeLock, OwnerHoldsLock, Owning
    <2>3. SizeSeen' /\ StageReached' BY <1>3 DEF TypeOK, TakeLock, SizeSeen, StageReached
    <2>4. MappedIsValid' BY <1>3 DEF TypeOK, TakeLock, MappedIsValid, PeerCanMap, Processes
    <2> QED BY <2>1, <2>2, <2>3, <2>4
  <1>4. CASE Truncate(p)
    <2>1. TypeOK' BY <1>4 DEF TypeOK, Truncate, Labels
    <2>2. OwnerHoldsLock' BY <1>4 DEF TypeOK, Truncate, OwnerHoldsLock, Owning
    <2>3. SizeSeen' /\ StageReached' BY <1>4 DEF TypeOK, Truncate, SizeSeen, StageReached
    <2>4. MappedIsValid' BY <1>4 DEF TypeOK, Truncate, MappedIsValid, PeerCanMap, Processes
    <2> QED BY <2>1, <2>2, <2>3, <2>4
  <1>5. CASE Map(p)
    <2>1. TypeOK' BY <1>5 DEF TypeOK, Map, Labels
    <2>2. OwnerHoldsLock' BY <1>5 DEF TypeOK, Map, OwnerHoldsLock, Owning
    <2>3. SizeSeen' /\ StageReached' BY <1>5 DEF TypeOK, Map, SizeSeen, StageReached
    <2>4. MappedIsValid' BY <1>5 DEF TypeOK, Map, MappedIsValid, PeerCanMap, Processes, StageReached
    <2> QED BY <2>1, <2>2, <2>3, <2>4
  <1>6. CASE ConstructHeader(p)
    <2>1. TypeOK' BY <1>6 DEF TypeOK, ConstructHeader, Labels
    <2>2. OwnerHoldsLock' BY <1>6 DEF TypeOK, ConstructHeader, OwnerHoldsLock, Owning
    <2>3. SizeSeen' /\ StageReached' BY <1>6 DEF TypeOK, ConstructHeader, SizeSeen, StageReached
    <2>4. MappedIsValid' BY <1>6 DEF TypeOK, ConstructHeader, MappedIsValid, PeerCanMap, Processes
    <2> QED BY <2>1, <2>2, <2>3, <2>4
  <1>7. CASE ConstructRest(p)
    <2>1. TypeOK' BY <1>7 DEF TypeOK, ConstructRest, Labels
    <2>2. OwnerHoldsLock' BY <1>7 DEF TypeOK, ConstructRest, OwnerHoldsLock, Owning
    <2>3. SizeSeen' /\ StageReached' BY <1>7 DEF TypeOK, ConstructRest, SizeSeen, StageReached
    <2>4. MappedIsValid'
      BY <1>7 DEF TypeOK, ConstructRest, MappedIsValid, PeerCanMap, Processes, StageReached
    <2> QED BY <2>1, <2>2, <2>3, <2>4
  <1> QED
    BY <1>1, <1>2, <1>3, <1>4, <1>5, <1>6, <1>7 DEF OpenAsOwner

\* Every step of an engine keeps the invariant, its death at any point included.
LEMMA EngineInv ==
  ASSUME IInv, NEW e \in Engines, EngineStep(e)
  PROVE  IInv'
  <1> USE ProcessAssumption DEF ProcessAssumption, IInv, Goto, fileVars, blockVars, driverVars
  <1>1. CASE Launch(e)
    <2>1. TypeOK' BY <1>1 DEF TypeOK, Launch, Labels
    <2>2. OwnerHoldsLock'
      BY <1>1 DEF TypeOK, Launch, OwnerHoldsLock, Owning, Processes
    <2>3. SizeSeen' /\ StageReached'
      BY <1>1 DEF TypeOK, Launch, SizeSeen, StageReached, Processes
    <2>4. MappedIsValid'
      BY <1>1 DEF TypeOK, Launch, MappedIsValid, PeerCanMap, Processes
    <2> QED BY <2>1, <2>2, <2>3, <2>4
  <1>2. CASE Start(e)
    <2>1. TypeOK' BY <1>2 DEF TypeOK, Start, Labels
    <2>2. OwnerHoldsLock'
      BY <1>2 DEF TypeOK, Start, OwnerHoldsLock, Owning, Processes
    <2>3. SizeSeen' /\ StageReached'
      BY <1>2 DEF TypeOK, Start, SizeSeen, StageReached, Processes
    <2>4. MappedIsValid'
      BY <1>2 DEF TypeOK, Start, MappedIsValid, PeerCanMap, Processes
    <2> QED BY <2>1, <2>2, <2>3, <2>4
  <1>3. CASE ReceivesOrNot(e)
    <2>1. TypeOK' BY <1>3 DEF TypeOK, ReceivesOrNot, Labels
    <2>2. OwnerHoldsLock'
      BY <1>3 DEF TypeOK, ReceivesOrNot, OwnerHoldsLock, Owning, Processes
    <2>3. SizeSeen' /\ StageReached'
      BY <1>3 DEF TypeOK, ReceivesOrNot, SizeSeen, StageReached, Processes
    <2>4. MappedIsValid'
      BY <1>3 DEF TypeOK, ReceivesOrNot, MappedIsValid, PeerCanMap, Processes
    <2> QED BY <2>1, <2>2, <2>3, <2>4
  <1>4. CASE Transmit(e)
    <2>1. TypeOK' BY <1>4 DEF TypeOK, Transmit, Labels
    <2>2. OwnerHoldsLock'
      BY <1>4 DEF TypeOK, Transmit, OwnerHoldsLock, Owning, Processes
    <2>3. SizeSeen' /\ StageReached'
      BY <1>4 DEF TypeOK, Transmit, SizeSeen, StageReached, Processes
    <2>4. MappedIsValid'
      BY <1>4 DEF TypeOK, Transmit, MappedIsValid, PeerCanMap, Processes
    <2> QED BY <2>1, <2>2, <2>3, <2>4
  <1>5. CASE Stop(e)
    <2>1. TypeOK' BY <1>5 DEF TypeOK, Stop, Labels
    <2>2. OwnerHoldsLock'
      BY <1>5 DEF TypeOK, Stop, OwnerHoldsLock, Owning, Processes
    <2>3. SizeSeen' /\ StageReached'
      BY <1>5 DEF TypeOK, Stop, SizeSeen, StageReached, Processes
    <2>4. MappedIsValid'
      BY <1>5 DEF TypeOK, Stop, MappedIsValid, PeerCanMap, Processes
    <2> QED BY <2>1, <2>2, <2>3, <2>4
  <1>6. CASE Exit(e)
    <2>1. TypeOK' BY <1>6 DEF TypeOK, Exit, Unlocked, Labels
    <2>2. OwnerHoldsLock'
      BY <1>6 DEF TypeOK, Exit, Unlocked, OwnerHoldsLock, Owning, Processes
    <2>3. SizeSeen' /\ StageReached'
      BY <1>6 DEF TypeOK, Exit, Unlocked, SizeSeen, StageReached, Processes
    <2>4. MappedIsValid'
      BY <1>6 DEF TypeOK, Exit, Unlocked, MappedIsValid, PeerCanMap, Processes
    <2> QED BY <2>1, <2>2, <2>3, <2>4
  <1>7. CASE CrashEngine(e)
    <2>1. TypeOK' BY <1>7 DEF TypeOK, CrashEngine, Unlocked, Labels
    <2>2. OwnerHoldsLock'
      BY <1>7 DEF TypeOK, CrashEngine, Unlocked, OwnerHoldsLock, Owning, Processes
    <2>3. SizeSeen' /\ StageReached'
      BY <1>7 DEF TypeOK, CrashEngine, Unlocked, SizeSeen, StageReached, Processes
    <2>4. MappedIsValid'
      BY <1>7 DEF TypeOK, CrashEngine, Unlocked, MappedIsValid, PeerCanMap, Processes
    <2> QED BY <2>1, <2>2, <2>3, <2>4
  <1>8. CASE OpenAsOwner(e)
    <2>1. e \in Processes BY DEF Processes
    <2> QED BY <1>8, <2>1, OpenInv
  <1> QED
    BY <1>1, <1>2, <1>3, <1>4, <1>5, <1>6, <1>7, <1>8 DEF EngineStep

\* Every step of the driver keeps the invariant.
LEMMA DriverInv ==
  ASSUME IInv, DriverStep
  PROVE  IInv'
  <1> USE ProcessAssumption DEF ProcessAssumption, IInv, Goto, fileVars, blockVars, driverVars
  <1>1. CASE Load
    <2>1. TypeOK' BY <1>1 DEF TypeOK, Load, DriverOpens, PeerCanMap, Labels
    <2>2. OwnerHoldsLock'
      BY <1>1 DEF TypeOK, Load, DriverOpens, PeerCanMap, OwnerHoldsLock, Owning, Processes
    <2>3. SizeSeen' /\ StageReached'
      BY <1>1 DEF TypeOK, Load, DriverOpens, PeerCanMap, SizeSeen, StageReached, Processes
    <2>4. MappedIsValid'
      BY <1>1 DEF TypeOK, Load, DriverOpens, PeerCanMap, MappedIsValid, PeerCanMap, Processes
    <2> QED BY <2>1, <2>2, <2>3, <2>4
  <1>2. CASE StartIO
    <2>1. TypeOK' BY <1>2, ClientsAssumption
      DEF TypeOK, StartIO, DriverOpens, PeerCanMap, Labels, ClientsAssumption
    <2>2. OwnerHoldsLock'
      BY <1>2 DEF TypeOK, StartIO, DriverOpens, PeerCanMap, OwnerHoldsLock, Owning, Processes
    <2>3. SizeSeen' /\ StageReached'
      BY <1>2 DEF TypeOK, StartIO, DriverOpens, PeerCanMap, SizeSeen, StageReached, Processes
    <2>4. MappedIsValid'
      BY <1>2 DEF TypeOK, StartIO, DriverOpens, PeerCanMap, MappedIsValid, PeerCanMap, Processes
    <2> QED BY <2>1, <2>2, <2>3, <2>4
  <1>3. CASE DriverReopens
    <2>1. TypeOK' BY <1>3 DEF TypeOK, DriverReopens, Unlocked, PeerCanMap, Labels
    <2>2. OwnerHoldsLock'
      BY <1>3 DEF TypeOK, DriverReopens, Unlocked, PeerCanMap, OwnerHoldsLock, Owning, Processes
    <2>3. SizeSeen' /\ StageReached'
      BY <1>3 DEF TypeOK, DriverReopens, Unlocked, PeerCanMap, SizeSeen, StageReached, Processes
    <2>4. MappedIsValid'
      BY <1>3 DEF TypeOK, DriverReopens, Unlocked, PeerCanMap, MappedIsValid, PeerCanMap, Processes
    <2> QED BY <2>1, <2>2, <2>3, <2>4
  <1>4. CASE DriverOpened
    <2>1. TypeOK' BY <1>4 DEF TypeOK, DriverOpened, Labels
    <2>2. OwnerHoldsLock'
      BY <1>4 DEF TypeOK, DriverOpened, OwnerHoldsLock, Owning, Processes
    <2>3. SizeSeen' /\ StageReached'
      BY <1>4 DEF TypeOK, DriverOpened, SizeSeen, StageReached, Processes
    <2>4. MappedIsValid'
      BY <1>4 DEF TypeOK, DriverOpened, MappedIsValid, PeerCanMap, Processes
    <2> QED BY <2>1, <2>2, <2>3, <2>4
  <1>5. CASE SetIoRunning
    <2>1. TypeOK' BY <1>5 DEF TypeOK, SetIoRunning, Labels
    <2>2. OwnerHoldsLock'
      BY <1>5 DEF TypeOK, SetIoRunning, OwnerHoldsLock, Owning, Processes
    <2>3. SizeSeen' /\ StageReached'
      BY <1>5 DEF TypeOK, SetIoRunning, SizeSeen, StageReached, Processes
    <2>4. MappedIsValid'
      BY <1>5 DEF TypeOK, SetIoRunning, MappedIsValid, PeerCanMap, Processes
    <2> QED BY <2>1, <2>2, <2>3, <2>4
  <1>6. CASE StopIO
    <2>1. TypeOK'
      <3>1. clients' \in 0 .. MaxClients
        BY <1>6, ClientsAssumption, SMT DEF TypeOK, StopIO, ClientsAssumption
      <3> QED
        BY <1>6, <3>1 DEF TypeOK, StopIO, Labels
    <2>2. OwnerHoldsLock'
      BY <1>6 DEF TypeOK, StopIO, OwnerHoldsLock, Owning, Processes
    <2>3. SizeSeen' /\ StageReached'
      BY <1>6 DEF TypeOK, StopIO, SizeSeen, StageReached, Processes
    <2>4. MappedIsValid'
      BY <1>6 DEF TypeOK, StopIO, MappedIsValid, PeerCanMap, Processes
    <2> QED BY <2>1, <2>2, <2>3, <2>4
  <1>7. CASE WriteOutput
    <2>1. TypeOK' BY <1>7 DEF TypeOK, WriteOutput, Labels
    <2>2. OwnerHoldsLock'
      BY <1>7 DEF TypeOK, WriteOutput, OwnerHoldsLock, Owning, Processes
    <2>3. SizeSeen' /\ StageReached'
      BY <1>7 DEF TypeOK, WriteOutput, SizeSeen, StageReached, Processes
    <2>4. MappedIsValid'
      BY <1>7 DEF TypeOK, WriteOutput, MappedIsValid, PeerCanMap, Processes
    <2> QED BY <2>1, <2>2, <2>3, <2>4
  <1>8. CASE CrashDriver
    <2>1. TypeOK'
      <3>1. clients' \in 0 .. MaxClients
        BY <1>8, ClientsAssumption, SMT DEF CrashDriver, ClientsAssumption
      <3> QED
        BY <1>8, <3>1 DEF TypeOK, CrashDriver, Unlocked, Labels
    <2>2. OwnerHoldsLock'
      BY <1>8 DEF TypeOK, CrashDriver, Unlocked, OwnerHoldsLock, Owning, Processes
    <2>3. SizeSeen' /\ StageReached'
      BY <1>8 DEF TypeOK, CrashDriver, Unlocked, SizeSeen, StageReached, Processes
    <2>4. MappedIsValid'
      BY <1>8 DEF TypeOK, CrashDriver, Unlocked, MappedIsValid, PeerCanMap, Processes
    <2> QED BY <2>1, <2>2, <2>3, <2>4
  <1>9. CASE OpenAsOwner(Driver)
    <2>1. Driver \in Processes BY DEF Processes
    <2> QED BY <1>9, <2>1, OpenInv
  <1> QED
    BY <1>1, <1>2, <1>3, <1>4, <1>5, <1>6, <1>7, <1>8, <1>9 DEF DriverStep

\* Every step of a status call keeps the invariant.
LEMMA ProbeInv ==
  ASSUME IInv, NEW p \in Probes, ProbeStep(p)
  PROVE  IInv'
  <1> USE ProcessAssumption DEF ProcessAssumption, IInv, Goto, fileVars, blockVars, driverVars
  <1>1. CASE StatusOpens(p)
    <2>1. TypeOK' BY <1>1 DEF TypeOK, StatusOpens, NoReport, Labels
    <2>2. OwnerHoldsLock'
      BY <1>1 DEF TypeOK, StatusOpens, NoReport, OwnerHoldsLock, Owning, Processes
    <2>3. SizeSeen' /\ StageReached'
      BY <1>1 DEF TypeOK, StatusOpens, NoReport, SizeSeen, StageReached, Processes
    <2>4. MappedIsValid'
      BY <1>1 DEF TypeOK, StatusOpens, NoReport, MappedIsValid, PeerCanMap, Processes
    <2> QED BY <2>1, <2>2, <2>3, <2>4
  <1>2. CASE OwnerActive(p)
    <2>1. TypeOK' BY <1>2 DEF Processes, TypeOK, OwnerActive, Labels
    <2>2. OwnerHoldsLock'
      BY <1>2 DEF TypeOK, OwnerActive, OwnerHoldsLock, Owning, Processes
    <2>3. SizeSeen' /\ StageReached'
      BY <1>2 DEF TypeOK, OwnerActive, SizeSeen, StageReached, Processes
    <2>4. MappedIsValid'
      BY <1>2 DEF TypeOK, OwnerActive, MappedIsValid, PeerCanMap, Processes
    <2> QED BY <2>1, <2>2, <2>3, <2>4
  <1>3. CASE GiveBack(p)
    <2>1. TypeOK' BY <1>3 DEF TypeOK, GiveBack, Unlocked, Labels
    <2>2. OwnerHoldsLock'
      BY <1>3 DEF TypeOK, GiveBack, Unlocked, OwnerHoldsLock, Owning, Processes
    <2>3. SizeSeen' /\ StageReached'
      BY <1>3 DEF TypeOK, GiveBack, Unlocked, SizeSeen, StageReached, Processes
    <2>4. MappedIsValid'
      BY <1>3 DEF TypeOK, GiveBack, Unlocked, MappedIsValid, PeerCanMap, Processes
    <2> QED BY <2>1, <2>2, <2>3, <2>4
  <1>4. CASE Answer(p)
    <2>1. TypeOK' BY <1>4 DEF TypeOK, Answer, NoReport, Labels
    <2>2. OwnerHoldsLock'
      BY <1>4 DEF TypeOK, Answer, NoReport, OwnerHoldsLock, Owning, Processes
    <2>3. SizeSeen' /\ StageReached'
      BY <1>4 DEF TypeOK, Answer, NoReport, SizeSeen, StageReached, Processes
    <2>4. MappedIsValid'
      BY <1>4 DEF TypeOK, Answer, NoReport, MappedIsValid, PeerCanMap, Processes
    <2> QED BY <2>1, <2>2, <2>3, <2>4
  <1> QED
    BY <1>1, <1>2, <1>3, <1>4 DEF ProbeStep

\* Every step keeps the invariant.
LEMMA NextInv == IInv /\ [Next]_vars => IInv'
  <1> SUFFICES ASSUME IInv, [Next]_vars PROVE IInv'
    OBVIOUS
  <1>1. CASE UNCHANGED vars
    <2> USE <1>1 DEF vars, fileVars, blockVars, driverVars, IInv
    <2>1. TypeOK' BY DEF TypeOK
    <2>2. OwnerHoldsLock' BY DEF OwnerHoldsLock
    <2>3. SizeSeen' /\ StageReached' BY DEF SizeSeen, StageReached
    <2>4. MappedIsValid' BY DEF MappedIsValid, PeerCanMap
    <2> QED BY <2>1, <2>2, <2>3, <2>4
  <1>2. CASE Next
    BY <1>2, EngineInv, DriverInv, ProbeInv DEF Next
  <1> QED
    BY <1>1, <1>2

\* The invariant is an invariant of the specification.
LEMMA AlwaysInv == Spec => []IInv
  BY InitInv, NextInv, PTL DEF Spec

\* The lock is held exactly by the process between its flock and its close:
\* two engines never run, and no two processes construct the block, at once;
\* no error path, exit or kill leaves the lock behind
\* (SharedAudioMemory::open, close and ownerActive).
THEOREM LockHasOneOwner == Spec => []OwnerHoldsLock
  <1>1. IInv => OwnerHoldsLock
    BY DEF IInv
  <1> QED
    BY <1>1, AlwaysInv, PTL

\* An engine that runs, a driver that has attached and a status call that
\* reads all have a block of the expected size and header, whoever else is
\* creating, constructing or dying (SharedAudioMemory::open).
THEOREM UsedBlocksAreValid == Spec => []MappedIsValid
  <1>1. IInv => MappedIsValid
    BY DEF IInv
  <1> QED
    BY <1>1, AlwaysInv, PTL

\* What a step may do to a settled block.
Kept == /\ Settled'
        /\ ioRunning /\ ~ioRunning' => StopIO
        /\ queued /\ ~queued' => \E e \in Engines : Transmit(e)

\* open(true) over a settled block finds it valid and constructs nothing.
LEMMA OpenKeeps ==
  ASSUME TypeOK, Settled, NEW p \in Processes, OpenAsOwner(p)
  PROVE  Kept
  <1> USE DEF TypeOK, Settled, Kept, Goto, fileVars, blockVars
  <1>1. CASE CreateFile(p)
    BY <1>1 DEF CreateFile
  <1>2. CASE Stat(p)
    BY <1>2 DEF Stat
  <1>3. CASE TakeLock(p)
    BY <1>3 DEF TakeLock
  <1>4. CASE Truncate(p)
    BY <1>4 DEF Truncate
  <1>5. CASE Map(p)
    BY <1>5 DEF Map
  <1>6. CASE ConstructHeader(p)
    BY <1>6 DEF ConstructHeader
  <1>7. CASE ConstructRest(p)
    BY <1>7 DEF ConstructRest
  <1> QED
    BY <1>1, <1>2, <1>3, <1>4, <1>5, <1>6, <1>7 DEF OpenAsOwner

\* An engine keeps a settled block: it starts, stops and dies over it, and takes
\* audio out of it only to transmit it.
LEMMA EngineKeeps ==
  ASSUME TypeOK, Settled, NEW e \in Engines, EngineStep(e)
  PROVE  Kept
  <1> USE DEF TypeOK, Settled, Kept, Goto, fileVars, blockVars
  <1>1. CASE Launch(e)
    BY <1>1 DEF Launch
  <1>2. CASE Start(e)
    BY <1>2 DEF Start
  <1>3. CASE ReceivesOrNot(e)
    BY <1>3 DEF ReceivesOrNot
  <1>4. CASE Transmit(e)
    <2>1. Settled' /\ (ioRunning /\ ~ioRunning' => StopIO)
      BY <1>4 DEF Transmit
    <2> QED
      BY <1>4, <2>1
  <1>5. CASE Stop(e)
    BY <1>5 DEF Stop
  <1>6. CASE Exit(e)
    BY <1>6 DEF Exit
  <1>7. CASE CrashEngine(e)
    BY <1>7 DEF CrashEngine
  <1>8. CASE OpenAsOwner(e)
    BY <1>8, OpenKeeps DEF Processes
  <1> QED
    BY <1>1, <1>2, <1>3, <1>4, <1>5, <1>6, <1>7, <1>8 DEF EngineStep

\* The driver keeps a settled block, and takes ioRunning back with its last client.
LEMMA DriverKeeps ==
  ASSUME TypeOK, Settled, DriverStep
  PROVE  Kept
  <1> USE DEF TypeOK, Settled, Kept, Goto, fileVars, blockVars
  <1>1. CASE Load
    BY <1>1 DEF Load, DriverOpens, PeerCanMap
  <1>2. CASE StartIO
    <2>1. UNCHANGED <<size, valid, blockVars, existing>> /\ pc' = [pc EXCEPT ![Driver] = "io"]
      BY <1>2 DEF StartIO, DriverOpens, PeerCanMap
    <2> QED
      BY <2>1
  <1>3. CASE DriverReopens
    BY <1>3 DEF DriverReopens
  <1>4. CASE DriverOpened
    BY <1>4 DEF DriverOpened
  <1>5. CASE SetIoRunning
    BY <1>5 DEF SetIoRunning
  <1>6. CASE StopIO
    <2>1. Settled' /\ queued' = queued
      BY <1>6 DEF StopIO
    <2> QED
      BY <1>6, <2>1
  <1>7. CASE WriteOutput
    BY <1>7 DEF WriteOutput
  <1>8. CASE CrashDriver
    BY <1>8 DEF CrashDriver
  <1>9. CASE OpenAsOwner(Driver)
    BY <1>9, OpenKeeps DEF Processes
  <1> QED
    BY <1>1, <1>2, <1>3, <1>4, <1>5, <1>6, <1>7, <1>8, <1>9 DEF DriverStep

\* A status call changes nothing in the block.
LEMMA ProbeKeeps ==
  ASSUME TypeOK, Settled, NEW p \in Probes, ProbeStep(p)
  PROVE  Kept
  <1> USE DEF TypeOK, Settled, Kept, Goto, fileVars, blockVars
  <1>1. CASE StatusOpens(p)
    BY <1>1 DEF StatusOpens
  <1>2. CASE OwnerActive(p)
    BY <1>2 DEF OwnerActive
  <1>3. CASE GiveBack(p)
    BY <1>3 DEF GiveBack
  <1>4. CASE Answer(p)
    BY <1>4 DEF Answer
  <1> QED
    BY <1>1, <1>2, <1>3, <1>4 DEF ProbeStep

\* A block that is valid, and that nobody on its way through open(true) saw
\* before it was complete, is never constructed again: engines that start, stop
\* and crash over it leave the driver's ioRunning and its queued audio alone
\* (SharedAudioMemory::open, LiveEngine::start).
THEOREM SettledBlockKept == Spec => BlockKept
  <1>1. IInv /\ [Next]_vars => [Settled => Kept]_vars
    <2> SUFFICES ASSUME IInv, Next, Settled PROVE Kept
      OBVIOUS
    <2>1. TypeOK
      BY DEF IInv
    <2> QED
      BY <2>1, EngineKeeps, DriverKeeps, ProbeKeeps DEF Next
  <1> QED
    BY <1>1, AlwaysInv, PTL DEF Spec, BlockKept, Kept
=============================================================================
