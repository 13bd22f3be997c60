-------------------------- MODULE EngineOwnership --------------------------
(***************************************************************************)
(* Who owns the shared audio block.  SharedAudioMemory::open(true) takes   *)
(* an flock on the file and constructs the block unless it finds a valid   *)
(* one; open(false) maps a valid block as a peer; ownerActive() finds out  *)
(* whether somebody holds the lock by trying to take it.  The engine opens *)
(* as owner for as long as it runs, the driver opens as peer and, when     *)
(* there is no valid block, as owner for a moment to make one, and         *)
(* `aes-bridge-engine --status` opens as peer and calls ownerActive().     *)
(* Every process may be killed at any point, which releases its lock and   *)
(* leaves the block as it is.                                              *)
(*                                                                         *)
(* The block is abstracted to its header, the flags that processes trust,  *)
(* and whether the driver has audio queued in it.  A size other than the   *)
(* block's, or a header that is not the expected one, is "other": a new,   *)
(* empty file or what an older version left.  Failures of fstat, fchmod,   *)
(* ftruncate and mmap are left out: they close and return false like a     *)
(* refused lock, before anything is changed in the block.                  *)
(***************************************************************************)
EXTENDS Naturals, FiniteSets

CONSTANTS Engines,      \* processes started with --run
          Driver,       \* the process that hosts the HAL plug-in
          Probes,       \* processes started with --status
          Nobody,       \* the lock is free
          InitialFiles, \* states the file may be in at first
          MaxClients    \* bound: Core Audio clients doing I/O at once

Processes == Engines \cup {Driver} \cup Probes
FileStates == {"absent", "other", "foreign", "valid"}  \* foreign: only the size is right

ASSUME ProcessAssumption ==
    /\ Driver \notin Engines /\ Engines \cap Probes = {} /\ Driver \notin Probes
    /\ Nobody \notin Processes
ASSUME FileAssumption == InitialFiles \subseteq FileStates
ASSUME ClientsAssumption == MaxClients \in Nat \ {0}

VARIABLES size,           \* "none", "other" or "full": the file's length
          valid,          \* magic, version and geometry are the expected ones
          lock,           \* who holds the flock
          engineRunning, rxActive, ioRunning,  \* flags in the block
          queued,         \* audio of the driver waits in the rings
          pc,             \* where each process is
          existing,       \* existingLayout of each process in open(true)
          receiving,      \* [Engines -> BOOLEAN]: it does receive
          bridge,         \* the driver has mapped the block
          clients,        \* clients doing I/O
          report          \* what each status call answered

blockVars == <<engineRunning, rxActive, ioRunning, queued>>
fileVars == <<size, valid, lock>>
driverVars == <<bridge, clients>>
vars == <<fileVars, blockVars, pc, existing, receiving, driverVars, report>>

NoReport == [running |-> FALSE, rx |-> FALSE]

Init ==
    /\ \E file \in InitialFiles :
          /\ size = IF file = "absent" THEN "none" ELSE IF file = "other" THEN "other" ELSE "full"
          /\ valid = (file = "valid")
    /\ lock = Nobody
    /\ engineRunning = FALSE /\ rxActive = FALSE /\ ioRunning = FALSE /\ queued = FALSE
    /\ pc = [p \in Processes |-> "idle"]
    /\ existing = [p \in Processes |-> FALSE]
    /\ receiving = [e \in Engines |-> FALSE]
    /\ bridge = FALSE /\ clients = 0
    /\ report = [p \in Probes |-> NoReport]

Goto(p, label) == pc' = [pc EXCEPT ![p] = label]

----------------------------------------------------------------------------
(* open(true), one system call or store at a time.                         *)

\* ::open(O_CREAT): an absent file comes into being, empty.
CreateFile(p) ==
    /\ pc[p] = "create"
    /\ size' = IF size = "none" THEN "other" ELSE size
    /\ Goto(p, "stat")
    /\ UNCHANGED <<valid, lock, blockVars, existing, receiving, driverVars, report>>

\* fstat: the size is taken before the lock.
Stat(p) ==
    /\ pc[p] = "stat"
    /\ existing' = [existing EXCEPT ![p] = (size = "full")]
    /\ Goto(p, "lock")
    /\ UNCHANGED <<fileVars, blockVars, receiving, driverVars, report>>

\* Mutant of TakeLock: a lock that does not exclude (LOCK_SH).
TakeLockShared(p) ==
    /\ pc[p] = "lock"
    /\ lock' = p
    /\ Goto(p, IF existing[p] THEN "map" ELSE "truncate")
    /\ UNCHANGED <<size, valid, blockVars, existing, receiving, driverVars, report>>

\* flock(LOCK_EX | LOCK_NB): refused, the engine exits and the driver goes on
\* without a block.
TakeLock(p) ==
    /\ pc[p] = "lock"
    /\ \/ /\ lock = Nobody
          /\ lock' = p
          /\ Goto(p, IF existing[p] THEN "map" ELSE "truncate")
       \/ /\ lock # Nobody
          /\ Goto(p, IF p = Driver THEN "opened" ELSE "idle")
          /\ UNCHANGED lock
    /\ UNCHANGED <<size, valid, blockVars, existing, receiving, driverVars, report>>

Truncate(p) ==
    /\ pc[p] = "truncate"
    /\ size' = "full"
    /\ Goto(p, "map")
    /\ UNCHANGED <<valid, lock, blockVars, existing, receiving, driverVars, report>>

\* Mutant of Map: the owner always constructs the block.
MapAlwaysConstructs(p) ==
    /\ pc[p] = "map"
    /\ Goto(p, "header")
    /\ UNCHANGED <<fileVars, blockVars, existing, receiving, driverVars, report>>

\* mmap, then validLayout
Map(p) ==
    /\ pc[p] = "map"
    /\ Goto(p, IF existing[p] /\ valid THEN "owner" ELSE "header")
    /\ UNCHANGED <<fileVars, blockVars, existing, receiving, driverVars, report>>

\* new (block_) SharedAudioBlock{}: the header is its first member, the flags
\* and the rings come after it.
ConstructHeader(p) ==
    /\ pc[p] = "header"
    /\ valid' = TRUE
    /\ Goto(p, "fill")
    /\ UNCHANGED <<size, lock, blockVars, existing, receiving, driverVars, report>>

ConstructRest(p) ==
    /\ pc[p] = "fill"
    /\ engineRunning' = FALSE /\ rxActive' = FALSE /\ ioRunning' = FALSE /\ queued' = FALSE
    /\ Goto(p, "owner")
    /\ UNCHANGED <<fileVars, existing, receiving, driverVars, report>>

OpenAsOwner(p) ==
    \/ CreateFile(p) \/ Stat(p) \/ TakeLock(p) \/ Truncate(p) \/ Map(p)
    \/ ConstructHeader(p) \/ ConstructRest(p)

\* Mutant of PeerCanMap: a file of the right size is trusted.
PeerCanMapBySize == size = "full"

\* open(false) succeeds: the file has its size and the header is the expected
\* one.  Neither is ever undone, so the moment of its last look counts.
PeerCanMap == size = "full" /\ valid

----------------------------------------------------------------------------
(* The engine                                                              *)

Launch(e) ==
    /\ pc[e] = "idle"
    /\ Goto(e, "create")
    /\ UNCHANGED <<fileVars, blockVars, existing, receiving, driverVars, report>>

\* LiveEngine::start() once it owns the block: statistics and sessions are
\* reset, engineRunning, ptpLocked and activeStreamCount are set.
Start(e) ==
    /\ pc[e] = "owner"
    /\ engineRunning' = TRUE
    /\ Goto(e, "running")
    /\ UNCHANGED <<fileVars, rxActive, ioRunning, queued, existing, receiving, driverVars, report>>

\* setRxActive
ReceivesOrNot(e) ==
    /\ pc[e] = "running"
    /\ receiving' = [receiving EXCEPT ![e] = ~@]
    /\ rxActive' = ~receiving[e]
    /\ UNCHANGED <<fileVars, engineRunning, ioRunning, queued, pc, existing, driverVars, report>>

\* transmitLoop takes what the driver has queued.
Transmit(e) ==
    /\ pc[e] = "running" /\ queued
    /\ queued' = FALSE
    /\ UNCHANGED <<fileVars, engineRunning, rxActive, ioRunning, pc, existing, receiving,
                   driverVars, report>>

\* LiveEngine::stop(): the flags; the lock is kept until the destructor.
Stop(e) ==
    /\ pc[e] = "running"
    /\ engineRunning' = FALSE /\ rxActive' = FALSE
    /\ receiving' = [receiving EXCEPT ![e] = FALSE]
    /\ Goto(e, "stopped")
    /\ UNCHANGED <<fileVars, ioRunning, queued, existing, driverVars, report>>

\* The lock goes with the file descriptor.
Unlocked(p) == lock' = IF lock = p THEN Nobody ELSE lock

\* ~LiveEngine closes the mapping and the process ends.
Exit(e) ==
    /\ pc[e] = "stopped"
    /\ Unlocked(e)
    /\ Goto(e, "idle")
    /\ UNCHANGED <<size, valid, blockVars, existing, receiving, driverVars, report>>

CrashEngine(e) ==
    /\ pc[e] # "idle"
    /\ Unlocked(e)
    /\ receiving' = [receiving EXCEPT ![e] = FALSE]
    /\ Goto(e, "idle")
    /\ UNCHANGED <<size, valid, blockVars, existing, driverVars, report>>

EngineStep(e) == Launch(e) \/ OpenAsOwner(e) \/ Start(e) \/ ReceivesOrNot(e)
                 \/ Transmit(e) \/ Stop(e) \/ Exit(e) \/ CrashEngine(e)

----------------------------------------------------------------------------
(* The driver.  initialize() and StartIOImpl call openDriverSharedMemory,  *)
(* which tries open(false), then open(true), then open(false) again.       *)

\* initialize() at "idle", and StartIOImpl of one more client; both return at
\* "ready".
DriverOpens(label) ==
    /\ bridge' = PeerCanMap
    /\ Goto(Driver, IF PeerCanMap THEN label ELSE "create")
    /\ UNCHANGED <<fileVars, blockVars, existing, receiving, report>>

Load == pc[Driver] = "idle" /\ clients = 0 /\ DriverOpens("ready") /\ UNCHANGED clients

\* The client count is libASPL's startCount; ioRunning follows its first and
\* its last client.
StartIO ==
    /\ pc[Driver] = "ready" /\ clients < MaxClients
    /\ clients' = clients + 1
    /\ \/ ~bridge /\ DriverOpens("io")
       \/ /\ bridge
          /\ Goto(Driver, "io")
          /\ UNCHANGED <<fileVars, blockVars, existing, receiving, bridge, report>>

\* The end of openDriverSharedMemory: the second open(false), then the
\* temporary owner is destroyed.
DriverReopens ==
    /\ pc[Driver] = "owner"
    /\ bridge' = PeerCanMap
    /\ Unlocked(Driver)
    /\ Goto(Driver, "opened")
    /\ UNCHANGED <<size, valid, blockVars, existing, receiving, clients, report>>

\* Back in the caller: initialize() has no client yet, StartIOImpl has.
DriverOpened ==
    /\ pc[Driver] = "opened"
    /\ Goto(Driver, IF clients = 0 THEN "ready" ELSE "io")
    /\ UNCHANGED <<fileVars, blockVars, existing, receiving, driverVars, report>>

SetIoRunning ==
    /\ pc[Driver] = "io"
    /\ ioRunning' = IF clients = 1 /\ bridge THEN TRUE ELSE ioRunning
    /\ Goto(Driver, "ready")
    /\ UNCHANGED <<fileVars, engineRunning, rxActive, queued, existing, receiving,
                   driverVars, report>>

StopIO ==
    /\ pc[Driver] = "ready" /\ clients > 0
    /\ clients' = clients - 1
    /\ ioRunning' = IF clients = 1 /\ bridge THEN FALSE ELSE ioRunning
    /\ UNCHANGED <<fileVars, engineRunning, rxActive, queued, pc, existing, receiving,
                   bridge, report>>

\* writeOutput: nothing is queued for an engine that is not running.
WriteOutput ==
    /\ pc[Driver] = "ready" /\ clients > 0 /\ bridge /\ engineRunning
    /\ queued' = TRUE
    /\ UNCHANGED <<fileVars, engineRunning, rxActive, ioRunning, pc, existing, receiving,
                   driverVars, report>>

CrashDriver ==
    /\ pc[Driver] # "idle"
    /\ Unlocked(Driver)
    /\ bridge' = FALSE /\ clients' = 0
    /\ Goto(Driver, "idle")
    /\ UNCHANGED <<size, valid, blockVars, existing, receiving, report>>

DriverStep == Load \/ StartIO \/ OpenAsOwner(Driver) \/ DriverReopens \/ DriverOpened
              \/ SetIoRunning \/ StopIO \/ WriteOutput \/ CrashDriver

----------------------------------------------------------------------------
(* --status                                                                *)

\* open(false); when it fails, "not running" is answered and nothing else is done.
StatusOpens(p) ==
    /\ pc[p] = "idle" /\ PeerCanMap
    /\ report' = [report EXCEPT ![p] = NoReport]
    /\ Goto(p, "probe")
    /\ UNCHANGED <<fileVars, blockVars, existing, receiving, driverVars>>

\* ownerActive(): the lock is tried, and given back when it was free.
OwnerActive(p) ==
    /\ pc[p] = "probe"
    /\ \/ /\ lock = Nobody
          /\ lock' = p
          /\ Goto(p, "giveback")
       \/ /\ lock # Nobody
          /\ Goto(p, "flag")
          /\ UNCHANGED lock
    /\ UNCHANGED <<size, valid, blockVars, existing, receiving, driverVars, report>>

\* LOCK_UN, or the process is killed here
GiveBack(p) ==
    /\ pc[p] = "giveback"
    /\ Unlocked(p)
    /\ Goto(p, "idle")
    /\ UNCHANGED <<size, valid, blockVars, existing, receiving, driverVars, report>>

\* engineRunning, and the status that is printed
Answer(p) ==
    /\ pc[p] = "flag"
    /\ report' = [report EXCEPT ![p] =
                     IF engineRunning THEN [running |-> TRUE, rx |-> rxActive] ELSE NoReport]
    /\ Goto(p, "idle")
    /\ UNCHANGED <<fileVars, blockVars, existing, receiving, driverVars>>

ProbeStep(p) == StatusOpens(p) \/ OwnerActive(p) \/ GiveBack(p) \/ Answer(p)

----------------------------------------------------------------------------
Next == \/ \E e \in Engines : EngineStep(e)
        \/ DriverStep
        \/ \E p \in Probes : ProbeStep(p)

Spec == Init /\ [][Next]_vars

----------------------------------------------------------------------------
(* Properties.                                                             *)

Labels == {"idle", "create", "stat", "lock", "truncate", "map", "header", "fill",
           "owner", "running", "stopped", "opened", "ready", "io",
           "probe", "giveback", "flag"}

\* Every variable has its type; libASPL's client count does not go below zero.
TypeOK ==
    /\ size \in {"none", "other", "full"} /\ valid \in BOOLEAN
    /\ lock \in Processes \cup {Nobody}
    /\ engineRunning \in BOOLEAN /\ rxActive \in BOOLEAN
    /\ ioRunning \in BOOLEAN /\ queued \in BOOLEAN
    /\ pc \in [Processes -> Labels] /\ existing \in [Processes -> BOOLEAN]
    /\ receiving \in [Engines -> BOOLEAN]
    /\ bridge \in BOOLEAN /\ clients \in 0 .. MaxClients
    /\ report \in [Probes -> [running : BOOLEAN, rx : BOOLEAN]]

\* Between its flock and its close a process owns the block.
Owning == {"truncate", "map", "header", "fill", "owner", "running", "stopped", "giveback"}

\* The lock is held exactly by the one process that is between its flock and
\* its close: no two processes construct the block or run as engine at once,
\* and no error path, exit or crash leaves the lock behind
\* (SharedAudioMemory.cpp:30-63).
OwnerHoldsLock == \A p \in Processes : pc[p] \in Owning <=> lock = p

\* Whoever works on a mapped block has one with the expected size and header:
\* the engine from start() on, the driver from attach() on, a status call
\* (SharedAudioMemory.cpp:45-55).
MappedIsValid ==
    /\ \A e \in Engines : pc[e] \in {"owner", "running", "stopped"} => size = "full" /\ valid
    /\ bridge => size = "full" /\ valid
    /\ \A p \in Probes : pc[p] \in {"probe", "flag"} => size = "full" /\ valid

\* The block is valid, nobody is constructing it, and nobody who saw the file
\* before it was complete is still on its way to the lock or the mapping.
Settled ==
    /\ size = "full" /\ valid
    /\ \A p \in Processes :
          /\ pc[p] \notin {"truncate", "header", "fill"}
          /\ pc[p] \in {"lock", "map"} => existing[p]

\* Once the block is settled it stays so: engines may start, stop, crash and
\* restart over it, but nobody except the driver takes back its ioRunning, and
\* the audio the driver has queued stays until an engine transmits it
\* (SharedAudioMemory.cpp:22-48, LiveEngine.cpp:59-77).
BlockKept ==
    [][ Settled => /\ Settled'
                   /\ ioRunning /\ ~ioRunning' => StopIO
                   /\ queued /\ ~queued' => \E e \in Engines : Transmit(e) ]_vars

\* No process begins to construct a block that the driver has mapped
\* (SharedAudioMemory.cpp:28-48).
NotRebuiltInUse ==
    [][ \A p \in Processes : pc[p] # "header" /\ pc'[p] = "header" => ~bridge ]_vars
=============================================================================
