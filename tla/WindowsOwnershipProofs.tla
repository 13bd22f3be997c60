---------------------- MODULE WindowsOwnershipProofs ----------------------
(***************************************************************************)
(* For any number of engines, peers and status calls, with any of them     *)
(* killed between two calls of the system: at most one process has taken   *)
(* the semaphore's count, and a complete block that is open somewhere is   *)
(* not constructed again.                                                  *)
(*                                                                         *)
(* Neither is inductive.  Who waits or leaves must have a handle, or the   *)
(* semaphore could be made anew under a holder (HandlesKept); an owner     *)
(* that is about to construct the block must have found, or made, one that *)
(* is not complete, and nobody else can have completed it since            *)
(* (ConstructsIncomplete).                                                 *)
(***************************************************************************)
EXTENDS WindowsOwnership, TLAPS

\* Which labels peers and status calls come to.
Roles ==
    /\ \A p \in PeerProcesses : wPc[p] \in {"idle", "view", "run", "unmap"}
    /\ \A p \in StatusCalls :
          wPc[p] \in {"idle", "view", "run", "wait", "release", "leave", "unmap"}

\* A process that waits for the count, or has done with it, has a handle.
HandlesKept == \A p \in WindowsProcesses : wPc[p] \in {"wait", "leave"} => p \in semHandles

\* A complete block has a header, and so has one whose rest is constructed;
\* whoever is going to construct one, or has just made the mapping, has one that
\* is not complete.
ConstructsIncomplete ==
    /\ complete => header
    /\ \A p \in WindowsProcesses : wPc[p] = "fill" => header
    /\ \A p \in WindowsProcesses : wPc[p] = "header" => ~complete
    /\ \A p \in EngineProcesses : wPc[p] = "view" /\ ~wExisting[p] => ~complete

\* The inductive invariant.
IInv == WindowsTypeOK /\ Roles /\ HandlesKept /\ WindowsOneOwner /\ ConstructsIncomplete

----------------------------------------------------------------------------
\* The kinds of processes are told apart by their names.
LEMMA Kinds ==
  /\ WindowsProcesses = EngineProcesses \cup PeerProcesses \cup StatusCalls
  /\ EngineProcesses \cap PeerProcesses = {} /\ EngineProcesses \cap StatusCalls = {}
  /\ PeerProcesses \cap StatusCalls = {}
  BY DEF WindowsProcesses, EngineProcesses, PeerProcesses, StatusCalls

\* No process has done anything yet.
LEMMA InitInv == WindowsInit => IInv
  <1> SUFFICES ASSUME WindowsInit PROVE IInv
    OBVIOUS
  <1>1. WindowsTypeOK
    BY DEF WindowsInit, WindowsTypeOK, WindowsLabels
  <1>2. Roles /\ HandlesKept /\ WindowsOneOwner /\ ConstructsIncomplete
    BY Kinds DEF WindowsInit, Roles, HandlesKept, WindowsOneOwner, Holders, ConstructsIncomplete
  <1> QED
    BY <1>1, <1>2 DEF IInv

\* A semaphore that is made anew had no handles, so nobody held it.
LEMMA CreateSemaphoreInv ==
  ASSUME IInv, NEW p \in WindowsProcesses, CreateSemaphore(p)
  PROVE  IInv'
  <1> USE Kinds DEF IInv, WindowsTypeOK, CreateSemaphore, Enter, objectVars, mappingVars
  <1>1. WindowsTypeOK'
    BY DEF WindowsLabels
  <1>2. Roles' /\ HandlesKept'
    BY DEF Roles, HandlesKept, WindowsOneOwner, Holders
  <1>3. WindowsOneOwner'
    BY DEF WindowsOneOwner, Holders, Roles, HandlesKept
  <1>4. ConstructsIncomplete'
    BY DEF ConstructsIncomplete, WindowsOneOwner, Holders, Roles
  <1> QED
    BY <1>1, <1>2, <1>3, <1>4

\* The count is there only while nobody has taken it.
LEMMA WaitInv ==
  ASSUME IInv, NEW p \in WindowsProcesses, Wait(p)
  PROVE  IInv'
  <1> USE Kinds DEF IInv, WindowsTypeOK, Wait, Enter, objectVars, mappingVars
  <1>1. WindowsTypeOK'
    BY DEF WindowsLabels
  <1>2. Roles' /\ HandlesKept'
    BY DEF Roles, HandlesKept, WindowsOneOwner, Holders
  <1>3. WindowsOneOwner'
    BY DEF WindowsOneOwner, Holders, Roles, HandlesKept
  <1>4. ConstructsIncomplete'
    BY DEF ConstructsIncomplete, WindowsOneOwner, Holders, Roles
  <1> QED
    BY <1>1, <1>2, <1>3, <1>4

\* The mapping is made by the one holder, and a new one is empty.
LEMMA CreateMappingInv ==
  ASSUME IInv, NEW p \in WindowsProcesses, CreateMapping(p)
  PROVE  IInv'
  <1> USE Kinds DEF IInv, WindowsTypeOK, CreateMapping, Enter, objectVars, mappingVars
  <1>1. WindowsTypeOK'
    BY DEF WindowsLabels
  <1>2. Roles' /\ HandlesKept'
    BY DEF Roles, HandlesKept, WindowsOneOwner, Holders
  <1>3. WindowsOneOwner'
    BY DEF WindowsOneOwner, Holders, Roles, HandlesKept
  <1>4. ConstructsIncomplete'
    BY DEF ConstructsIncomplete, WindowsOneOwner, Holders, Roles
  <1> QED
    BY <1>1, <1>2, <1>3, <1>4

\* A peer or a status call opens the block.
LEMMA OpenMappingInv ==
  ASSUME IInv, NEW p \in WindowsProcesses, OpenMapping(p)
  PROVE  IInv'
  <1> USE Kinds DEF IInv, WindowsTypeOK, OpenMapping, Enter, objectVars, mappingVars
  <1>1. WindowsTypeOK'
    BY DEF WindowsLabels
  <1>2. Roles' /\ HandlesKept'
    BY DEF Roles, HandlesKept, WindowsOneOwner, Holders
  <1>3. WindowsOneOwner'
    BY DEF WindowsOneOwner, Holders, Roles, HandlesKept
  <1>4. ConstructsIncomplete'
    BY DEF ConstructsIncomplete, WindowsOneOwner, Holders, Roles
  <1> QED
    BY <1>1, <1>2, <1>3, <1>4

\* What the owner finds decides whether it constructs the block.
LEMMA ViewInv ==
  ASSUME IInv, NEW p \in WindowsProcesses, View(p)
  PROVE  IInv'
  <1> USE Kinds DEF IInv, WindowsTypeOK, View, Enter, objectVars, mappingVars
  <1>1. WindowsTypeOK'
    BY DEF WindowsLabels
  <1>2. Roles' /\ HandlesKept'
    BY DEF Roles, HandlesKept, WindowsOneOwner, Holders
  <1>3. WindowsOneOwner'
    BY DEF WindowsOneOwner, Holders, Roles, HandlesKept
  <1>4. ConstructsIncomplete'
    BY DEF ConstructsIncomplete, WindowsOneOwner, Holders, Roles
  <1> QED
    BY <1>1, <1>2, <1>3, <1>4

\* The one holder constructs the header
LEMMA BuildHeaderInv ==
  ASSUME IInv, NEW p \in WindowsProcesses, BuildHeader(p)
  PROVE  IInv'
  <1> USE Kinds DEF IInv, WindowsTypeOK, BuildHeader, Enter, objectVars, mappingVars
  <1>1. WindowsTypeOK'
    BY DEF WindowsLabels
  <1>2. Roles' /\ HandlesKept'
    BY DEF Roles, HandlesKept, WindowsOneOwner, Holders
  <1>3. WindowsOneOwner'
    BY DEF WindowsOneOwner, Holders, Roles, HandlesKept
  <1>4. ConstructsIncomplete'
    BY DEF ConstructsIncomplete, WindowsOneOwner, Holders, Roles
  <1> QED
    BY <1>1, <1>2, <1>3, <1>4

\* and the rest.
LEMMA BuildRestInv ==
  ASSUME IInv, NEW p \in WindowsProcesses, BuildRest(p)
  PROVE  IInv'
  <1> USE Kinds DEF IInv, WindowsTypeOK, BuildRest, Enter, objectVars, mappingVars
  <1>1. WindowsTypeOK'
    BY DEF WindowsLabels
  <1>2. Roles' /\ HandlesKept'
    BY DEF Roles, HandlesKept, WindowsOneOwner, Holders
  <1>3. WindowsOneOwner'
    BY DEF WindowsOneOwner, Holders, Roles, HandlesKept
  <1>4. ConstructsIncomplete'
    BY DEF ConstructsIncomplete, WindowsOneOwner, Holders, Roles
  <1> QED
    BY <1>1, <1>2, <1>3, <1>4

\* A status call opens the semaphore if there is one
LEMMA ProbeOpenInv ==
  ASSUME IInv, NEW p \in WindowsProcesses, ProbeOpen(p)
  PROVE  IInv'
  <1> USE Kinds DEF IInv, WindowsTypeOK, ProbeOpen, Enter, objectVars, mappingVars
  <1>1. WindowsTypeOK'
    BY DEF WindowsLabels
  <1>2. Roles' /\ HandlesKept'
    BY DEF Roles, HandlesKept, WindowsOneOwner, Holders
  <1>3. WindowsOneOwner'
    BY DEF WindowsOneOwner, Holders, Roles, HandlesKept
  <1>4. ConstructsIncomplete'
    BY DEF ConstructsIncomplete, WindowsOneOwner, Holders, Roles
  <1> QED
    BY <1>1, <1>2, <1>3, <1>4

\* and takes the count if it is there.
LEMMA ProbeWaitInv ==
  ASSUME IInv, NEW p \in WindowsProcesses, ProbeWait(p)
  PROVE  IInv'
  <1> USE Kinds DEF IInv, WindowsTypeOK, ProbeWait, Enter, objectVars, mappingVars
  <1>1. WindowsTypeOK'
    BY DEF WindowsLabels
  <1>2. Roles' /\ HandlesKept'
    BY DEF Roles, HandlesKept, WindowsOneOwner, Holders
  <1>3. WindowsOneOwner'
    BY DEF WindowsOneOwner, Holders, Roles, HandlesKept
  <1>4. ConstructsIncomplete'
    BY DEF ConstructsIncomplete, WindowsOneOwner, Holders, Roles
  <1> QED
    BY <1>1, <1>2, <1>3, <1>4

\* An owner that unmaps the block still holds the semaphore.
LEMMA UnmapInv ==
  ASSUME IInv, NEW p \in WindowsProcesses, Unmap(p)
  PROVE  IInv'
  <1> USE Kinds DEF IInv, WindowsTypeOK, Unmap, Enter, objectVars, mappingVars
  <1>1. WindowsTypeOK'
    BY DEF WindowsLabels
  <1>2. Roles' /\ HandlesKept'
    BY DEF Roles, HandlesKept, WindowsOneOwner, Holders
  <1>3. WindowsOneOwner'
    BY DEF WindowsOneOwner, Holders, Roles, HandlesKept
  <1>4. ConstructsIncomplete'
    BY DEF ConstructsIncomplete, WindowsOneOwner, Holders, Roles
  <1> QED
    BY <1>1, <1>2, <1>3, <1>4

\* The holder gives the count back: nobody else is one.
LEMMA ReleaseInv ==
  ASSUME IInv, NEW p \in WindowsProcesses, Release(p)
  PROVE  IInv'
  <1> USE Kinds DEF IInv, WindowsTypeOK, Release, Enter, objectVars, mappingVars
  <1>1. WindowsTypeOK'
    BY DEF WindowsLabels
  <1>2. Roles' /\ HandlesKept'
    BY DEF Roles, HandlesKept, WindowsOneOwner, Holders
  <1>3. WindowsOneOwner'
    BY DEF WindowsOneOwner, Holders, Roles, HandlesKept
  <1>4. ConstructsIncomplete'
    BY DEF ConstructsIncomplete, WindowsOneOwner, Holders, Roles
  <1> QED
    BY <1>1, <1>2, <1>3, <1>4

\* Who leaves is no holder any more.
LEMMA LeaveInv ==
  ASSUME IInv, NEW p \in WindowsProcesses, Leave(p)
  PROVE  IInv'
  <1> USE Kinds DEF IInv, WindowsTypeOK, Leave, Enter, objectVars, mappingVars
  <1>1. WindowsTypeOK'
    BY DEF WindowsLabels
  <1>2. Roles' /\ HandlesKept'
    BY DEF Roles, HandlesKept, WindowsOneOwner, Holders
  <1>3. WindowsOneOwner'
    BY DEF WindowsOneOwner, Holders, Roles, HandlesKept
  <1>4. ConstructsIncomplete'
    BY DEF ConstructsIncomplete, WindowsOneOwner, Holders, Roles
  <1> QED
    BY <1>1, <1>2, <1>3, <1>4

\* A killed process takes its handles along, not the count.
LEMMA DieInv ==
  ASSUME IInv, NEW p \in WindowsProcesses, Die(p)
  PROVE  IInv'
  <1> USE Kinds DEF IInv, WindowsTypeOK, Die, Enter, objectVars, mappingVars
  <1>1. WindowsTypeOK'
    BY DEF WindowsLabels
  <1>2. Roles' /\ HandlesKept'
    BY DEF Roles, HandlesKept, WindowsOneOwner, Holders
  <1>3. WindowsOneOwner'
    BY DEF WindowsOneOwner, Holders, Roles, HandlesKept
  <1>4. ConstructsIncomplete'
    BY DEF ConstructsIncomplete, WindowsOneOwner, Holders, Roles
  <1> QED
    BY <1>1, <1>2, <1>3, <1>4

\* Every step keeps the invariant.
LEMMA NextInv == IInv /\ [WindowsNext]_windowsVars => IInv'
  <1> SUFFICES ASSUME IInv, [WindowsNext]_windowsVars PROVE IInv'
    OBVIOUS
  <1>1. ASSUME NEW p \in WindowsProcesses, Step(p) PROVE IInv'
    BY <1>1, CreateSemaphoreInv, WaitInv, CreateMappingInv, OpenMappingInv, ViewInv,
       BuildHeaderInv, BuildRestInv, ProbeOpenInv, ProbeWaitInv, UnmapInv, ReleaseInv,
       LeaveInv, DieInv DEF Step
  <1>2. CASE UNCHANGED windowsVars
    BY <1>2 DEF windowsVars, objectVars, mappingVars, IInv, WindowsTypeOK, Roles, HandlesKept, WindowsOneOwner,
                Holders, ConstructsIncomplete
  <1> QED
    BY <1>1, <1>2 DEF WindowsNext

\* The invariant holds throughout.
LEMMA AlwaysInv == WindowsSpec => []IInv
  BY InitInv, NextInv, PTL DEF WindowsSpec

----------------------------------------------------------------------------
\* However many engines start, stop and are killed and however often status
\* calls borrow the count, two processes never own the block at once, and while
\* one does the count is taken (SharedAudioMemory::open, ownerActive, close as
\* built for Windows).
THEOREM SemaphoreHasOneOwner == WindowsSpec => []WindowsOneOwner
  <1>1. IInv => WindowsOneOwner
    BY DEF IInv
  <1> QED
    BY <1>1, AlwaysInv, PTL

\* A step constructs the block only where it was not complete.
LEMMA StepKeepsBlock ==
  ASSUME IInv, NEW p \in WindowsProcesses, Step(p)
  PROVE  KeepsBlock
  <1> USE DEF IInv, KeepsBlock, objectVars, mappingVars
  <1>1. CASE CreateMapping(p)
    BY <1>1 DEF CreateMapping
  <1>2. CASE BuildHeader(p)
    BY <1>2 DEF BuildHeader, ConstructsIncomplete
  <1>3. CASE BuildRest(p)
    BY <1>3 DEF BuildRest
  <1>4. CASE CreateSemaphore(p) \/ Wait(p) \/ OpenMapping(p) \/ View(p)
    BY <1>4 DEF CreateSemaphore, Wait, OpenMapping, View
  <1>5. CASE ProbeOpen(p) \/ ProbeWait(p) \/ Unmap(p) \/ Release(p) \/ Leave(p) \/ Die(p)
    BY <1>5 DEF ProbeOpen, ProbeWait, Unmap, Release, Leave, Die
  <1> QED
    BY <1>1, <1>2, <1>3, <1>4, <1>5 DEF Step

\* A complete block that some process has open is never constructed again, also
\* after its owner was killed: what goes wrong on Unix, where the size is looked
\* at before the lock is taken, cannot happen here (SharedAudioMemory::open as
\* built for Windows).
THEOREM WindowsKeepsBlock == WindowsSpec => WindowsBlockKept
  <1>1. IInv /\ [WindowsNext]_windowsVars => [KeepsBlock]_windowsVars
    BY StepKeepsBlock DEF WindowsNext
  <1> QED
    BY <1>1, AlwaysInv, PTL DEF WindowsSpec, WindowsBlockKept
=============================================================================
