-------------------------- MODULE WindowsOwnership --------------------------
(***************************************************************************)
(* SharedAudioMemory as it is built for Windows: ownership is a named      *)
(* semaphore of count one, the block a named page-file mapping.  A named   *)
(* object lives as long as some process has a handle of it.  The death of  *)
(* a process closes its handles but gives no count back, so that the       *)
(* semaphore of a killed owner stays exhausted until the last handle of it *)
(* is closed, and is made anew by the next engine.                         *)
(*                                                                         *)
(* Engines call open(true), peers (the future audio endpoint) open(false), *)
(* and a status call opens the block like a peer and asks ownerActive().   *)
(* One call of the system is one step; any process may die between two.    *)
(* What an engine does with the block is in the other modules.             *)
(***************************************************************************)
EXTENDS Naturals

CONSTANTS EngineIds, PeerIds, ProbeIds

VARIABLES wPc,
          semHandles, count,   \* the semaphore: who has a handle, what is left
          mapHandles,          \* who has a handle of the mapping
          header, complete,    \* header valid; every member constructed
          wExisting            \* existingLayout, per process

objectVars == <<semHandles, count, mapHandles>>
mappingVars == <<header, complete>>
windowsVars == <<wPc, objectVars, mappingVars, wExisting>>

EngineProcesses == {"engine"} \X EngineIds
PeerProcesses == {"peer"} \X PeerIds
StatusCalls == {"status"} \X ProbeIds
WindowsProcesses == EngineProcesses \cup PeerProcesses \cup StatusCalls

WindowsLabels == {"idle", "wait", "create", "view", "header", "fill", "run", "unmap", "release", "leave"}

WindowsInit ==
    /\ wPc = [p \in WindowsProcesses |-> "idle"]
    /\ semHandles = {} /\ count = 0
    /\ mapHandles = {} /\ header = FALSE /\ complete = FALSE
    /\ wExisting = [p \in WindowsProcesses |-> FALSE]

Enter(p, label) == wPc' = [wPc EXCEPT ![p] = label]

----------------------------------------------------------------------------
(* open(true).                                                             *)

\* CreateSemaphoreW(1, 1): a new one has its count, an existing one keeps it.
CreateSemaphore(p) ==
    /\ p \in EngineProcesses /\ wPc[p] = "idle"
    /\ count' = IF semHandles = {} THEN 1 ELSE count
    /\ semHandles' = semHandles \cup {p}
    /\ Enter(p, "wait")
    /\ UNCHANGED <<mapHandles, mappingVars, wExisting>>

\* WaitForSingleObject(0).
Wait(p) ==
    /\ p \in EngineProcesses /\ wPc[p] = "wait"
    /\ IF count = 1 THEN count' = 0 /\ Enter(p, "create") ELSE Enter(p, "leave") /\ UNCHANGED count
    /\ UNCHANGED <<semHandles, mapHandles, mappingVars, wExisting>>

\* Mutant of CreateMapping: the last error is looked at too late.
CreateMappingForgets(p) ==
    /\ p \in EngineProcesses /\ wPc[p] = "create"
    /\ wExisting' = [wExisting EXCEPT ![p] = FALSE]
    /\ mapHandles' = mapHandles \cup {p}
    /\ IF mapHandles = {} THEN header' = FALSE /\ complete' = FALSE ELSE UNCHANGED mappingVars
    /\ Enter(p, "view")
    /\ UNCHANGED <<semHandles, count>>

\* CreateFileMappingW: a new mapping is all zero; or there is no memory.
CreateMapping(p) ==
    /\ p \in EngineProcesses /\ wPc[p] = "create"
    /\ \/ /\ wExisting' = [wExisting EXCEPT ![p] = (mapHandles # {})]
          /\ mapHandles' = mapHandles \cup {p}
          /\ IF mapHandles = {} THEN header' = FALSE /\ complete' = FALSE ELSE UNCHANGED mappingVars
          /\ Enter(p, "view")
       \/ /\ Enter(p, "release")
          /\ UNCHANGED <<mapHandles, mappingVars, wExisting>>
    /\ UNCHANGED <<semHandles, count>>

----------------------------------------------------------------------------
(* open(false), and what both ways of opening share.                       *)

\* OpenFileMappingW: there must be one.
OpenMapping(p) ==
    /\ p \in PeerProcesses \cup StatusCalls /\ wPc[p] = "idle"
    /\ mapHandles # {}
    /\ mapHandles' = mapHandles \cup {p}
    /\ wExisting' = [wExisting EXCEPT ![p] = TRUE]
    /\ Enter(p, "view")
    /\ UNCHANGED <<semHandles, count, mappingVars>>

\* MapViewOfFile and the comparison of the header: an owner constructs a block
\* that is not valid, another one closes it again; or the view fails.
View(p) ==
    /\ wPc[p] = "view"
    /\ \/ Enter(p, IF wExisting[p] /\ header THEN "run"
                   ELSE IF p \in EngineProcesses THEN "header" ELSE "unmap")
       \/ Enter(p, "unmap")
    /\ UNCHANGED <<objectVars, mappingVars, wExisting>>

\* new (block_) SharedAudioBlock{}: the header first, then the rest.
BuildHeader(p) ==
    /\ wPc[p] = "header"
    /\ header' = TRUE /\ complete' = FALSE
    /\ Enter(p, "fill")
    /\ UNCHANGED <<objectVars, wExisting>>

BuildRest(p) ==
    /\ wPc[p] = "fill"
    /\ complete' = TRUE
    /\ Enter(p, "run")
    /\ UNCHANGED <<objectVars, header, wExisting>>

----------------------------------------------------------------------------
(* ownerActive(), with the block open.                                     *)

\* OpenSemaphoreW: no semaphore, no owner.
ProbeOpen(p) ==
    /\ p \in StatusCalls /\ wPc[p] = "run"
    /\ IF semHandles = {} THEN Enter(p, "unmap") /\ UNCHANGED semHandles
                          ELSE Enter(p, "wait") /\ semHandles' = semHandles \cup {p}
    /\ UNCHANGED <<count, mapHandles, mappingVars, wExisting>>

\* Mutant of ProbeWait: the semaphore is released although it was not taken.
ProbeWaitReleases(p) ==
    /\ p \in StatusCalls /\ wPc[p] = "wait"
    /\ count' = 0 /\ Enter(p, "release")
    /\ UNCHANGED <<semHandles, mapHandles, mappingVars, wExisting>>

\* The count is taken for an instant if nobody has it.
ProbeWait(p) ==
    /\ p \in StatusCalls /\ wPc[p] = "wait"
    /\ IF count = 1 THEN count' = 0 /\ Enter(p, "release") ELSE Enter(p, "leave") /\ UNCHANGED count
    /\ UNCHANGED <<semHandles, mapHandles, mappingVars, wExisting>>

----------------------------------------------------------------------------
(* close().                                                                *)

\* The engine stops, the peer has done, or the block was not valid:
\* UnmapViewOfFile and CloseHandle of the mapping.
Unmap(p) ==
    /\ wPc[p] = "unmap" \/ (wPc[p] = "run" /\ p \notin StatusCalls)
    /\ mapHandles' = mapHandles \ {p}
    /\ Enter(p, IF p \in EngineProcesses THEN "release" ELSE "idle")
    /\ UNCHANGED <<semHandles, count, mappingVars, wExisting>>

\* ReleaseSemaphore.
Release(p) ==
    /\ wPc[p] = "release"
    /\ count' = 1
    /\ Enter(p, "leave")
    /\ UNCHANGED <<semHandles, mapHandles, mappingVars, wExisting>>

\* CloseHandle of the semaphore; a status call closes its block afterwards.
Leave(p) ==
    /\ wPc[p] = "leave"
    /\ semHandles' = semHandles \ {p}
    /\ Enter(p, IF p \in StatusCalls THEN "unmap" ELSE "idle")
    /\ UNCHANGED <<count, mapHandles, mappingVars, wExisting>>

\* The process is killed: its handles are closed, its count is not given back.
Die(p) ==
    /\ wPc[p] # "idle"
    /\ semHandles' = semHandles \ {p} /\ mapHandles' = mapHandles \ {p}
    /\ Enter(p, "idle")
    /\ UNCHANGED <<count, mappingVars, wExisting>>

Step(p) ==
    \/ CreateSemaphore(p) \/ Wait(p) \/ CreateMapping(p)
    \/ OpenMapping(p) \/ View(p) \/ BuildHeader(p) \/ BuildRest(p)
    \/ ProbeOpen(p) \/ ProbeWait(p)
    \/ Unmap(p) \/ Release(p) \/ Leave(p) \/ Die(p)

WindowsNext == \E p \in WindowsProcesses : Step(p)

WindowsSpec == WindowsInit /\ [][WindowsNext]_windowsVars

----------------------------------------------------------------------------
(* Properties.                                                             *)

\* Every variable has its type: who holds the semaphore and which mappings are open.
WindowsTypeOK ==
    /\ wPc \in [WindowsProcesses -> WindowsLabels]
    /\ semHandles \subseteq EngineProcesses \cup StatusCalls /\ count \in {0, 1}
    /\ mapHandles \subseteq WindowsProcesses
    /\ header \in BOOLEAN /\ complete \in BOOLEAN
    /\ wExisting \in [WindowsProcesses -> BOOLEAN]

\* Who has taken the count and has not given it back.
Holders ==
    {p \in EngineProcesses : wPc[p] \in {"create", "view", "header", "fill", "run", "unmap", "release"}}
    \cup {p \in StatusCalls : wPc[p] = "release"}

\* One process owns the block at a time, and while it does nobody else can,
\* although the semaphore forgets about owners that were killed, is made anew,
\* and is taken for an instant by status calls
\* (WindowsSharedAudioMemory.cpp:20-29, :65-80).
WindowsOneOwner ==
    /\ \A p, q \in Holders : p = q
    /\ Holders # {} => count = 0 /\ Holders \subseteq semHandles

\* A complete block is never constructed again while somebody has it open: the
\* semaphore is taken before the mapping is looked at
\* (WindowsSharedAudioMemory.cpp:22-32, :49).
KeepsBlock == complete /\ mapHandles # {} /\ mapHandles' # {} => complete'
WindowsBlockKept == [][KeepsBlock]_windowsVars
=============================================================================
