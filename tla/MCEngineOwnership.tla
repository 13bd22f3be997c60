------------------------- MODULE MCEngineOwnership -------------------------
(* SharedAudioMemory has two implementations, of which a build contains    *)
(* one: platform is which.  EngineOwnership is the one for Unix, with the  *)
(* driver and the clients it serves; WindowsOwnership the other.           *)
EXTENDS EngineOwnership, WindowsOwnership, TLC

Twins == Permutations(Engines)

VARIABLE platform

MCInit ==
    /\ platform \in {"unix", "windows"}
    /\ Init /\ WindowsInit
    /\ platform = "windows" => size = "none"

MCNext ==
    \/ platform = "unix" /\ Next /\ UNCHANGED <<platform, windowsVars>>
    \/ platform = "windows" /\ WindowsNext /\ UNCHANGED <<platform, vars>>

MCSpec == MCInit /\ [][MCNext]_<<platform, windowsVars, vars>>
=============================================================================
