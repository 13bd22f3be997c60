---------------------------- MODULE MCControlApp ----------------------------
(* The control application: the processes it starts (EngineController),    *)
(* with two engines of its own and one of another launcher, and the        *)
(* configuration it starts them with (BridgeConfiguration) scaled down to  *)
(* six channels, three banks, flows of one or two channels and ports up to *)
(* 4; addresses 1-2 are loopback and 4-9 multicast.  side is the one a     *)
(* behaviour is about: to EngineController a configuration is a name.      *)
EXTENDS EngineController, BridgeConfiguration

MCNewFlow == [port |-> 2, payload |-> 1, jitter |-> 2, channels |-> 2, rx |-> 6, tx |-> 9]

MCShape(id, banks, channels, rx, tx, port, stride, jitter, interface) ==
    [id |-> id, banks |-> banks, channels |-> channels, rx |-> rx, tx |-> tx,
     port |-> port, stride |-> stride, jitter |-> jitter, interface |-> interface]

MCProfiles == {MCShape("planet22c", 1, 2, 4, 7, 2, 0, 2, Unset),
               MCShape("computer-a", 3, 2, 4, 7, 2, 0, 2, Unset),
               MCShape("diagnostic-loopback", 1, 2, 1, 1, 3, 0, 3, "lo0")}

\* Saved after edits: an interface, a step of the port, one that saturates, one
\* that starts at the last port, and two banks on loopback.
MCStored == MCProfiles \cup
    {MCShape("planet22c", 1, 2, 4, 7, 2, 0, 2, "en0"),
     MCShape("planet22c-x4", 2, 1, 4, 7, 2, 1, 2, "en0"),
     MCShape("computer-a", 3, 1, 4, 7, 2, 2, 2, "en0"),
     MCShape("computer-a", 2, 2, 4, 7, 4, 0, 2, "en0"),
     MCShape("diagnostic-loopback", 2, 1, 1, 1, 3, 0, 3, "lo0")}

MCSessions == {[address |-> 5, port |-> 2, payload |-> 1, channels |-> 1, source |-> Unset],
               [address |-> 4, port |-> 3, payload |-> 2, channels |-> 2, source |-> 3]}

MCTyped == [enabled |-> BOOLEAN, named |-> {FALSE}, address |-> {0, 2, 3, 5, 8},
            port |-> {0, 1, 3, 4}, payload |-> {1, 2, 3}, channels |-> {1, 2},
            start |-> {0, 1, 2, 3, 6}, jitter |-> {1, 3}]

MCOptions == [interface : {Unset, "en0"}, streams : 0 .. 4, channels : 1 .. 3, start : {0, 1, 2, 5},
              rx : {0, 1, 9}, tx : {4}, rxPort : {0, 3, 5}, txPort : {4}, stride : 0 .. 2, source : {Unset},
              rxPayload : {1, 3}, txPayload : {1}, jitter : {1, 2}]

VARIABLE side

MCInit ==
    /\ side \in {"processes", "configuration"}
    /\ Init /\ EditorInit
    /\ side = "configuration" \/ launcher = "terminal"

Controls(A) == side = "processes" /\ A /\ UNCHANGED <<side, editorVars>>

\* An engine that was launched goes on with what it was launched with.
Edits == /\ side = "configuration"
         /\ (EditorNext \/ (options # Unset /\ UNCHANGED editorVars))
         /\ UNCHANGED <<side, vars>>

MCVars == <<side, vars, editorVars>>

\* Fairness of EngineController, for its behaviours.
MCFairness ==
    /\ WF_MCVars(Controls(Command))
    /\ \A p \in Engines : WF_MCVars(Controls(Advances(p)))

MCSpec == MCInit /\ [][Controls(Next) \/ Edits]_MCVars /\ MCFairness
=============================================================================
