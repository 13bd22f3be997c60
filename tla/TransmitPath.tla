---------------------------- MODULE TransmitPath ----------------------------
(***************************************************************************)
(* LiveEngine from start() to stop() as its transmitting threads see it:   *)
(* one transmitLoop per bank opens its socket, joins the epoch that all    *)
(* banks share, waits until the last one has joined, and sends until a     *)
(* send fails; stop() clears running_ and joins the threads.  setTxActive  *)
(* counts the active banks in activeTransmitters_ and keeps the block's    *)
(* txActive, with a separate store after each change of the count;         *)
(* setRxActive is the same code over the receiving threads.                *)
(*                                                                         *)
(* Time is left out.  What a packet holds is in FramePath, the other       *)
(* threads are in ReceivePath, SessionDirectory and PTPClient.             *)
(***************************************************************************)
EXTENDS Naturals, FiniteSets

CONSTANT Banks  \* 0 .. streamCount - 1

ASSUME BanksAssumption == IsFiniteSet(Banks) /\ Banks # {}

VARIABLES running,     \* running_
          main,        \* who is in start() or stop(), or neither
          readyCount, epochReady,  \* transmitReadyCount_, transmitEpochReady_
          joined,      \* runtime.txEpochJoined
          pc,          \* where each transmitLoop is, "none" before its thread
          active,      \* runtime.txActive
          activeTransmitters, txActive

epochVars == <<readyCount, epochReady, joined>>
flagVars == <<active, activeTransmitters, txActive>>
vars == <<running, main, epochVars, pc, flagVars>>

Init ==
    /\ running = FALSE /\ main = "stopped"
    /\ readyCount = 0 /\ epochReady = FALSE
    /\ joined = [b \in Banks |-> FALSE]
    /\ pc = [b \in Banks |-> "none"]
    /\ active = [b \in Banks |-> FALSE]
    /\ activeTransmitters = 0 /\ txActive = FALSE

Goto(b, label) == pc' = [pc EXCEPT ![b] = label]

----------------------------------------------------------------------------
(* start() and stop()                                                      *)

\* Mutant of Start: the epoch of the last run stays ready.
StartKeepsEpoch ==
    /\ main = "stopped" /\ ~running
    /\ running' = TRUE /\ main' = "starting"
    /\ activeTransmitters' = 0 /\ readyCount' = 0
    /\ UNCHANGED <<epochReady, joined, pc, active, txActive>>

\* start() up to its loop over the banks
Start ==
    /\ main = "stopped" /\ ~running
    /\ running' = TRUE /\ main' = "starting"
    /\ activeTransmitters' = 0 /\ readyCount' = 0 /\ epochReady' = FALSE
    /\ UNCHANGED <<joined, pc, active, txActive>>

\* A bank's runtime and thread
Spawn(b) ==
    /\ main = "starting" /\ pc[b] = "none"
    /\ Goto(b, "open")
    /\ main' = IF \A other \in Banks \ {b} : pc[other] # "none" THEN "started" ELSE main
    /\ UNCHANGED <<running, epochVars, flagVars>>

\* stop(), called on a running engine, or by start() when a thread cannot be
\* created
Stop ==
    /\ main \in {"starting", "started"}
    /\ running' = FALSE /\ main' = "stopping"
    /\ UNCHANGED <<epochVars, pc, flagVars>>

\* All threads are joined; the flags; streams_.clear()
Stopped ==
    /\ main = "stopping" /\ \A b \in Banks : pc[b] \in {"none", "exited"}
    /\ txActive' = FALSE
    /\ pc' = [b \in Banks |-> "none"]
    /\ joined' = [b \in Banks |-> FALSE] /\ active' = [b \in Banks |-> FALSE]
    /\ main' = "stopped"
    /\ UNCHANGED <<running, readyCount, epochReady, activeTransmitters>>

----------------------------------------------------------------------------
(* transmitLoop                                                            *)

\* `while (running_)` at the head of the loop
LoopEnds(b) ==
    /\ pc[b] = "open" /\ ~running
    /\ Goto(b, "exited")
    /\ UNCHANGED <<running, main, epochVars, flagVars>>

\* openTransmitter fails: the bank is not active, and tries again later.
OpenFails(b) ==
    /\ pc[b] = "open" /\ running
    /\ UNCHANGED vars

\* openTransmitter succeeds, and setTxActive(true) counts the bank ...
Opens(b) ==
    /\ pc[b] = "open" /\ running
    /\ active' = [active EXCEPT ![b] = TRUE]
    /\ activeTransmitters' = activeTransmitters + (IF active[b] THEN 0 ELSE 1)
    /\ Goto(b, IF active[b] THEN "join" ELSE "flag")
    /\ UNCHANGED <<running, main, epochVars, txActive>>

\* ... and sets the flag.
SetsFlag(b) ==
    /\ pc[b] = "flag"
    /\ txActive' = TRUE
    /\ Goto(b, "join")
    /\ UNCHANGED <<running, main, epochVars, active, activeTransmitters>>

\* Mutant of Joins: the count from before the increment is compared.
JoinsOffByOne(b) ==
    /\ pc[b] = "join"
    /\ joined' = [joined EXCEPT ![b] = TRUE]
    /\ readyCount' = readyCount + (IF joined[b] THEN 0 ELSE 1)
    /\ Goto(b, IF ~joined[b] /\ readyCount = Cardinality(Banks) THEN "epoch" ELSE "barrier")
    /\ UNCHANGED <<running, main, epochReady, flagVars>>

\* The epoch is joined once per thread, however often the socket is reopened.
Joins(b) ==
    /\ pc[b] = "join"
    /\ joined' = [joined EXCEPT ![b] = TRUE]
    /\ readyCount' = readyCount + (IF joined[b] THEN 0 ELSE 1)
    /\ Goto(b, IF ~joined[b] /\ readyCount + 1 = Cardinality(Banks) THEN "epoch" ELSE "barrier")
    /\ UNCHANGED <<running, main, epochReady, flagVars>>

\* The last bank to join stores the epoch, in plain members: it is at this
\* label while it does,
StoresEpoch(b) ==
    /\ pc[b] = "epoch"
    /\ Goto(b, "release")
    /\ UNCHANGED <<running, main, epochVars, flagVars>>

\* and releases the others.
ReleasesEpoch(b) ==
    /\ pc[b] = "release"
    /\ epochReady' = TRUE
    /\ Goto(b, "barrier")
    /\ UNCHANGED <<running, main, readyCount, joined, flagVars>>

\* Mutant of PassesBarrier: the wait does not look at running_ and polls on.
PassesBarrierOnlyReady(b) ==
    /\ pc[b] = "barrier"
    /\ Goto(b, IF ~epochReady THEN "barrier" ELSE IF running THEN "send" ELSE "exited")
    /\ UNCHANGED <<running, main, epochVars, flagVars>>

\* The wait for the epoch, and the test of running_ after it, which leaves
\* the loop without setTxActive(false)
PassesBarrier(b) ==
    /\ pc[b] = "barrier" /\ (epochReady \/ ~running)
    /\ Goto(b, IF running THEN "send" ELSE "exited")
    /\ UNCHANGED <<running, main, epochVars, flagVars>>

\* A packet is put together, stamped from transmitEpoch_ and sent.
Sends(b) ==
    /\ pc[b] = "send" /\ running
    /\ UNCHANGED vars

\* Sending fails, or the engine is being stopped: setTxActive(false) uncounts
\* the bank,
StopsSending(b) ==
    /\ pc[b] = "send"
    /\ active' = [active EXCEPT ![b] = FALSE]
    /\ activeTransmitters' = activeTransmitters - 1
    /\ Goto(b, IF activeTransmitters = 1 THEN "unflag" ELSE "open")
    /\ UNCHANGED <<running, main, epochVars, txActive>>

\* and clears the flag when it was the last one.
ClearsFlag(b) ==
    /\ pc[b] = "unflag"
    /\ txActive' = FALSE
    /\ Goto(b, "open")
    /\ UNCHANGED <<running, main, epochVars, active, activeTransmitters>>

Bank(b) == LoopEnds(b) \/ OpenFails(b) \/ Opens(b) \/ SetsFlag(b) \/ Joins(b) \/ StoresEpoch(b)
           \/ ReleasesEpoch(b) \/ PassesBarrier(b) \/ Sends(b) \/ StopsSending(b) \/ ClearsFlag(b)

Next == Start \/ (\E b \in Banks : Spawn(b) \/ Bank(b)) \/ Stop \/ Stopped

\* What a bank's thread does without anything failing
Runs(b) == LoopEnds(b) \/ Opens(b) \/ SetsFlag(b) \/ Joins(b) \/ StoresEpoch(b)
           \/ ReleasesEpoch(b) \/ PassesBarrier(b) \/ ClearsFlag(b)

\* The threads run; a socket that can be opened again and again fails is
\* opened at last (OpenFails is a stuttering step), and sending need not fail.
Fairness ==
    /\ WF_vars(Stopped)
    /\ \A b \in Banks :
          /\ WF_vars(Spawn(b))
          /\ WF_vars(Runs(b))
          /\ WF_vars(~running /\ StopsSending(b))

Spec == Init /\ [][Next]_vars /\ Fairness

----------------------------------------------------------------------------
(* Properties.                                                             *)

\* Every variable has its type; the count of active banks is a size_t that
\* does not go below zero.
TypeOK ==
    /\ running \in BOOLEAN
    /\ main \in {"stopped", "starting", "started", "stopping"}
    /\ readyCount \in 0 .. Cardinality(Banks) /\ epochReady \in BOOLEAN
    /\ joined \in [Banks -> BOOLEAN] /\ active \in [Banks -> BOOLEAN]
    /\ pc \in [Banks -> {"none", "open", "flag", "join", "epoch", "release", "barrier", "send",
                         "unflag", "exited"}]
    /\ activeTransmitters \in 0 .. Cardinality(Banks) /\ txActive \in BOOLEAN

\* Banks that send do so from one epoch: nobody stores transmitEpoch_, which is
\* no atomic, while a bank that has passed the barrier reads it, and in every
\* run of the engine each bank has joined before any of them sends
\* (LiveEngine.cpp:295-306, :320-321).
SharedEpoch ==
    \A b \in Banks : pc[b] = "send" =>
        /\ epochReady /\ \A other \in Banks : pc[other] \notin {"epoch", "release"}
        /\ \A other \in Banks : joined[other]

\* stop() returns: a bank that waits for the epoch, for instance because
\* another bank has no socket yet or its thread was never created, does not
\* keep it waiting (LiveEngine.cpp:304-305).
StopReturns == (main = "stopping") ~> (main = "stopped")

\* Every bank of a running engine comes to send: the barrier lets everybody
\* through once the last bank has its socket (LiveEngine.cpp:295-304).
AllTransmit ==
    \A b \in Banks : (main = "started") ~> (pc[b] = "send" \/ main # "started")
=============================================================================
