-------------------------- MODULE EngineController --------------------------
(***************************************************************************)
(* The control application as the parent of engine processes: start, stop  *)
(* and restart of EngineController, the stop on exit, and an application   *)
(* that is killed and launched again, against engines that take their time *)
(* to start, fail, crash and stop, and against the engine of another       *)
(* launcher (a second instance, the legacy manager, a terminal).           *)
(*                                                                         *)
(* Commands are synchronous and run on the application's main thread, so   *)
(* one is handled at a time; the engines go on meanwhile.  An engine holds *)
(* the lock of the shared memory from open() until its process ends, and   *)
(* sets engineRunning there from early in start() until late in stop(); a  *)
(* crash leaves it set.  A status call is one step although it tries the   *)
(* lock and then reads the flag: only who has the lock sets it, so a call  *)
(* that sees both sees what was there at one moment.  It may fail, which   *)
(* the application takes for "not running".  On Windows stop() kills at    *)
(* once; this is the Unix branch.                                          *)
(***************************************************************************)
EXTENDS Naturals, FiniteSets

CONSTANTS Processes,      \* engine processes this application may spawn
          Rival,          \* the engine of another launcher
          Configurations, \* configurations the user may start
          None,
          MaxPolls        \* status calls start() makes: 30 in the code

ASSUME ControllerAssumption == MaxPolls \in Nat \ {0} /\ Rival \notin Processes /\ None \notin Processes

VARIABLES open,       \* whether the application runs
          pc, command, argument, polls,  \* the command it is handling
          child,      \* EngineController.child
          held,       \* the child stop() has taken out of it
          proc,       \* state of each engine process
          term,       \* gStopRequested of each
          engineRunning, \* of the shared block
          probing,    \* another launcher's status call holds the lock
          launched,   \* the configuration each was started with
          ours,       \* processes whose --parent-pid is this application
          result,     \* history: what the last command returned
          lost        \* history: processes dropped because try_wait failed

Engines == Processes \cup {Rival}
commandVars == <<pc, command, argument, polls>>
engineVars == <<proc, term, launched, engineRunning, probing>>
vars == <<open, commandVars, child, held, engineVars, ours, result, lost>>

Init ==
    /\ open = TRUE
    /\ pc = "idle" /\ command = "none" /\ argument = None /\ polls = 0
    /\ child = None /\ held = None
    /\ proc = [p \in Engines |-> "dead"] /\ term = [p \in Engines |-> FALSE]
    /\ launched = [p \in Engines |-> None]
    /\ engineRunning \in BOOLEAN /\ probing = FALSE  \* what an earlier engine left
    /\ ours = {} /\ result = "none" /\ lost = {}

Alive(p) == proc[p] # "dead"

\* It holds the lock: it has opened the memory (locked), is creating its threads
\* (active), runs, joins them (stopping), or has cleared engineRunning (leaving).
Owns(p) == proc[p] \in {"locked", "active", "running", "stopping", "leaving"}
Living == {p \in Processes : Alive(p)}

----------------------------------------------------------------------------
(* Engine processes                                                        *)

\* Mutant of ParentAlive: the parent is not watched.
ParentIgnored(p) == TRUE

\* processIsAlive(parentProcessId); the other launcher passes no parent
ParentAlive(p) == p = Rival \/ p \in ours

Becomes(p, state) == proc' = [proc EXCEPT ![p] = state] /\ UNCHANGED term

\* open(true) takes the lock.
Own(p) ==
    /\ proc[p] = "starting" /\ ~probing /\ \A q \in Engines : ~Owns(q)
    /\ Becomes(p, "locked")
    /\ UNCHANGED engineRunning

\* An option, the interface or the shared memory is refused.
Refuse(p) ==
    /\ proc[p] \in {"starting", "locked"}
    /\ Becomes(p, "dead")
    /\ UNCHANGED engineRunning

Activate(p) ==
    /\ proc[p] = "locked"
    /\ Becomes(p, "active")
    /\ engineRunning' = TRUE

\* start() has its threads and the signals their handlers, or a thread cannot be
\* created and start() calls stop().
EndStart(p) ==
    /\ proc[p] = "active"
    /\ Becomes(p, "running") \/ Becomes(p, "stopping")
    /\ UNCHANGED engineRunning

\* The main loop ends; LiveEngine::stop() joins the threads.
BeginStop(p) ==
    /\ proc[p] = "running" /\ (term[p] \/ ~ParentAlive(p))
    /\ Becomes(p, "stopping")
    /\ UNCHANGED engineRunning

\* They have ended.
Deactivate(p) ==
    /\ proc[p] = "stopping"
    /\ Becomes(p, "leaving")
    /\ engineRunning' = FALSE

EndStop(p) ==
    /\ proc[p] = "leaving"
    /\ Becomes(p, "dead")
    /\ UNCHANGED engineRunning

Crash(p) ==
    /\ Owns(p)
    /\ Becomes(p, "dead")
    /\ UNCHANGED engineRunning

Progress(p) ==
    \/ Own(p) \/ Refuse(p) \/ Activate(p) \/ EndStart(p)
    \/ BeginStop(p) \/ Deactivate(p) \/ EndStop(p)

EngineStep(p) ==
    /\ Progress(p) \/ Crash(p)
    /\ UNCHANGED <<open, commandVars, child, held, launched, probing, ours, result, lost>>

\* The other launcher starts its engine, asks it to stop, or asks for the status:
\* the call tries the lock, and has it for a moment when it is free.
RivalStep ==
    /\ \/ /\ proc[Rival] = "dead"
          /\ proc' = [proc EXCEPT ![Rival] = "starting"] /\ term' = [term EXCEPT ![Rival] = FALSE]
          /\ UNCHANGED probing
       \/ /\ proc[Rival] = "running" /\ ~term[Rival]
          /\ term' = [term EXCEPT ![Rival] = TRUE] /\ UNCHANGED <<proc, probing>>
       \/ /\ probing \/ \A q \in Engines : ~Owns(q)
          /\ probing' = ~probing /\ UNCHANGED <<proc, term>>
    /\ UNCHANGED <<open, commandVars, child, held, launched, engineRunning, ours, result, lost>>

----------------------------------------------------------------------------
(* Commands                                                                *)

\* ownerActive(): the lock is held, by an engine or by another status call.
OwnerActive == probing \/ \E p \in Engines : Owns(p)

\* Mutant of StatusAnswers: the flag alone shows an engine.
StatusUnlocked == {FALSE, engineRunning}

\* What status().running may be: a call that fails shows no engine.
StatusAnswers == {FALSE, OwnerActive /\ engineRunning}

Return(r) ==
    /\ pc' = "idle" /\ command' = "none" /\ polls' = 0 /\ argument' = None
    /\ result' = r

\* The user clicks, or the application is asked to exit.
Invoke ==
    /\ open /\ pc = "idle"
    /\ \/ /\ \E c \in Configurations : argument' = c
          /\ \/ command' = "start" /\ pc' = "status"
             \/ command' = "restart" /\ pc' = "take"
       \/ command' \in {"stop", "exit"} /\ pc' = "take" /\ UNCHANGED argument
    /\ result' = "none"
    /\ UNCHANGED <<open, polls, child, held, engineVars, ours, lost>>

\* start(): an engine that runs is left alone.
StartStatus ==
    /\ pc = "status"
    /\ \/ TRUE \in StatusAnswers /\ Return("refused")
       \/ FALSE \in StatusAnswers /\ pc' = "slot" /\ UNCHANGED <<command, argument, polls, result>>
    /\ UNCHANGED <<open, child, held, engineVars, ours, lost>>

\* Mutant of StartSlot: whatever is in the slot is forgotten.
StartSlotForgets ==
    /\ pc = "slot"
    /\ child' = None /\ pc' = "spawn"
    /\ UNCHANGED <<open, command, argument, polls, held, engineVars, ours, result, lost>>

\* The previous child has ended, or has not, or try_wait fails and it is dropped.
StartSlot ==
    /\ pc = "slot"
    /\ \/ /\ child \notin Living
          /\ child' = None /\ pc' = "spawn"
          /\ UNCHANGED <<command, argument, polls, result, lost>>
       \/ /\ child \in Living
          /\ Return("refused")
          /\ UNCHANGED <<child, lost>>
       \/ /\ child # None
          /\ Return("refused")
          /\ child' = None /\ lost' = lost \cup {child}
    /\ UNCHANGED <<open, held, engineVars, ours>>

Spawn ==
    /\ pc = "spawn"
    /\ \E p \in Processes :
          /\ ~Alive(p)
          /\ proc' = [proc EXCEPT ![p] = "starting"] /\ term' = [term EXCEPT ![p] = FALSE]
          /\ launched' = [launched EXCEPT ![p] = argument]
          /\ ours' = ours \cup {p} /\ lost' = lost \ {p}
          /\ child' = p
    /\ pc' = "poll"
    /\ UNCHANGED <<open, command, argument, polls, held, engineRunning, probing, result>>

\* The engine or the log cannot be opened, or arguments_for refuses.
SpawnFails ==
    /\ pc = "spawn"
    /\ Return("refused")
    /\ UNCHANGED <<open, child, held, engineVars, ours, lost>>

\* Mutant of Poll: start() gives up without stopping what it started.
PollAbandons ==
    /\ pc = "poll"
    /\ \/ /\ polls < MaxPolls /\ TRUE \in StatusAnswers /\ Return("started")
       \/ /\ polls < MaxPolls /\ FALSE \in StatusAnswers
          /\ polls' = polls + 1 /\ UNCHANGED <<pc, command, argument, result>>
       \/ /\ polls = MaxPolls
          /\ Return("failed")
    /\ UNCHANGED <<open, child, held, engineVars, ours, lost>>

\* Mutant of Poll: start() waits for the engine as long as it takes.
PollForever ==
    /\ pc = "poll"
    /\ TRUE \in StatusAnswers /\ Return("started")
    /\ UNCHANGED <<open, child, held, engineVars, ours, lost>>

\* The engine is given MaxPolls calls to show up; then it is stopped.
Poll ==
    /\ pc = "poll"
    /\ \/ /\ polls < MaxPolls /\ TRUE \in StatusAnswers /\ Return("started")
       \/ /\ polls < MaxPolls /\ FALSE \in StatusAnswers
          /\ polls' = polls + 1 /\ UNCHANGED <<pc, command, argument, result>>
       \/ /\ polls = MaxPolls
          /\ command' = "giveUp" /\ pc' = "take" /\ UNCHANGED <<argument, polls, result>>
    /\ UNCHANGED <<open, child, held, engineVars, ours, lost>>

\* What follows stop(): start() for a restart that succeeded so far, the end of
\* the application on exit, the error for a start that gave up.
AfterStop(ok) ==
    CASE command = "restart" /\ ok ->
            pc' = "status" /\ command' = "start" /\ UNCHANGED <<argument, polls, open, ours, result>>
      [] command = "exit" -> Return("exited") /\ open' = FALSE /\ ours' = {}
      [] command = "giveUp" -> Return("failed") /\ UNCHANGED <<open, ours>>
      [] OTHER -> Return(IF ok THEN "stopped" ELSE "refused") /\ UNCHANGED <<open, ours>>

\* stop() without a child: an engine of somebody else is an error.
StopNothing ==
    /\ pc = "take" /\ child = None
    /\ \E running \in StatusAnswers : AfterStop(~running)
    /\ UNCHANGED <<child, held, engineVars, lost>>

\* stop() takes the child and sends SIGTERM, whose handler is installed after
\* LiveEngine::start(): before that the signal ends the process.  That kill
\* cannot be run is ignored.
StopTerm ==
    /\ pc = "take" /\ child # None
    /\ held' = child /\ child' = None
    /\ \/ proc[child] = "running" /\ term' = [term EXCEPT ![child] = TRUE] /\ UNCHANGED proc
       \/ proc[child] # "running" /\ Becomes(child, "dead")
       \/ UNCHANGED <<proc, term>>
    /\ pc' = "wait"
    /\ UNCHANGED <<open, command, argument, polls, launched, engineRunning, probing, ours, result, lost>>

\* try_wait finds that it has ended.
StopEnded ==
    /\ pc = "wait" /\ ~Alive(held)
    /\ held' = None
    /\ AfterStop(TRUE)
    /\ UNCHANGED <<child, engineVars, lost>>

\* try_wait, or kill() after the deadline, fails; the child is dropped.
StopWaitFails ==
    /\ pc = "wait"
    /\ held' = None /\ lost' = lost \cup {held}
    /\ AfterStop(FALSE)
    /\ UNCHANGED <<child, engineVars>>

\* After two seconds: kill() and wait().
StopDeadline ==
    /\ pc = "wait" /\ Alive(held)
    /\ proc' = [proc EXCEPT ![held] = "dead"]
    /\ held' = None
    /\ AfterStop(TRUE)
    /\ UNCHANGED <<child, term, launched, engineRunning, probing, lost>>

Command == StartStatus \/ StartSlot \/ Spawn \/ SpawnFails \/ Poll
           \/ StopNothing \/ StopTerm \/ StopEnded \/ StopWaitFails \/ StopDeadline

\* The application is killed; nobody stops its engines but they themselves.
Killed ==
    /\ open
    /\ open' = FALSE
    /\ Return("none")
    /\ child' = None /\ held' = None /\ ours' = {}
    /\ UNCHANGED <<engineVars, lost>>

Relaunched ==
    /\ ~open
    /\ open' = TRUE
    /\ child' = None /\ result' = "none" /\ lost' = {}
    /\ UNCHANGED <<commandVars, held, engineVars, ours>>

----------------------------------------------------------------------------
Next == Invoke \/ Command \/ Killed \/ Relaunched \/ RivalStep
        \/ \E p \in Engines : EngineStep(p)

Advances(p) ==
    Progress(p) /\ UNCHANGED <<open, commandVars, child, held, launched, probing, ours, result, lost>>

\* The main thread works a command off; an engine's main thread looks at its
\* parent and at gStopRequested once a second, start() and stop() return.
Fairness ==
    /\ WF_vars(Command)
    /\ \A p \in Engines : WF_vars(Advances(p))

Spec == Init /\ [][Next]_vars /\ Fairness

----------------------------------------------------------------------------
(* Properties.                                                             *)

\* Every variable has its type; start() makes at most MaxPolls status calls.
TypeOK ==
    /\ open \in BOOLEAN
    /\ pc \in {"idle", "status", "slot", "spawn", "poll", "take", "wait"}
    /\ command \in {"none", "start", "restart", "stop", "exit", "giveUp"}
    /\ argument \in Configurations \cup {None} /\ polls \in 0 .. MaxPolls
    /\ child \in Processes \cup {None} /\ held \in Processes \cup {None}
    /\ proc \in [Engines -> {"dead", "starting", "locked", "active", "running", "stopping", "leaving"}]
    /\ engineRunning \in BOOLEAN /\ probing \in BOOLEAN
    /\ term \in [Engines -> BOOLEAN] /\ launched \in [Engines -> Configurations \cup {None}]
    /\ ours \subseteq Processes /\ lost \subseteq Processes
    /\ result \in {"none", "started", "refused", "failed", "stopped", "exited"}

\* The application never loses track of an engine it has started: one that
\* lives is in the slot, or stop() has it, unless try_wait failed on it
\* (engine.rs:186-196, :232, :247-272).
NoEngineForgotten ==
    \A p \in ours : Alive(p) => p \in {child, held} \cup lost

\* A start, or restart, that reports success has started an engine that holds the
\* shared memory, with the configuration it was given, and has not told it to
\* stop, whatever an engine that crashed has left in the block; as far as no
\* engine of another launcher, lost one or one of an earlier instance of the
\* application is alive, and no other status call holds the lock meanwhile
\* (engine.rs:177-225, :276-279, EngineMain.cpp:183-184).
StartedIsOurs ==
    [][ result' = "started" /\ result # "started"
        /\ ~probing /\ (\A p \in Engines : Alive(p) => p \in ours \ lost)
          => child # None /\ Owns(child) /\ ~term[child] /\ launched[child] = argument ]_vars

\* Once a start has failed, or stop has reported success, no engine of this
\* application is alive but one that was lost (engine.rs:230-235, :239-274).
NothingLeftBehind ==
    result \in {"failed", "stopped"} => \A p \in ours : Alive(p) => p \in lost

\* An engine whose application has ended, by exit or by a crash, at any point of
\* a command, ends too (EngineMain.cpp:274-281).
OrphansEnd ==
    \A p \in Processes : (Alive(p) /\ p \notin ours) ~> ~Alive(p)

\* Every command returns, however long an engine takes to start or to stop
\* (engine.rs:218-229, :260-273).
CommandsReturn == (pc # "idle") ~> (pc = "idle")
=============================================================================
