-------------------------- MODULE SessionDirectory --------------------------
(***************************************************************************)
(* The table of sessions discovered by SAP, in the memory the engine       *)
(* shares with the processes that show its status.  One thread of the      *)
(* engine, sapDiscoveryLoop, writes it (SessionDirectory::upsert, erase    *)
(* and expire); any process reads a slot with snapshotSlot.  A slot is     *)
(* protected by a revision that is odd while it is being written.          *)
(*                                                                         *)
(* A slot's fields are two groups that a write stores one after the other: *)
(* the numbers and the texts.  Both carry the entry they come from, so     *)
(* that a mixture of two entries can be told.  The 32-bit revision is kept *)
(* as its parity, and a reader's `before == after` as "not incremented     *)
(* since I loaded it": the two agree while fewer than 2^32 increments      *)
(* happen during one snapshot.                                             *)
(***************************************************************************)
EXTENDS Naturals, FiniteSets, FiniteSetsExt

CONSTANTS SlotCount,   \* kMaximumDiscoveredSessions
          Keys,        \* pairs of message hash and origin address
          NoKey,       \* the zeroed fields of an unused slot
          Timeout,     \* sapSessionTimeoutSeconds
          MaxTime,     \* bound: the clock stops here
          Attempts     \* turns of snapshotSlot's loop

ASSUME DirectoryAssumption ==
    /\ SlotCount \in Nat \ {0} /\ Attempts \in Nat \ {0}
    /\ Timeout \in Nat /\ MaxTime \in Nat /\ NoKey \notin Keys

VARIABLES odd, active,      \* revision's lowest bit, and active, of each slot
          numbers, texts,   \* the entry each group of fields comes from
          now,              \* unixMillisecondsNow()
          wPc, jobs,        \* the engine's thread: what it does, writes it has to do
          message,          \* the datagram it is handling
          rPc, rSlot, rTry, rMoved, rNumbers, rTexts, \* a reader in snapshotSlot
          harmed            \* history: slots an engine was killed in while it wrote them

slotVars == <<odd, active, numbers, texts>>
writerVars == <<wPc, jobs, message>>
readerVars == <<rPc, rSlot, rTry, rMoved, rNumbers, rTexts>>
vars == <<slotVars, now, writerVars, readerVars, harmed>>

Slots == 1 .. SlotCount
Times == 0 .. MaxTime
Entries == [key : Keys \cup {NoKey}, lastSeen : Times]
Blank == [key |-> NoKey, lastSeen |-> 0]
NoMessage == [kind |-> "nothing", key |-> NoKey, at |-> 0]

\* What receive() returned and when: an announcement, a deletion, or nothing to
\* act on (the wait timed out or failed, or the datagram does not parse, has
\* another profile or is the engine's own announcement).
Messages(times) ==
    [kind : {"nothing"}, key : {NoKey}, at : times]
    \cup [kind : {"announce", "delete"}, key : Keys, at : times]

\* A write of one slot: what to store, or nothing, and the final `active`.
Store(slot, entry) == [slot |-> slot, entry |-> entry, active |-> TRUE]
Clear(slot) == [slot |-> slot, entry |-> Blank, active |-> FALSE]

Init ==
    /\ odd = [i \in Slots |-> FALSE] /\ active = [i \in Slots |-> FALSE]
    /\ numbers = [i \in Slots |-> Blank] /\ texts = [i \in Slots |-> Blank]
    /\ now = 0
    /\ wPc = "wait" /\ jobs = {} /\ message = NoMessage
    /\ rPc = "idle" /\ rSlot = 1 /\ rTry = 0 /\ rMoved = FALSE
    /\ rNumbers = Blank /\ rTexts = Blank
    /\ harmed = {}

----------------------------------------------------------------------------
(* What the writing thread sees: it is the only writer, so a snapshot it   *)
(* takes itself succeeds exactly on the slots below and is never torn.     *)

Visible(i) == ~odd[i] /\ active[i]
KeyOf(i) == texts[i].key

Matches(key) == {i \in Slots : Visible(i) /\ KeyOf(i) = key}
Unreadable == {i \in Slots : ~Visible(i)}

\* The first slot with the smallest lastSeen.
Oldest == Min({i \in Slots : \A j \in Slots : numbers[i].lastSeen <= numbers[j].lastSeen})

\* upsert(): the slot that holds the session, else the first that cannot be
\* read, else the one not seen for the longest time.
UpsertTarget(key) ==
    IF Matches(key) # {} THEN Min(Matches(key))
    ELSE IF Unreadable # {} THEN Min(Unreadable)
    ELSE Oldest

\* erase(): every slot that holds the session.
EraseTargets(key) == Matches(key)

\* Mutant of ExpireTargets: the comparison is the wrong way round.
ExpireTargetsReversed ==
    {i \in Slots : Visible(i) /\ numbers[i].lastSeen + Timeout > now}

\* expire(): every slot last seen before `now - timeout`.
ExpireTargets ==
    {i \in Slots : Visible(i) /\ numbers[i].lastSeen + Timeout < now}

ClearAll(targets) == {Clear(i) : i \in targets}

----------------------------------------------------------------------------
(* sapDiscoveryLoop                                                        *)

Tick == /\ now < MaxTime /\ now' = now + 1
        /\ UNCHANGED <<slotVars, writerVars, readerVars>>

\* A datagram arrives, or the wait times out; expire() comes first.
Receive ==
    /\ wPc = "wait"
    /\ message' \in Messages({now})
    /\ jobs' = ClearAll(ExpireTargets)
    /\ wPc' = IF ExpireTargets = {} THEN "handle" ELSE "begin"
    /\ UNCHANGED <<slotVars, now, readerVars>>

\* The message itself.
Handle ==
    /\ wPc = "handle"
    /\ jobs' = CASE message.kind = "announce" ->
                      {Store(UpsertTarget(message.key), [key |-> message.key, lastSeen |-> message.at])}
                 [] message.kind = "delete" -> ClearAll(EraseTargets(message.key))
                 [] OTHER -> {}
    /\ wPc' = IF jobs' = {} THEN "wait" ELSE "begin"
    /\ message' = NoMessage
    /\ UNCHANGED <<slotVars, now, readerVars>>

\* The slots are written in their order in the table.
Job == CHOOSE job \in jobs : \A other \in jobs : job.slot <= other.slot

\* revision.fetch_add(1), noticed by a reader that holds an older revision
Bump(i) ==
    /\ odd' = [odd EXCEPT ![i] = ~@]
    /\ rMoved' = (rMoved \/ (rPc \in {"active", "numbers", "texts", "recheck"} /\ rSlot = i))
    /\ UNCHANGED <<rPc, rSlot, rTry, rNumbers, rTexts>>

\* beginWrite: the revision, then `active`
BeginRevision ==
    /\ wPc = "begin"
    /\ Bump(Job.slot)
    /\ wPc' = "hide"
    /\ UNCHANGED <<active, numbers, texts, now, jobs, message>>

BeginHide ==
    /\ wPc = "hide"
    /\ active' = [active EXCEPT ![Job.slot] = FALSE]
    /\ wPc' = IF Job.active THEN "numbers" ELSE "show"
    /\ UNCHANGED <<odd, numbers, texts, now, jobs, message, readerVars>>

StoreNumbers ==
    /\ wPc = "numbers"
    /\ numbers' = [numbers EXCEPT ![Job.slot] = Job.entry]
    /\ wPc' = "texts"
    /\ UNCHANGED <<odd, active, texts, now, jobs, message, readerVars>>

StoreTexts ==
    /\ wPc = "texts"
    /\ texts' = [texts EXCEPT ![Job.slot] = Job.entry]
    /\ wPc' = "show"
    /\ UNCHANGED <<odd, active, numbers, now, jobs, message, readerVars>>

\* endWrite: `active`, then the revision
EndShow ==
    /\ wPc = "show"
    /\ active' = [active EXCEPT ![Job.slot] = Job.active]
    /\ wPc' = "end"
    /\ UNCHANGED <<odd, numbers, texts, now, jobs, message, readerVars>>

\* After the last slot of expire() comes the message, after the last slot of
\* the message the next datagram.
EndRevision ==
    /\ wPc = "end"
    /\ Bump(Job.slot)
    /\ jobs' = jobs \ {Job}
    /\ wPc' = IF jobs' # {} THEN "begin" ELSE IF message.kind # "nothing" THEN "handle" ELSE "wait"
    /\ UNCHANGED <<active, numbers, texts, now, message>>

Write == BeginRevision \/ BeginHide \/ StoreNumbers \/ StoreTexts \/ EndShow \/ EndRevision
Writer == Receive \/ Handle \/ Write

\* resetRuntimeState() of the engine that is started next: `active` is cleared
\* and the revision is left as it is.
Restarted ==
    /\ active' = [i \in Slots |-> FALSE]
    /\ wPc' = "wait" /\ jobs' = {} /\ message' = NoMessage
    /\ UNCHANGED <<odd, numbers, texts, now, readerVars>>

\* The engine is stopped between two datagrams and started again.
StopAndRestart == wPc = "wait" /\ Restarted

\* Between the two increments of a slot's revision.
InsideWrite == wPc \in {"hide", "numbers", "texts", "show", "end"}

\* The engine is killed at any other point and started again.
CrashAndRestart ==
    /\ wPc # "wait"
    /\ Restarted
    /\ harmed' = harmed \cup (IF InsideWrite THEN {Job.slot} ELSE {})

----------------------------------------------------------------------------
(* snapshotSlot in another process                                         *)

ReadBegin ==
    /\ rPc = "idle"
    /\ rSlot' \in Slots
    /\ rTry' = 1
    /\ rPc' = "revision"
    /\ UNCHANGED <<slotVars, now, writerVars, rMoved, rNumbers, rTexts>>

\* The next turn of the loop with a new candidate, or false when there is none
\* left.
Again ==
    /\ IF rTry < Attempts THEN rPc' = "revision" /\ rTry' = rTry + 1
                          ELSE rPc' = "idle" /\ rTry' = 0
    /\ rMoved' = FALSE /\ rNumbers' = Blank /\ rTexts' = Blank

ReadRevision ==
    /\ rPc = "revision"
    /\ \/ /\ odd[rSlot]
          /\ Again
       \/ /\ ~odd[rSlot]
          /\ rPc' = "active" /\ rMoved' = FALSE /\ UNCHANGED <<rTry, rNumbers, rTexts>>
    /\ UNCHANGED <<slotVars, now, writerVars, rSlot>>

ReadActive ==
    /\ rPc = "active"
    /\ \/ ~active[rSlot] /\ Again
       \/ active[rSlot] /\ rPc' = "numbers" /\ UNCHANGED <<rTry, rMoved, rNumbers, rTexts>>
    /\ UNCHANGED <<slotVars, now, writerVars, rSlot>>

ReadNumbers ==
    /\ rPc = "numbers"
    /\ rNumbers' = numbers[rSlot]
    /\ rPc' = "texts"
    /\ UNCHANGED <<slotVars, now, writerVars, rSlot, rTry, rMoved, rTexts>>

ReadTexts ==
    /\ rPc = "texts"
    /\ rTexts' = texts[rSlot]
    /\ rPc' = "recheck"
    /\ UNCHANGED <<slotVars, now, writerVars, rSlot, rTry, rMoved, rNumbers>>

\* Mutant of ReadRecheck: the revision is not compared again.
ReadRecheckTrusting ==
    /\ rPc = "recheck"
    /\ rPc' = "confirm"
    /\ UNCHANGED <<slotVars, now, writerVars, rSlot, rTry, rMoved, rNumbers, rTexts>>

ReadRecheck ==
    /\ rPc = "recheck"
    /\ \/ rMoved /\ Again
       \/ ~rMoved /\ rPc' = "confirm" /\ UNCHANGED <<rTry, rMoved, rNumbers, rTexts>>
    /\ UNCHANGED <<slotVars, now, writerVars, rSlot>>

ReadConfirm ==
    /\ rPc = "confirm"
    /\ \/ /\ ~active[rSlot]
          /\ Again
       \/ /\ active[rSlot]
          /\ rPc' = "returned"
          /\ UNCHANGED <<rTry, rMoved, rNumbers, rTexts>>
    /\ UNCHANGED <<slotVars, now, writerVars, rSlot>>

ReadDone ==
    /\ rPc = "returned"
    /\ rPc' = "idle" /\ rTry' = 0 /\ rMoved' = FALSE
    /\ rNumbers' = Blank /\ rTexts' = Blank
    /\ UNCHANGED <<slotVars, now, writerVars, rSlot>>

Reader == ReadBegin \/ ReadRevision \/ ReadActive \/ ReadNumbers \/ ReadTexts
          \/ ReadRecheck \/ ReadConfirm \/ ReadDone

----------------------------------------------------------------------------
Next == \/ (Tick \/ Writer \/ StopAndRestart \/ Reader) /\ UNCHANGED harmed
        \/ CrashAndRestart

Spec == Init /\ [][Next]_vars

----------------------------------------------------------------------------
(* Properties.                                                             *)

\* Every variable has its type; every write goes to a slot of the table.
TypeOK ==
    /\ odd \in [Slots -> BOOLEAN] /\ active \in [Slots -> BOOLEAN]
    /\ numbers \in [Slots -> Entries] /\ texts \in [Slots -> Entries]
    /\ now \in Times
    /\ wPc \in {"wait", "handle", "begin", "hide", "numbers", "texts", "show", "end"}
    /\ message \in Messages(Times)
    /\ jobs \subseteq [slot : Slots, entry : Entries, active : BOOLEAN]
    /\ rPc \in {"idle", "revision", "active", "numbers", "texts", "recheck", "confirm", "returned"}
    /\ rSlot \in Slots /\ rTry \in 0 .. Attempts /\ rMoved \in BOOLEAN
    /\ rNumbers \in Entries /\ rTexts \in Entries /\ harmed \subseteq Slots

\* A snapshot that succeeds is one entry, not the numbers of one and the texts
\* of another, whatever the writer does meanwhile and wherever it is killed.
\* Excepted are the slots an engine was killed in: their revision is odd when
\* it should be even from then on (SessionDirectory.cpp:31-65).
NoTornSnapshot == rPc = "returned" /\ rSlot \notin harmed => rNumbers = rTexts

\* A session that is no longer announced leaves the table whether or not other
\* datagrams arrive: each time the loop turns to a datagram, or to none, nothing
\* is visible that was last seen longer ago than the timeout
\* (LiveEngine.cpp:379-383).
StaleLeaves ==
    wPc = "handle" => \A i \in Slots : Visible(i) => numbers[i].lastSeen + Timeout >= message.at
=============================================================================
