----------------------- MODULE SessionDirectoryProofs -----------------------
(***************************************************************************)
(* For a table of any size, any sessions, any timeout and any number of    *)
(* turns of snapshotSlot's loop, and wherever the engine is killed: a      *)
(* snapshot that succeeds is one entry, and what has not been announced    *)
(* within the timeout is gone when the loop turns to a datagram.           *)
(*                                                                         *)
(* The invariant says what an odd revision means (RevisionMeans), which    *)
(* slots may hold parts of two entries (Whole), how far the writer is with *)
(* its slot (WriterMeans), what a reader knows as long as the revision it  *)
(* has loaded is current (ReaderMeans), and that a session that is too old *)
(* is among the slots expire() has not come to yet (StaleMeans).           *)
(***************************************************************************)
EXTENDS SessionDirectory, WellFoundedInduction, TLAPS

\* Outside the slots an engine was killed in, the revision is odd exactly
\* while the slot is written.
RevisionMeans ==
    \A i \in Slots \ harmed : odd[i] <=> (InsideWrite /\ Job.slot = i)

\* Only a slot between the two groups of stores of its write is mixed.
Whole ==
    \A i \in Slots \ harmed : numbers[i] = texts[i] \/ (wPc = "texts" /\ Job.slot = i)

WriterMeans ==
    /\ wPc \notin {"wait", "handle"} => jobs # {}
    /\ wPc = "handle" => jobs = {}
    /\ wPc \in {"numbers", "texts"} => Job.active
    /\ wPc = "texts" => numbers[Job.slot] = Job.entry
    /\ wPc = "end" => active[Job.slot] = Job.active

\* The revision the reader has loaded is even, and while it has not moved the
\* groups it has copied are those in the slot.
ReaderMeans ==
    rSlot \notin harmed =>
        /\ rPc \in {"active", "numbers", "texts", "recheck"} /\ ~rMoved => ~odd[rSlot]
        /\ rPc \in {"texts", "recheck"} /\ ~rMoved => rNumbers = numbers[rSlot]
        /\ rPc = "recheck" /\ ~rMoved => rTexts = texts[rSlot]
        /\ rPc \in {"confirm", "returned"} => rNumbers = rTexts

Stale(i) == numbers[i].lastSeen + Timeout < message.at

\* expire() still has to come to every stale session that can be seen, and
\* until the message itself is handled nothing else is written.
StaleMeans ==
    /\ message.at > 0 => \A job \in jobs : job = Clear(job.slot)
    /\ wPc # "wait" => \A i \in Slots : Visible(i) /\ Stale(i) => Clear(i) \in jobs

\* The inductive invariant.
IInv == TypeOK /\ RevisionMeans /\ Whole /\ WriterMeans /\ ReaderMeans /\ StaleMeans

----------------------------------------------------------------------------
(* The slots that are picked.                                              *)

\* Every set of natural numbers that is not empty has a least element.
LEMMA LeastExists ==
  ASSUME NEW T, T \subseteq Nat, T # {}
  PROVE  \E x \in T : \A y \in T : x <= y
  <1>1. \E x \in T : \A y \in T : ~(<<y, x>> \in OpToRel(<, Nat))
    BY NatLessThanWellFounded, WFMin, Zenon
  <1>2. PICK x \in T : \A y \in T : ~(<<y, x>> \in OpToRel(<, Nat))
    BY <1>1, Zenon
  <1>3. \A y \in T : ~(y < x)
    BY <1>2 DEF OpToRel
  <1> QED
    BY <1>3

\* The slot picked from a set of slots is one of them.
LEMMA MinIsMember ==
  ASSUME NEW T, T \subseteq Nat, T # {}
  PROVE  Min(T) \in T
  BY LeastExists DEF Min

\* Slots are numbered from 1 and there is one.
LEMMA SlotsAreNumbers == Slots \subseteq Nat /\ Slots # {} /\ 1 \in Slots
  BY DirectoryAssumption DEF Slots, DirectoryAssumption

\* The thread has a write to do as long as there are any.
LEMMA JobIsPending ==
  ASSUME jobs \subseteq [slot : Slots, entry : Entries, active : BOOLEAN], jobs # {}
  PROVE  /\ Job \in jobs
         /\ Job.slot \in Slots /\ Job.entry \in Entries /\ Job.active \in BOOLEAN
  <1>1. {job.slot : job \in jobs} \subseteq Nat /\ {job.slot : job \in jobs} # {}
    BY SlotsAreNumbers
  <1>2. PICK n \in {job.slot : job \in jobs} : \A m \in {job.slot : job \in jobs} : n <= m
    BY <1>1, LeastExists
  <1>3. \E job \in jobs : \A other \in jobs : job.slot <= other.slot
    BY <1>2
  <1>4. Job \in jobs
    BY <1>3 DEF Job
  <1> QED
    BY <1>4

\* The slot being written stays the same while the writes to come do.
LEMMA JobKept == jobs' = jobs => Job' = Job
  BY Zenon DEF Job

\* upsert() finds a slot of the table, also when all of them are taken.
LEMMA UpsertTargetIsSlot ==
  ASSUME numbers \in [Slots -> Entries], NEW key
  PROVE  UpsertTarget(key) \in Slots
  <1>1. Matches(key) \subseteq Slots /\ Unreadable \subseteq Slots
    BY DEF Matches, Unreadable
  <1>2. Oldest \in Slots
    <2>1. \A i \in Slots : numbers[i].lastSeen \in Nat
      BY DEF Entries, Times
    <2>2. /\ {numbers[i].lastSeen : i \in Slots} \subseteq Nat
          /\ {numbers[i].lastSeen : i \in Slots} # {}
      BY <2>1, SlotsAreNumbers
    <2>3. PICK n \in {numbers[i].lastSeen : i \in Slots} :
             \A m \in {numbers[i].lastSeen : i \in Slots} : n <= m
      BY <2>2, LeastExists
    <2>4. PICK i \in Slots : \A j \in Slots : numbers[i].lastSeen <= numbers[j].lastSeen
      BY <2>3
    <2>5. PICK T : T = {k \in Slots : \A j \in Slots : numbers[k].lastSeen <= numbers[j].lastSeen}
      OBVIOUS
    <2>6. T # {} /\ T \subseteq Slots
      BY <2>4, <2>5
    <2>7. Min(T) \in T
      BY <2>6, MinIsMember, SlotsAreNumbers
    <2> QED
      BY <2>5, <2>6, <2>7 DEF Oldest
  <1>3. Matches(key) # {} => Min(Matches(key)) \in Slots
    BY <1>1, MinIsMember, SlotsAreNumbers
  <1>4. Unreadable # {} => Min(Unreadable) \in Slots
    BY <1>1, MinIsMember, SlotsAreNumbers
  <1> QED
    BY <1>2, <1>3, <1>4 DEF UpsertTarget
----------------------------------------------------------------------------
(* The invariant holds initially and every step keeps it.                  *)

\* What the clock and the entries are made of.
LEMMA DataTypes ==
  /\ 0 \in Times /\ Times \subseteq Nat /\ Timeout \in Nat /\ 1 \in 0 .. Attempts
  /\ Blank \in Entries /\ NoMessage \in Messages(Times)
  /\ \A entry \in Entries : entry.lastSeen \in Nat
  /\ \A t \in SUBSET Times : \A m \in Messages(t) : m.at \in Nat /\ m.at \in t
  <1>1. /\ 0 \in Times /\ Times \subseteq Nat /\ Timeout \in Nat /\ 1 \in 0 .. Attempts
    BY DirectoryAssumption DEF Times, DirectoryAssumption
  <1>2. \A t \in SUBSET Times : \A m \in Messages(t) : m.at \in t
    BY DEF Messages
  <1> QED
    BY <1>1, <1>2 DEF Blank, Entries, NoMessage, Messages

\* erase() and expire() write slots of the table.
LEMMA ClearAllType ==
  ASSUME NEW targets, targets \subseteq Slots
  PROVE  ClearAll(targets) \subseteq [slot : Slots, entry : Entries, active : BOOLEAN]
  <1>1. Blank \in Entries
    BY DataTypes
  <1>2. \A i \in Slots : Clear(i) \in [slot : Slots, entry : Entries, active : BOOLEAN]
    BY <1>1 DEF Clear
  <1> QED
    BY <1>2 DEF ClearAll

\* Nothing is stale by the clock of a message that has been handled.
LEMMA NothingStaleAtZero ==
  ASSUME numbers \in [Slots -> Entries], message.at = 0
  PROVE  \A i \in Slots : ~Stale(i)
  <1>1. \A i \in Slots : numbers[i].lastSeen \in Nat
    BY DataTypes
  <1> QED
    BY <1>1, DataTypes DEF Stale

\* The table is empty and nobody is at it.
LEMMA InitInv == Init => IInv
  <1> SUFFICES ASSUME Init PROVE IInv
    OBVIOUS
  <1>1. TypeOK
    <2>1. rTry \in 0 .. Attempts
      BY DirectoryAssumption DEF Init, DirectoryAssumption
    <2> QED
      BY <2>1, DataTypes, SlotsAreNumbers DEF Init, TypeOK
  <1>2. RevisionMeans /\ Whole /\ WriterMeans /\ ReaderMeans
    BY DEF Init, RevisionMeans, Whole, WriterMeans, ReaderMeans, InsideWrite
  <1>3. StaleMeans
    BY DEF Init, StaleMeans
  <1> QED
    BY <1>1, <1>2, <1>3 DEF IInv

\* Steps that leave the slots and the writer alone.
LEMMA WriterPartKept ==
  ASSUME IInv, UNCHANGED <<slotVars, writerVars, harmed>>
  PROVE  RevisionMeans' /\ Whole' /\ WriterMeans' /\ StaleMeans'
  <1>1. Job' = Job
    BY JobKept DEF writerVars
  <1> QED
    BY <1>1 DEF slotVars, writerVars, IInv, RevisionMeans, Whole, WriterMeans, StaleMeans, Stale,
                InsideWrite, Visible

\* A session goes stale by the time of a message only, which Tick does not change.
LEMMA TickInv == IInv /\ Tick /\ UNCHANGED harmed => IInv'
  <1> SUFFICES ASSUME IInv, Tick, UNCHANGED harmed PROVE IInv'
    OBVIOUS
  <1>1. RevisionMeans' /\ Whole' /\ WriterMeans' /\ StaleMeans'
    BY WriterPartKept DEF Tick
  <1>2. now' \in Times
    BY DirectoryAssumption DEF IInv, TypeOK, Tick, Times, DirectoryAssumption
  <1>3. TypeOK'
    BY <1>2 DEF IInv, TypeOK, Tick, slotVars, writerVars, readerVars
  <1>4. ReaderMeans'
    BY DEF IInv, ReaderMeans, Tick, slotVars, readerVars
  <1> QED
    BY <1>1, <1>3, <1>4 DEF IInv

\* The reader.
LEMMA ReaderInv == IInv /\ Reader /\ UNCHANGED harmed => IInv'
  <1> SUFFICES ASSUME IInv, Reader, UNCHANGED harmed PROVE IInv'
    OBVIOUS
  <1> USE DEF Reader
  <1>1. UNCHANGED <<slotVars, now, writerVars, harmed>>
    BY DEF ReadBegin, ReadRevision, ReadActive, ReadNumbers, ReadTexts, ReadRecheck, ReadConfirm,
           ReadDone
  <1>2. RevisionMeans' /\ Whole' /\ WriterMeans' /\ StaleMeans'
    BY <1>1, WriterPartKept
  <1>3. TypeOK'
    <2>1. rTry' \in 0 .. Attempts
      <3>1. \/ rTry' = rTry \/ rTry' = 0 \/ rTry' = 1
            \/ rTry < Attempts /\ rTry' = rTry + 1
        BY DEF ReadBegin, ReadRevision, ReadActive, ReadNumbers, ReadTexts, ReadRecheck,
               ReadConfirm, ReadDone, Again
      <3>2. rTry \in 0 .. Attempts
        BY DEF IInv, TypeOK
      <3> QED
        BY <3>1, <3>2, DirectoryAssumption DEF DirectoryAssumption
    <2>2. /\ rPc' \in {"idle", "revision", "active", "numbers", "texts", "recheck", "confirm",
                       "returned"}
          /\ rSlot' \in Slots /\ rMoved' \in BOOLEAN
      BY DEF ReadBegin, ReadRevision, ReadActive, ReadNumbers, ReadTexts, ReadRecheck,
             ReadConfirm, ReadDone, Again, IInv, TypeOK
    <2>3. rNumbers' \in Entries /\ rTexts' \in Entries
      BY DataTypes DEF ReadBegin, ReadRevision, ReadActive, ReadNumbers, ReadTexts, ReadRecheck,
             ReadConfirm, ReadDone, Again, IInv, TypeOK
    <2> QED
      BY <1>1, <2>1, <2>2, <2>3 DEF IInv, TypeOK, slotVars, writerVars
  <1>4. ReaderMeans'
    <2>1. CASE ReadRecheck
      <3>1. CASE rPc' = "confirm"
        BY <1>1, <2>1, <3>1 DEF ReadRecheck, Again, IInv, TypeOK, ReaderMeans, RevisionMeans,
                                Whole, InsideWrite, slotVars
      <3>2. CASE rPc' # "confirm"
        BY <2>1, <3>2 DEF ReadRecheck, Again, ReaderMeans
      <3> QED
        BY <3>1, <3>2
    <2>2. CASE ReadBegin \/ ReadRevision \/ ReadActive \/ ReadDone
      BY <1>1, <2>2 DEF ReadBegin, ReadRevision, ReadActive, ReadDone, Again, IInv, ReaderMeans,
                        slotVars
    <2>3. CASE ReadNumbers \/ ReadTexts \/ ReadConfirm
      BY <1>1, <2>3 DEF ReadNumbers, ReadTexts, ReadConfirm, Again, IInv, ReaderMeans, slotVars
    <2> QED
      BY <2>1, <2>2, <2>3
  <1> QED
    BY <1>2, <1>3, <1>4 DEF IInv

\* Steps that leave the slots and the reader alone.
LEMMA ReaderPartKept ==
  ASSUME IInv, UNCHANGED <<slotVars, readerVars, harmed>>
  PROVE  ReaderMeans'
  BY DEF IInv, ReaderMeans, slotVars, readerVars

\* A datagram is received: every stale session that can be seen becomes a job.
LEMMA ReceiveInv == IInv /\ Receive /\ UNCHANGED harmed => IInv'
  <1> SUFFICES ASSUME IInv, Receive, UNCHANGED harmed PROVE IInv'
    OBVIOUS
  <1>1. /\ UNCHANGED <<slotVars, now, readerVars, harmed>>
        /\ jobs' = ClearAll(ExpireTargets) /\ message' \in Messages({now})
        /\ wPc' = (IF ExpireTargets = {} THEN "handle" ELSE "begin")
    BY DEF Receive
  <1>2. message'.at = now /\ message' \in Messages(Times)
    <2>1. now \in Times
      BY DEF IInv, TypeOK
    <2> QED
      BY <1>1, <2>1 DEF Messages
  <1>3. jobs' \subseteq [slot : Slots, entry : Entries, active : BOOLEAN]
    <2>1. ExpireTargets \subseteq Slots
      BY DEF ExpireTargets
    <2> QED
      BY <1>1, <2>1, ClearAllType
  <1>4. TypeOK'
    BY <1>1, <1>2, <1>3 DEF IInv, TypeOK, slotVars, readerVars
  <1>5. ReaderMeans'
    BY <1>1, ReaderPartKept
  <1>6. RevisionMeans' /\ Whole'
    BY <1>1 DEF IInv, RevisionMeans, Whole, InsideWrite, slotVars, Receive
  <1>7. WriterMeans'
    <2>1. jobs' = {} <=> ExpireTargets = {}
      BY <1>1 DEF ClearAll
    <2> QED
      BY <1>1, <2>1 DEF WriterMeans
  <1>8. StaleMeans'
    <2>1. \A job \in jobs' : job = Clear(job.slot)
      BY <1>1 DEF ClearAll, Clear
    <2>2. ASSUME NEW i \in Slots, Visible(i)', Stale(i)' PROVE Clear(i) \in jobs'
      <3>1. i \in ExpireTargets
        BY <1>1, <1>2, <2>2 DEF Visible, Stale, ExpireTargets, slotVars
      <3> QED
        BY <1>1, <3>1 DEF ClearAll
    <2> QED
      BY <2>1, <2>2 DEF StaleMeans, Clear
  <1> QED
    BY <1>4, <1>5, <1>6, <1>7, <1>8 DEF IInv

\* The message is handled: at most one session is stored, or some are cleared.
LEMMA HandleInv == IInv /\ Handle /\ UNCHANGED harmed => IInv'
  <1> SUFFICES ASSUME IInv, Handle, UNCHANGED harmed PROVE IInv'
    OBVIOUS
  <1>1. /\ UNCHANGED <<slotVars, now, readerVars, harmed>>
        /\ message' = NoMessage /\ wPc = "handle"
        /\ wPc' = (IF jobs' = {} THEN "wait" ELSE "begin")
    BY DEF Handle
  <1>2. jobs' \subseteq [slot : Slots, entry : Entries, active : BOOLEAN]
    <2>1. UpsertTarget(message.key) \in Slots
      BY UpsertTargetIsSlot DEF IInv, TypeOK
    <2>2. message.kind = "announce" =>
             [key |-> message.key, lastSeen |-> message.at] \in Entries
      BY DEF IInv, TypeOK, Messages, Entries
    <2>3. CASE message.kind = "announce"
      <3>1. jobs' = {Store(UpsertTarget(message.key),
                           [key |-> message.key, lastSeen |-> message.at])}
        BY <2>3 DEF Handle
      <3> QED
        BY <2>1, <2>2, <2>3, <3>1 DEF Store
    <2>4. CASE message.kind = "delete"
      <3>1. jobs' = ClearAll(EraseTargets(message.key))
        BY <2>4 DEF Handle
      <3> QED
        BY <3>1, ClearAllType DEF EraseTargets, Matches
    <2>5. CASE message.kind \notin {"announce", "delete"}
      <3>1. jobs' = {}
        BY <2>5 DEF Handle
      <3> QED
        BY <3>1
    <2> QED
      BY <2>3, <2>4, <2>5
  <1>3. TypeOK'
    BY <1>1, <1>2, DataTypes DEF IInv, TypeOK, slotVars, readerVars
  <1>4. ReaderMeans'
    BY <1>1, ReaderPartKept
  <1>5. RevisionMeans' /\ Whole'
    BY <1>1 DEF IInv, RevisionMeans, Whole, InsideWrite, slotVars
  <1>6. WriterMeans'
    BY <1>1 DEF WriterMeans
  <1>7. StaleMeans'
    <2>1. message'.at = 0 /\ numbers' \in [Slots -> Entries]
      BY <1>1, <1>3 DEF NoMessage, TypeOK
    <2>2. \A i \in Slots : ~Stale(i)'
      <3>1. \A i \in Slots : numbers'[i].lastSeen \in Nat
        BY <2>1, DataTypes
      <3> QED
        BY <2>1, <3>1, DataTypes DEF Stale
    <2> QED
      BY <2>1, <2>2 DEF StaleMeans
  <1> QED
    BY <1>3, <1>4, <1>5, <1>6, <1>7 DEF IInv

\* What every write step needs: it has a job, of the right type, and keeps it.
LEMMA WritingJob ==
  ASSUME IInv, wPc \notin {"wait", "handle"}
  PROVE  /\ Job \in jobs
         /\ Job.slot \in Slots /\ Job.entry \in Entries /\ Job.active \in BOOLEAN
         /\ message.at > 0 => Job = Clear(Job.slot) /\ ~Job.active
  <1>1. jobs # {} /\ jobs \subseteq [slot : Slots, entry : Entries, active : BOOLEAN]
    BY DEF IInv, TypeOK, WriterMeans
  <1>2. /\ Job \in jobs
        /\ Job.slot \in Slots /\ Job.entry \in Entries /\ Job.active \in BOOLEAN
    BY <1>1, JobIsPending
  <1>3. message.at > 0 => Job = Clear(Job.slot)
    BY <1>2 DEF IInv, StaleMeans
  <1>4. ~Clear(Job.slot).active
    BY DEF Clear
  <1> QED
    BY <1>2, <1>3, <1>4

\* A job that stores a session belongs to a message that is being handled, and
\* nothing is stale by its clock.
LEMMA StoringMeansHandled ==
  ASSUME IInv, wPc \notin {"wait", "handle"}, Job.active
  PROVE  message.at = 0
  <1>1. message.at \in Nat
    BY DataTypes DEF IInv, TypeOK
  <1> QED
    BY <1>1, WritingJob

\* A slot that is being written while it is stale is being cleared.
LEMMA StaleIsJob ==
  ASSUME IInv, wPc \notin {"wait", "handle"}, Stale(Job.slot)
  PROVE  Clear(Job.slot) \in jobs /\ ~Job.active
  <1>1. message.at \in Nat
    BY DataTypes DEF IInv, TypeOK
  <1>2. message.at # 0
    BY NothingStaleAtZero, WritingJob DEF IInv, TypeOK
  <1>3. message.at > 0
    BY <1>1, <1>2
  <1> QED
    BY <1>3, WritingJob

\* A step within the write of one slot keeps StaleMeans as long as it leaves
\* the other slots, the jobs and the message alone, and does not make its own
\* slot stale.
LEMMA StaleKept ==
  ASSUME IInv, wPc \notin {"wait", "handle"}, UNCHANGED <<jobs, message>>,
         \A i \in Slots \ {Job.slot} : Visible(i)' => Visible(i),
         \A i \in Slots : Stale(i)' => Stale(i)
  PROVE  StaleMeans'
  <1>1. ASSUME NEW i \in Slots, Visible(i)', Stale(i)' PROVE Clear(i) \in jobs'
    <2>1. CASE i # Job.slot
      BY <1>1, <2>1 DEF IInv, StaleMeans
    <2>2. CASE i = Job.slot
      BY <1>1, <2>2, StaleIsJob
    <2> QED
      BY <2>1, <2>2
  <1> QED
    BY <1>1 DEF IInv, StaleMeans, Clear

\* beginWrite.
LEMMA BeginRevisionInv == IInv /\ BeginRevision /\ UNCHANGED harmed => IInv'
  <1> SUFFICES ASSUME IInv, BeginRevision, UNCHANGED harmed PROVE IInv'
    OBVIOUS
  <1>1. /\ wPc = "begin" /\ wPc' = "hide" /\ odd' = [odd EXCEPT ![Job.slot] = ~@]
        /\ rMoved' = (rMoved \/ (rPc \in {"active", "numbers", "texts", "recheck"}
                                 /\ rSlot = Job.slot))
        /\ UNCHANGED <<active, numbers, texts, now, jobs, message, harmed, rPc, rSlot, rTry,
                       rNumbers, rTexts>>
    BY DEF BeginRevision, Bump
  <1>2. Job' = Job /\ Job \in jobs /\ Job.slot \in Slots
    BY <1>1, JobKept, WritingJob
  <1>3. TypeOK'
    BY <1>1, <1>2 DEF IInv, TypeOK
  <1>4. RevisionMeans' /\ Whole' /\ WriterMeans'
    BY <1>1, <1>2 DEF IInv, TypeOK, RevisionMeans, Whole, WriterMeans, InsideWrite
  <1>5. ReaderMeans'
    BY <1>1 DEF IInv, TypeOK, ReaderMeans
  <1>6. StaleMeans'
    <2>1. \A i \in Slots : Stale(i)' = Stale(i)
      BY <1>1 DEF Stale
    <2>2. \A i \in Slots \ {Job.slot} : Visible(i)' => Visible(i)
      BY <1>1 DEF IInv, TypeOK, Visible
    <2> QED
      BY <1>1, <2>1, <2>2, StaleKept
  <1> QED
    BY <1>3, <1>4, <1>5, <1>6 DEF IInv

\* A slot that is being written is hidden.
LEMMA BeginHideInv == IInv /\ BeginHide /\ UNCHANGED harmed => IInv'
  <1> SUFFICES ASSUME IInv, BeginHide, UNCHANGED harmed PROVE IInv'
    OBVIOUS
  <1>1. /\ wPc = "hide" /\ wPc' = (IF Job.active THEN "numbers" ELSE "show")
        /\ active' = [active EXCEPT ![Job.slot] = FALSE]
        /\ UNCHANGED <<odd, numbers, texts, now, jobs, message, readerVars, harmed>>
    BY DEF BeginHide
  <1>2. Job' = Job /\ Job \in jobs /\ Job.slot \in Slots
    BY <1>1, JobKept, WritingJob
  <1>3. TypeOK'
    BY <1>1, <1>2 DEF IInv, TypeOK, readerVars
  <1>4. RevisionMeans' /\ Whole' /\ WriterMeans'
    BY <1>1, <1>2 DEF IInv, TypeOK, RevisionMeans, Whole, WriterMeans, InsideWrite
  <1>5. ReaderMeans'
    BY <1>1 DEF IInv, ReaderMeans, readerVars
  <1>6. StaleMeans'
    <2>1. \A i \in Slots : Stale(i)' => Stale(i)
      BY <1>1 DEF Stale
    <2>2. \A i \in Slots \ {Job.slot} : Visible(i)' => Visible(i)
      BY <1>1 DEF IInv, TypeOK, Visible
    <2> QED
      BY <1>1, <2>1, <2>2, StaleKept
  <1> QED
    BY <1>3, <1>4, <1>5, <1>6 DEF IInv

\* The two groups of stores: a reader that still trusts its revision is at
\* another slot.
LEMMA StoreInv == IInv /\ (StoreNumbers \/ StoreTexts) /\ UNCHANGED harmed => IInv'
  <1> SUFFICES ASSUME IInv, StoreNumbers \/ StoreTexts, UNCHANGED harmed PROVE IInv'
    OBVIOUS
  <1>1. /\ wPc \in {"numbers", "texts"}
        /\ UNCHANGED <<odd, active, now, jobs, message, readerVars, harmed>>
    BY DEF StoreNumbers, StoreTexts
  <1>2. /\ Job' = Job /\ Job \in jobs /\ Job.slot \in Slots /\ Job.entry \in Entries
    BY <1>1, JobKept, WritingJob
  <1>3. Job.active
    BY <1>1 DEF IInv, WriterMeans
  <1>4. TypeOK'
    BY <1>1, <1>2 DEF IInv, TypeOK, readerVars, StoreNumbers, StoreTexts
  <1>5. RevisionMeans' /\ Whole' /\ WriterMeans'
    BY <1>1, <1>2, <1>3, ZenonT(40) DEF IInv, TypeOK, RevisionMeans, Whole, WriterMeans, InsideWrite,
                                        StoreNumbers, StoreTexts
  <1>6. ReaderMeans'
    <2>1. Job.slot \notin harmed => odd[Job.slot]
      BY <1>1, <1>2 DEF IInv, RevisionMeans, InsideWrite
    <2> QED
      BY <1>1, <1>2, <2>1 DEF IInv, TypeOK, ReaderMeans, readerVars, StoreNumbers, StoreTexts
  <1>7. StaleMeans'
    <2>1. message'.at = 0
      BY <1>1, <1>3, StoringMeansHandled
    <2>2. \A i \in Slots : ~Stale(i)'
      <3>1. \A i \in Slots : numbers'[i].lastSeen \in Nat
        BY <1>4, DataTypes DEF TypeOK
      <3> QED
        BY <2>1, <3>1, DataTypes DEF Stale
    <2>3. \A i \in Slots \ {Job.slot} : Visible(i)' => Visible(i)
      BY <1>1 DEF Visible
    <2> QED
      BY <1>1, <2>2, <2>3, StaleKept
  <1> QED
    BY <1>4, <1>5, <1>6, <1>7 DEF IInv

\* endWrite.
LEMMA EndShowInv == IInv /\ EndShow /\ UNCHANGED harmed => IInv'
  <1> SUFFICES ASSUME IInv, EndShow, UNCHANGED harmed PROVE IInv'
    OBVIOUS
  <1>1. /\ wPc = "show" /\ wPc' = "end" /\ active' = [active EXCEPT ![Job.slot] = Job.active]
        /\ UNCHANGED <<odd, numbers, texts, now, jobs, message, readerVars, harmed>>
    BY DEF EndShow
  <1>2. Job' = Job /\ Job \in jobs /\ Job.slot \in Slots /\ Job.active \in BOOLEAN
    BY <1>1, JobKept, WritingJob
  <1>3. TypeOK'
    BY <1>1, <1>2 DEF IInv, TypeOK, readerVars
  <1>4. RevisionMeans' /\ Whole' /\ WriterMeans'
    BY <1>1, <1>2 DEF IInv, TypeOK, RevisionMeans, Whole, WriterMeans, InsideWrite
  <1>5. ReaderMeans'
    BY <1>1 DEF IInv, ReaderMeans, readerVars
  <1>6. StaleMeans'
    <2>1. \A i \in Slots : Stale(i)' => Stale(i)
      BY <1>1 DEF Stale
    <2>2. \A i \in Slots \ {Job.slot} : Visible(i)' => Visible(i)
      BY <1>1 DEF IInv, TypeOK, Visible
    <2> QED
      BY <1>1, <2>1, <2>2, StaleKept
  <1> QED
    BY <1>3, <1>4, <1>5, <1>6 DEF IInv

\* The write ends: the slot is whole and its revision is even again.
LEMMA EndRevisionInv == IInv /\ EndRevision /\ UNCHANGED harmed => IInv'
  <1> SUFFICES ASSUME IInv, EndRevision, UNCHANGED harmed PROVE IInv'
    OBVIOUS
  <1>1. /\ wPc = "end" /\ odd' = [odd EXCEPT ![Job.slot] = ~@] /\ jobs' = jobs \ {Job}
        /\ wPc' \in {"begin", "handle", "wait"}
        /\ wPc' = "begin" => jobs' # {}
        /\ wPc' = "handle" => jobs' = {}
        /\ rMoved' = (rMoved \/ (rPc \in {"active", "numbers", "texts", "recheck"}
                                 /\ rSlot = Job.slot))
        /\ UNCHANGED <<active, numbers, texts, now, message, harmed, rPc, rSlot, rTry,
                       rNumbers, rTexts>>
    BY DEF EndRevision, Bump
  <1>2. Job \in jobs /\ Job.slot \in Slots /\ active[Job.slot] = Job.active
    BY <1>1, WritingJob DEF IInv, WriterMeans
  <1>3. TypeOK'
    BY <1>1, <1>2 DEF IInv, TypeOK
  <1>4. RevisionMeans' /\ Whole' /\ WriterMeans'
    BY <1>1, <1>2 DEF IInv, TypeOK, RevisionMeans, Whole, WriterMeans, InsideWrite
  <1>5. ReaderMeans'
    BY <1>1 DEF IInv, TypeOK, ReaderMeans
  <1>6. StaleMeans'
    <2>1. \A i \in Slots : Stale(i)' => Stale(i)
      BY <1>1 DEF Stale
    <2>2. ASSUME NEW i \in Slots, Visible(i)', Stale(i)' PROVE Clear(i) \in jobs'
      <3>1. CASE i # Job.slot
        <4>1. Visible(i) /\ Stale(i)
          BY <1>1, <2>1, <2>2, <3>1 DEF IInv, TypeOK, Visible
        <4>2. Clear(i) \in jobs
          BY <1>1, <4>1 DEF IInv, StaleMeans
        <4>3. Clear(i) # Job
          BY <3>1 DEF Clear
        <4> QED
          BY <1>1, <4>2, <4>3
      <3>2. CASE i = Job.slot
        <4>1. ~Job.active
          BY <1>1, <2>1, <2>2, <3>2, StaleIsJob
        <4> QED
          BY <1>1, <1>2, <2>2, <3>2, <4>1 DEF Visible
      <3> QED
        BY <3>1, <3>2
    <2> QED
      BY <1>1, <2>2 DEF IInv, StaleMeans, Clear
  <1> QED
    BY <1>3, <1>4, <1>5, <1>6 DEF IInv

\* The engine ends and the next one begins: a slot whose write was cut short
\* is among the harmed ones.
LEMMA RestartInv ==
  ASSUME IInv, Restarted,
         \/ wPc = "wait" /\ harmed' = harmed
         \/ wPc # "wait" /\ harmed' = harmed \cup (IF InsideWrite THEN {Job.slot} ELSE {})
  PROVE  IInv'
  <1>1. /\ active' = [i \in Slots |-> FALSE] /\ wPc' = "wait" /\ jobs' = {} /\ message' = NoMessage
        /\ UNCHANGED <<odd, numbers, texts, now, readerVars>>
    BY DEF Restarted
  <1>2. InsideWrite => wPc \notin {"wait", "handle"} /\ Job.slot \in Slots
    BY WritingJob DEF InsideWrite
  <1>3. harmed \subseteq harmed' /\ (InsideWrite => Job.slot \in harmed') /\ harmed' \subseteq Slots
    BY <1>2 DEF IInv, TypeOK, InsideWrite
  <1>4. TypeOK'
    BY <1>1, <1>3, DataTypes DEF IInv, TypeOK, readerVars
  <1>5. RevisionMeans'
    BY <1>1, <1>3 DEF IInv, TypeOK, RevisionMeans, InsideWrite
  <1>6. Whole'
    BY <1>1, <1>3 DEF IInv, TypeOK, Whole, InsideWrite
  <1>7. WriterMeans'
    BY <1>1 DEF WriterMeans
  <1>8. ReaderMeans'
    BY <1>1, <1>3 DEF IInv, ReaderMeans, readerVars
  <1>9. StaleMeans'
    BY <1>1 DEF StaleMeans
  <1> QED
    BY <1>4, <1>5, <1>6, <1>7, <1>8, <1>9 DEF IInv

\* Every step preserves the invariant.
LEMMA NextInv == IInv /\ [Next]_vars => IInv'
  <1> SUFFICES ASSUME IInv, [Next]_vars PROVE IInv'
    OBVIOUS
  <1>1. CASE UNCHANGED vars
    <2>1. RevisionMeans' /\ Whole' /\ WriterMeans' /\ StaleMeans'
      BY <1>1, WriterPartKept DEF vars
    <2>2. TypeOK' /\ ReaderMeans'
      BY <1>1 DEF vars, slotVars, writerVars, readerVars, IInv, TypeOK, ReaderMeans
    <2> QED
      BY <2>1, <2>2 DEF IInv
  <1>2. CASE (Tick \/ Writer \/ StopAndRestart \/ Reader) /\ UNCHANGED harmed
    <2>1. CASE StopAndRestart
      BY <1>2, <2>1, RestartInv DEF StopAndRestart
    <2>2. CASE Writer
      BY <1>2, <2>2, ReceiveInv, HandleInv, BeginRevisionInv, BeginHideInv, StoreInv, EndShowInv,
         EndRevisionInv DEF Writer, Write
    <2> QED
      BY <1>2, <2>1, <2>2, TickInv, ReaderInv
  <1>3. CASE CrashAndRestart
    BY <1>3, RestartInv DEF CrashAndRestart
  <1> QED
    BY <1>1, <1>2, <1>3 DEF Next

\* The invariant holds in every reachable state.
LEMMA AlwaysInv == Spec => []IInv
  BY InitInv, NextInv, PTL DEF Spec

----------------------------------------------------------------------------
(* The theorems.                                                           *)

\* Every variable of the directory keeps its type; upsert() always finds a slot
\* of the table to write, also when the table is full.
THEOREM DirectoryTypeCorrect == Spec => []TypeOK
  <1>1. IInv => TypeOK
    BY DEF IInv
  <1> QED
    BY <1>1, AlwaysInv, PTL

\* A snapshot of a slot no engine was killed in is one entry, in a table of any
\* size and for any timing of the writer and the reader.
THEOREM SnapshotIsWhole == Spec => []NoTornSnapshot
  <1>1. IInv => NoTornSnapshot
    BY DEF IInv, ReaderMeans, NoTornSnapshot
  <1> QED
    BY <1>1, AlwaysInv, PTL

\* When the loop turns to a datagram no session is visible that was last seen
\* longer ago than the timeout, killed engines or not.
THEOREM StaleSessionsLeave == Spec => []StaleLeaves
  <1>1. ASSUME IInv, wPc = "handle", NEW i \in Slots, Visible(i)
        PROVE  numbers[i].lastSeen + Timeout >= message.at
    <2>1. ~Stale(i)
      BY <1>1 DEF IInv, StaleMeans, WriterMeans
    <2>2. message.at \in Nat /\ numbers[i].lastSeen \in Nat /\ Timeout \in Nat
      BY <1>1, DataTypes DEF IInv, TypeOK
    <2> QED
      BY <2>1, <2>2 DEF Stale
  <1>2. IInv => StaleLeaves
    BY <1>1 DEF StaleLeaves
  <1> QED
    BY <1>2, AlwaysInv, PTL

=============================================================================
