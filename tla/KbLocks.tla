------------------------------ MODULE KbLocks -------------------------------
(***************************************************************************)
(* openkb/locks.py: one named lock file of a knowledge base ("ingest.lock" *)
(* or "import-runtime.lock"), taken by the threads of several processes.   *)
(*                                                                         *)
(* An outermost acquisition passes two gates: the in-process read/write    *)
(* lock (a Condition with a count of readers, a writer flag and a count of *)
(* waiting writers) and then an advisory lock on the file, which the       *)
(* operating system arbitrates between open handles and frees when their   *)
(* process dies.  A thread that already holds the lock re-enters by        *)
(* counting, without passing either gate.                                  *)
(*                                                                         *)
(* A thread's acquisition is `op` and its progress `at`:                   *)
(*   out     - holds nothing and asks for nothing                          *)
(*   asleep  - in Condition.wait                                           *)
(*   woken   - notified, has still to test its condition again             *)
(*   flock   - has the in-process slot, not yet the file lock              *)
(*   in      - holds the lock (the thread-local counts are set)            *)
(*   closing - file lock given up, in-process slot not yet                 *)
(***************************************************************************)
EXTENDS Integers, FiniteSets

CONSTANTS Threads,    \* the threads that use the lock
          Processes,  \* the processes they run in
          ProcOf,     \* ProcOf[t]: the process of thread t
          MaxDepth    \* bound on the re-entrant depth explored

ASSUME ThreadsAssumption ==
    /\ IsFiniteSet(Threads)
    /\ ProcOf \in [Threads -> Processes]
    /\ MaxDepth \in Nat \ {0}

VARIABLES
    op,       \* op[t]: the kind of t's outermost acquisition
    at,       \* at[t]: how far it has come
    held,     \* held[t]: _HELD_LOCKS.counts of t, exclusive and shared depth
    readers,  \* readers[p], writer[p], waiting[p]: the _LocalRwLock of p
    writer,
    waiting,
    file      \* file[t]: how t's own handle holds the file lock

vars == <<op, at, held, readers, writer, waiting, file>>

Free == [ex |-> 0, sh |-> 0]

Init ==
    /\ op = [t \in Threads |-> "none"]
    /\ at = [t \in Threads |-> "out"]
    /\ held = [t \in Threads |-> Free]
    /\ readers = [p \in Processes |-> 0]
    /\ writer = [p \in Processes |-> FALSE]
    /\ waiting = [p \in Processes |-> 0]
    /\ file = [t \in Threads |-> "none"]

-----------------------------------------------------------------------------
(* The in-process lock.                                                    *)

\* `at` after notify_all on the condition of process p and t moved to `s`.
WakeAll(p, t, s) ==
    [u \in Threads |->
        IF u = t THEN s
        ELSE IF ProcOf[u] = p /\ at[u] = "asleep" THEN "woken" ELSE at[u]]

\* Nobody is notified (also the near miss of WakeOnGiveUp).
WakeNone(p, t, s) == [at EXCEPT ![t] = s]

\* Readers give way to writers that wait.
\* Near miss: they only give way to a writer that is inside.
ReadBlockedByWriterOnly(p) == writer[p]

ReadBlocked(p) == writer[p] \/ waiting[p] > 0

\* Near miss: the writer flag is not tested.
WriteBlockedByReadersOnly(p) == readers[p] > 0

WriteBlocked(p) == writer[p] \/ readers[p] > 0

\* with condition: while blocked: wait(); readers += 1
ReadSlot(t) ==
    LET p == ProcOf[t] IN
    /\ \/ /\ ReadBlocked(p)
          /\ at' = [at EXCEPT ![t] = "asleep"]
          /\ UNCHANGED readers
       \/ /\ ~ReadBlocked(p)
          /\ at' = [at EXCEPT ![t] = "flock"]
          /\ readers' = [readers EXCEPT ![p] = @ + 1]
    /\ UNCHANGED <<held, writer, waiting, file>>

RequestRead(t) ==
    /\ at[t] = "out"
    /\ op' = [op EXCEPT ![t] = "read"]
    /\ ReadSlot(t)

ResumeRead(t) ==
    /\ op[t] = "read" /\ at[t] = "woken"
    /\ ReadSlot(t)
    /\ UNCHANGED op

\* write() and try_write(): the first test, in the critical section that
\* counts the thread as waiting.
RequestWrite(t, o) ==
    LET p == ProcOf[t] IN
    /\ at[t] = "out"
    /\ op' = [op EXCEPT ![t] = o]
    /\ \/ /\ WriteBlocked(p)
          /\ at' = [at EXCEPT ![t] = "asleep"]
          /\ waiting' = [waiting EXCEPT ![p] = @ + 1]
          /\ UNCHANGED writer
       \/ /\ ~WriteBlocked(p)
          /\ at' = [at EXCEPT ![t] = "flock"]
          /\ writer' = [writer EXCEPT ![p] = TRUE]
          /\ UNCHANGED waiting
    /\ UNCHANGED <<held, readers, file>>

ResumeWrite(t) ==
    LET p == ProcOf[t] IN
    /\ op[t] \in {"write", "try"} /\ at[t] = "woken"
    /\ \/ /\ WriteBlocked(p)
          /\ at' = [at EXCEPT ![t] = "asleep"]
          /\ UNCHANGED <<writer, waiting>>
       \/ /\ ~WriteBlocked(p)
          /\ at' = [at EXCEPT ![t] = "flock"]
          /\ writer' = [writer EXCEPT ![p] = TRUE]
          /\ waiting' = [waiting EXCEPT ![p] = @ - 1]
    /\ UNCHANGED <<op, held, readers, file>>

\* try_write: the deadline passes while the slot is taken.  The thread leaves
\* the count of waiting writers, so readers that gave way to it must hear of it.
WakeOnGiveUp(p, t, s) == WakeAll(p, t, s)

GiveUp(t) ==
    LET p == ProcOf[t] IN
    /\ op[t] = "try" /\ at[t] \in {"asleep", "woken"}
    /\ WriteBlocked(p)
    /\ at' = WakeOnGiveUp(p, t, "out")
    /\ op' = [op EXCEPT ![t] = "none"]
    /\ waiting' = [waiting EXCEPT ![p] = @ - 1]
    /\ UNCHANGED <<held, readers, writer, file>>

\* try_write whose deadline has passed already: one test, one notify_all.
RequestTryLate(t) ==
    /\ at[t] = "out"
    /\ WriteBlocked(ProcOf[t])
    /\ at' = WakeOnGiveUp(ProcOf[t], t, "out")
    /\ UNCHANGED <<op, held, readers, writer, waiting, file>>

-----------------------------------------------------------------------------
(* The file lock.                                                          *)

\* LOCK_SH for kb_read_lock and kb_import_activity_lock, else LOCK_EX.
\* Near miss: the bounded attempt asks for a shared lock.
FlockModeTryShared(o) == IF o = "write" THEN "exclusive" ELSE "shared"

FlockMode(o) == IF o = "read" THEN "shared" ELSE "exclusive"

Conflict(t, m) ==
    \E u \in Threads \ {t} :
        file[u] = "exclusive" \/ (m = "exclusive" /\ file[u] = "shared")

Flock(t) ==
    /\ at[t] = "flock"
    /\ ~Conflict(t, FlockMode(op[t]))
    /\ file' = [file EXCEPT ![t] = FlockMode(op[t])]
    /\ held' = [held EXCEPT ![t] = IF op[t] = "read" THEN [ex |-> 0, sh |-> 1]
                                                     ELSE [ex |-> 1, sh |-> 0]]
    /\ at' = [at EXCEPT ![t] = "in"]
    /\ UNCHANGED <<op, readers, writer, waiting>>

\* The bounded attempt runs out of time; a Windows exclusive lock raises
\* LockException after its retries.  Either way the slot is given back.
FlockFails(t) ==
    /\ at[t] = "flock"
    /\ op[t] \in {"try", "write"}
    /\ Conflict(t, FlockMode(op[t]))
    /\ at' = [at EXCEPT ![t] = "closing"]
    /\ UNCHANGED <<op, held, readers, writer, waiting, file>>

-----------------------------------------------------------------------------
(* Re-entry and release.                                                   *)

\* A read owner may not re-enter exclusively: kb_ingest_lock raises and
\* try_kb_ingest_lock yields False, both without touching the counts.
\* Near miss: any holder may.
MayReenterAnyway(t) == TRUE

MayReenterExclusive(t) == held[t].ex > 0

Reenter(t) ==
    /\ at[t] = "in"
    /\ held[t].ex + held[t].sh < MaxDepth
    /\ \/ /\ MayReenterExclusive(t)
          /\ held' = [held EXCEPT ![t].ex = @ + 1]
       \/ held' = [held EXCEPT ![t].sh = @ + 1]
    /\ UNCHANGED <<op, at, readers, writer, waiting, file>>

\* The counts the outermost acquisition began with.
Outermost(t) == IF op[t] = "read" THEN [ex |-> 0, sh |-> 1] ELSE [ex |-> 1, sh |-> 0]

\* Near miss: a nested exit gives back a count of the wrong kind.
LeaveNestedSwapped(t) ==
    /\ at[t] = "in"
    /\ \/ /\ held[t].ex > Outermost(t).ex
          /\ held' = [held EXCEPT ![t].sh = @ - 1]
       \/ /\ held[t].sh > Outermost(t).sh
          /\ held' = [held EXCEPT ![t].ex = @ - 1]
    /\ UNCHANGED <<op, at, readers, writer, waiting, file>>

LeaveNested(t) ==
    /\ at[t] = "in"
    /\ \/ /\ held[t].ex > Outermost(t).ex
          /\ held' = [held EXCEPT ![t].ex = @ - 1]
       \/ /\ held[t].sh > Outermost(t).sh
          /\ held' = [held EXCEPT ![t].sh = @ - 1]
    /\ UNCHANGED <<op, at, readers, writer, waiting, file>>

LeaveOutermost(t) ==
    /\ at[t] = "in"
    /\ held[t] = Outermost(t)
    /\ held' = [held EXCEPT ![t] = Free]
    /\ file' = [file EXCEPT ![t] = "none"]
    /\ at' = [at EXCEPT ![t] = "closing"]
    /\ UNCHANGED <<op, readers, writer, waiting>>

\* read(): only the last reader notifies.
ReleaseReadSlot(t) ==
    LET p == ProcOf[t] IN
    /\ op[t] = "read" /\ at[t] = "closing"
    /\ readers' = [readers EXCEPT ![p] = @ - 1]
    /\ at' = IF readers[p] = 1 THEN WakeAll(p, t, "out") ELSE WakeNone(p, t, "out")
    /\ op' = [op EXCEPT ![t] = "none"]
    /\ UNCHANGED <<held, writer, waiting, file>>

ReleaseWriteSlot(t) ==
    LET p == ProcOf[t] IN
    /\ op[t] \in {"write", "try"} /\ at[t] = "closing"
    /\ writer' = [writer EXCEPT ![p] = FALSE]
    /\ at' = WakeAll(p, t, "out")
    /\ op' = [op EXCEPT ![t] = "none"]
    /\ UNCHANGED <<held, readers, waiting, file>>

\* A process dies; the system closes its handles and another is started.
Crash(p) ==
    /\ \E t \in Threads : ProcOf[t] = p /\ at[t] # "out"
    /\ op' = [t \in Threads |-> IF ProcOf[t] = p THEN "none" ELSE op[t]]
    /\ at' = [t \in Threads |-> IF ProcOf[t] = p THEN "out" ELSE at[t]]
    /\ held' = [t \in Threads |-> IF ProcOf[t] = p THEN Free ELSE held[t]]
    /\ file' = [t \in Threads |-> IF ProcOf[t] = p THEN "none" ELSE file[t]]
    /\ readers' = [readers EXCEPT ![p] = 0]
    /\ writer' = [writer EXCEPT ![p] = FALSE]
    /\ waiting' = [waiting EXCEPT ![p] = 0]

-----------------------------------------------------------------------------
\* The steps that an acquisition under way takes by itself.
Progress(t) ==
    \/ ResumeRead(t) \/ ResumeWrite(t) \/ GiveUp(t)
    \/ Flock(t) \/ FlockFails(t)
    \/ ReleaseReadSlot(t) \/ ReleaseWriteSlot(t)

\* The steps a user of the lock decides on.
Use(t) ==
    \/ RequestRead(t)
    \/ \E o \in {"write", "try"} : RequestWrite(t, o)
    \/ RequestTryLate(t)
    \/ Reenter(t)

Leave(t) == LeaveNested(t) \/ LeaveOutermost(t)

Next ==
    \/ \E t \in Threads : Progress(t) \/ Use(t) \/ Leave(t)
    \/ \E p \in Processes : Crash(p)

Spec == Init /\ [][Next]_vars

\* The steps of locks.py itself are taken once they can be; a critical section
\* is finite code, so its nested and outermost exits come; a deadline passes.
Runs(t) ==
    \/ ResumeRead(t) \/ ResumeWrite(t) \/ Flock(t)
    \/ ReleaseReadSlot(t) \/ ReleaseWriteSlot(t) \/ LeaveNested(t)

Fairness ==
    \A t \in Threads : WF_vars(Runs(t)) /\ SF_vars(LeaveOutermost(t)) /\ SF_vars(GiveUp(t))

FairSpec == Spec /\ Fairness

-----------------------------------------------------------------------------
(* Properties.                                                             *)

Acquiring == {"flock", "in", "closing"}

\* The threads of p that the count of readers, the writer flag and the count
\* of waiting writers stand for.
ReadersIn(p) == {t \in Threads : ProcOf[t] = p /\ op[t] = "read" /\ at[t] \in Acquiring}
WritersIn(p) == {t \in Threads : ProcOf[t] = p /\ op[t] \in {"write", "try"} /\ at[t] \in Acquiring}
WaitingIn(p) == {t \in Threads : ProcOf[t] = p /\ op[t] \in {"write", "try"} /\ at[t] \in {"asleep", "woken"}}

\* Types: the counters of the in-process lock never go below zero and every
\* thread is at a known point (locks.py: _LocalRwLock, _held_locks).
TypeOK ==
    /\ op \in [Threads -> {"none", "read", "write", "try"}]
    /\ at \in [Threads -> {"out", "asleep", "woken", "flock", "in", "closing"}]
    /\ held \in [Threads -> [ex : Nat, sh : Nat]]
    /\ readers \in [Processes -> Nat]
    /\ writer \in [Processes -> BOOLEAN]
    /\ waiting \in [Processes -> Nat]
    /\ file \in [Threads -> {"none", "shared", "exclusive"}]

\* A thread that kb_ingest_lock or try_kb_ingest_lock let in is alone: no other
\* thread of any process holds the lock in any mode.
MutualExclusion ==
    \A t, u \in Threads : t # u /\ held[t].ex > 0 => held[u] = Free

\* The counts of the condition agree with the threads that made them, through
\* timeouts, failed file locks and exits in any order; a drift would admit a
\* writer beside readers or shut readers out for good.
SlotCounts ==
    \A p \in Processes :
        /\ readers[p] = Cardinality(ReadersIn(p))
        /\ waiting[p] = Cardinality(WaitingIn(p))
        /\ writer[p] <=> WritersIn(p) # {}
        /\ \A t, u \in WritersIn(p) : t = u
        /\ writer[p] => ReadersIn(p) = {}

\* No thread sleeps in Condition.wait while its condition is satisfied: every
\* step that makes one true also notifies (the last reader's exit, a writer's
\* exit, a timed writer that gives up).
NoLostWakeup ==
    \A t \in Threads : at[t] = "asleep" =>
        IF op[t] = "read" THEN ReadBlocked(ProcOf[t]) ELSE WriteBlocked(ProcOf[t])

\* How t holds the lock, as its users see it.
Mode(t) ==
    IF held[t].ex > 0 THEN "exclusive" ELSE IF held[t].sh > 0 THEN "shared" ELSE "none"

Modes == [t \in Threads |-> Mode(t)]

Abstract == INSTANCE RwLock WITH mode <- Modes

\* The whole protocol, re-entry and crashes included, is a readers-writer lock
\* without upgrades: nested exits never give away or change an outer hold.
ImplementsRwLock == Abstract!RwSpec

\* New readers give way to writers that wait: as long as every file lock that is
\* asked for is granted or refused in the end, a stream of readers cannot keep a
\* waiting writer out of the in-process slot (_LocalRwLock.read).
WritersNotStarvedByReaders ==
    (\A t \in Threads : []<>(at[t] # "flock")) =>
        \A p \in Processes :
            (waiting[p] > 0 /\ ~writer[p]) ~> (writer[p] \/ waiting[p] = 0)

=============================================================================
