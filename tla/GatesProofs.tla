------------------------------ MODULE GatesProofs ------------------------------
(***************************************************************************)
(* What is proved of the gates a thread passes before it works, which      *)
(* share nothing: the lock of a knowledge base (openkb/locks.py), for      *)
(* every finite set of threads, every placement of them in processes and   *)
(* every depth of re-entry, and the gates of a model call, for any calls,  *)
(* groups, limits and order of events.                                     *)
(*                                                                         *)
(* The inductive invariant of the lock joins two independent arguments.    *)
(* The file lock keeps holders apart (Phases, FileSafe), whatever the      *)
(* in-process lock does: mutual exclusion and the refinement of RwLock     *)
(* need nothing else.  The in-process counts are the cardinalities of the  *)
(* sets of threads they stand for (SlotCounts), so they never go below     *)
(* zero, and a reader that leaves others behind leaves the count above     *)
(* zero: no wakeup is lost.                                                *)
(*                                                                         *)
(* In front of a model call no slot is lost, tickets and turns match the   *)
(* calls that wait, and groups take turns (DispatchIInv).                  *)
(***************************************************************************)
EXTENDS KbLocks, ModelDispatch, FiniteSetTheorems, SequenceTheorems, TLAPS

\* The types with the counters left in Int: that they stay in Nat is a result.
TypeInt ==
    /\ op \in [Threads -> {"none", "read", "write", "try"}]
    /\ at \in [Threads -> {"out", "asleep", "woken", "flock", "in", "closing"}]
    /\ held \in [Threads -> [ex : Int, sh : Int]]
    /\ readers \in [Processes -> Int]
    /\ writer \in [Processes -> BOOLEAN]
    /\ waiting \in [Processes -> Int]
    /\ file \in [Threads -> {"none", "shared", "exclusive"}]

\* What the point a thread has come to says of its counts and its file handle.
Phase(t) ==
    /\ at[t] = "out" <=> op[t] = "none"
    /\ at[t] = "in" =>
         /\ file[t] = FlockMode(op[t])
         /\ held[t].ex >= Outermost(t).ex
         /\ held[t].sh >= Outermost(t).sh
         /\ op[t] = "read" => held[t].ex = 0
    /\ at[t] # "in" => held[t] = Free /\ file[t] = "none"

Phases == \A t \in Threads : Phase(t)

FileSafe == \A t, u \in Threads : t # u /\ file[t] = "exclusive" => file[u] = "none"

HoldInv == TypeInt /\ Phases /\ FileSafe

IInv == HoldInv /\ SlotCounts /\ NoLostWakeup

-----------------------------------------------------------------------------
(* The holders.                                                            *)

\* At first no thread is inside kb_read_lock or kb_ingest_lock.
LEMMA HoldInit == Init => HoldInv
<1> SUFFICES ASSUME Init PROVE HoldInv  OBVIOUS
<1>1. TypeInt  BY DEF Init, TypeInt, Free
<1>2. Phases  BY DEF Init, Phases, Phase
<1>3. FileSafe  BY DEF Init, FileSafe
<1> QED  BY <1>1, <1>2, <1>3 DEF HoldInv

\* Every step keeps the holders of a process, the depth of each thread and the file lock in
\* agreement (_LocalRwLock, _kb_named_lock, and the handles closed by a crash).
LEMMA HoldStep == HoldInv /\ [Next]_vars => HoldInv'
<1> SUFFICES ASSUME HoldInv, [Next]_vars PROVE HoldInv'  OBVIOUS
<1> USE ThreadsAssumption DEF ThreadsAssumption
<1>0. TypeInt /\ Phases /\ FileSafe  BY DEF HoldInv
<1>1. ASSUME NEW t \in Threads, RequestRead(t) \/ ResumeRead(t)  PROVE HoldInv'
  <2>1. TypeInt'  BY <1>0, <1>1 DEF TypeInt, RequestRead, ResumeRead, ReadSlot
  <2>2. Phases'  BY <1>0, <1>1 DEF TypeInt, Phases, Phase, RequestRead, ResumeRead, ReadSlot, Outermost
  <2>3. FileSafe'  BY <1>0, <1>1 DEF FileSafe, RequestRead, ResumeRead, ReadSlot
  <2> QED  BY <2>1, <2>2, <2>3 DEF HoldInv
<1>2. ASSUME NEW t \in Threads, NEW o \in {"write", "try"}, RequestWrite(t, o)  PROVE HoldInv'
  <2>1. TypeInt'
    <3>1. op' \in [Threads -> {"none", "read", "write", "try"}]  BY <1>0, <1>2 DEF TypeInt, RequestWrite
    <3>2. at' \in [Threads -> {"out", "asleep", "woken", "flock", "in", "closing"}]  BY <1>0, <1>2 DEF TypeInt, RequestWrite
    <3>3. UNCHANGED <<held, readers, file>>  BY <1>2 DEF RequestWrite
    <3>4. writer' \in [Processes -> BOOLEAN]  BY <1>0, <1>2 DEF TypeInt, RequestWrite
    <3>5. waiting' \in [Processes -> Int]  BY <1>0, <1>2 DEF TypeInt, RequestWrite
    <3> QED  BY <1>0, <3>1, <3>2, <3>3, <3>4, <3>5 DEF TypeInt
  <2>2. Phases'  BY <1>0, <1>2 DEF TypeInt, Phases, Phase, RequestWrite, Outermost
  <2>3. FileSafe'  BY <1>0, <1>2 DEF FileSafe, RequestWrite
  <2> QED  BY <2>1, <2>2, <2>3 DEF HoldInv
<1>3. ASSUME NEW t \in Threads, ResumeWrite(t)  PROVE HoldInv'
  <2>1. TypeInt'
    <3>1. at' \in [Threads -> {"out", "asleep", "woken", "flock", "in", "closing"}]  BY <1>0, <1>3 DEF TypeInt, ResumeWrite
    <3>2. UNCHANGED <<op, held, readers, file>>  BY <1>3 DEF ResumeWrite
    <3>3. writer' \in [Processes -> BOOLEAN]  BY <1>0, <1>3 DEF TypeInt, ResumeWrite
    <3>4. waiting' \in [Processes -> Int]  BY <1>0, <1>3 DEF TypeInt, ResumeWrite
    <3> QED  BY <1>0, <3>1, <3>2, <3>3, <3>4 DEF TypeInt
  <2>2. Phases'  BY <1>0, <1>3 DEF TypeInt, Phases, Phase, ResumeWrite, Outermost
  <2>3. FileSafe'  BY <1>0, <1>3 DEF FileSafe, ResumeWrite
  <2> QED  BY <2>1, <2>2, <2>3 DEF HoldInv
<1>4. ASSUME NEW t \in Threads, GiveUp(t) \/ RequestTryLate(t)  PROVE HoldInv'
  <2>1. TypeInt'  BY <1>0, <1>4 DEF TypeInt, GiveUp, RequestTryLate, WakeOnGiveUp, WakeAll
  <2>2. Phases'
    BY <1>0, <1>4 DEF TypeInt, Phases, Phase, GiveUp, RequestTryLate, WakeOnGiveUp, WakeAll, Outermost
  <2>3. FileSafe'  BY <1>0, <1>4 DEF FileSafe, GiveUp, RequestTryLate
  <2> QED  BY <2>1, <2>2, <2>3 DEF HoldInv
<1>5. ASSUME NEW t \in Threads, Flock(t)  PROVE HoldInv'
  <2>1. TypeInt'  BY <1>0, <1>5 DEF TypeInt, Flock, FlockMode
  <2>2. Phases'  BY <1>0, <1>5 DEF TypeInt, Phases, Phase, Flock, Outermost
  <2>3. FileSafe'  BY <1>0, <1>5 DEF TypeInt, FileSafe, Flock, Conflict, FlockMode
  <2> QED  BY <2>1, <2>2, <2>3 DEF HoldInv
<1>6. ASSUME NEW t \in Threads, FlockFails(t)  PROVE HoldInv'
  <2>1. TypeInt'  BY <1>0, <1>6 DEF TypeInt, FlockFails
  <2>2. Phases'  BY <1>0, <1>6 DEF TypeInt, Phases, Phase, FlockFails, Outermost
  <2>3. FileSafe'  BY <1>0, <1>6 DEF FileSafe, FlockFails
  <2> QED  BY <2>1, <2>2, <2>3 DEF HoldInv
<1>7. ASSUME NEW t \in Threads, Reenter(t)  PROVE HoldInv'
  <2>1. TypeInt'  BY <1>0, <1>7 DEF TypeInt, Reenter
  <2>2. Phases'
    BY <1>0, <1>7 DEF TypeInt, Phases, Phase, Reenter, MayReenterExclusive, Outermost
  <2>3. FileSafe'  BY <1>0, <1>7 DEF FileSafe, Reenter
  <2> QED  BY <2>1, <2>2, <2>3 DEF HoldInv
<1>8. ASSUME NEW t \in Threads, LeaveNested(t)  PROVE HoldInv'
  <2>1. TypeInt'  BY <1>0, <1>8 DEF TypeInt, LeaveNested
  <2>2. Phases'  BY <1>0, <1>8 DEF TypeInt, Phases, Phase, LeaveNested, Outermost
  <2>3. FileSafe'  BY <1>0, <1>8 DEF FileSafe, LeaveNested
  <2> QED  BY <2>1, <2>2, <2>3 DEF HoldInv
<1>9. ASSUME NEW t \in Threads, LeaveOutermost(t)  PROVE HoldInv'
  <2>1. TypeInt'  BY <1>0, <1>9 DEF TypeInt, LeaveOutermost, Free
  <2>2. Phases'  BY <1>0, <1>9 DEF TypeInt, Phases, Phase, LeaveOutermost, Outermost
  <2>3. FileSafe'  BY <1>0, <1>9 DEF TypeInt, FileSafe, LeaveOutermost
  <2> QED  BY <2>1, <2>2, <2>3 DEF HoldInv
<1>10. ASSUME NEW t \in Threads, ReleaseReadSlot(t) \/ ReleaseWriteSlot(t)  PROVE HoldInv'
  <2>1. TypeInt'
    <3>1. CASE ReleaseReadSlot(t)
      BY <1>0, <3>1 DEF TypeInt, ReleaseReadSlot, WakeAll, WakeNone
    <3>2. CASE ReleaseWriteSlot(t)
      BY <1>0, <3>2 DEF TypeInt, ReleaseWriteSlot, WakeAll
    <3> QED  BY <1>10, <3>1, <3>2
  <2>2. Phases'
    BY <1>0, <1>10
       DEF TypeInt, Phases, Phase, ReleaseReadSlot, ReleaseWriteSlot, WakeAll, WakeNone, Outermost
  <2>3. FileSafe'  BY <1>0, <1>10 DEF FileSafe, ReleaseReadSlot, ReleaseWriteSlot
  <2> QED  BY <2>1, <2>2, <2>3 DEF HoldInv
<1>11. ASSUME NEW p \in Processes, Crash(p)  PROVE HoldInv'
  <2>1. TypeInt'  BY <1>0, <1>11 DEF TypeInt, Crash, Free
  <2>2. Phases'  BY <1>0, <1>11 DEF TypeInt, Phases, Phase, Crash, Outermost
  <2>3. FileSafe'  BY <1>0, <1>11 DEF TypeInt, FileSafe, Crash
  <2> QED  BY <2>1, <2>2, <2>3 DEF HoldInv
<1>12. CASE UNCHANGED vars
  BY <1>0, <1>12 DEF HoldInv, TypeInt, Phases, Phase, FileSafe, vars, Outermost
<1> QED
  BY <1>1, <1>2, <1>3, <1>4, <1>5, <1>6, <1>7, <1>8, <1>9, <1>10, <1>11, <1>12
     DEF Next, Progress, Use, Leave

\* Threads that hold the lock hold the file in the mode that keeps others away.
LEMMA HoldersApart == HoldInv => MutualExclusion
<1> SUFFICES ASSUME HoldInv, NEW t \in Threads, NEW u \in Threads, t # u, held[t].ex > 0
             PROVE held[u] = Free
  BY DEF MutualExclusion
<1>1. at[t] = "in" /\ op[t] # "read" /\ file[t] = "exclusive"
  BY DEF HoldInv, TypeInt, Phases, Phase, Free, FlockMode
<1>2. file[u] = "none"  BY <1>1 DEF HoldInv, FileSafe
<1>3. at[u] # "in"  BY <1>2 DEF HoldInv, Phases, Phase, FlockMode
<1> QED  BY <1>3 DEF HoldInv, Phases, Phase

\* A thread that kb_ingest_lock or try_kb_ingest_lock let in is alone, across
\* all processes, after any timeouts, failed file locks and crashes.
THEOREM Exclusion == Spec => []MutualExclusion
<1>1. Init => HoldInv  BY HoldInit
<1>2. HoldInv /\ [Next]_vars => HoldInv'  BY HoldStep
<1>3. HoldInv => MutualExclusion  BY HoldersApart
<1> QED  BY <1>1, <1>2, <1>3, PTL DEF Spec

-----------------------------------------------------------------------------
(* The refinement of RwLock.                                               *)

\* At first nobody holds the abstract lock either.
LEMMA AbstractInit == Init => Abstract!RwInit
BY DEF Init, Abstract!RwInit, Modes, Mode, Free

\* A thread holds the lock exactly while it is "in", in the mode of its
\* outermost acquisition, however deep it has re-entered.
HolderMode(t) == IF at[t] = "in" THEN FlockMode(op[t]) ELSE "none"

ModesOfHolders == Modes = [t \in Threads |-> HolderMode(t)]

\* What a thread holds of the abstract lock can be read from where it is in the protocol.
LEMMA HoldersByPhase == HoldInv => ModesOfHolders
<1> SUFFICES ASSUME HoldInv, NEW t \in Threads PROVE Mode(t) = HolderMode(t)
  BY DEF ModesOfHolders, Modes
<1> USE DEF HoldInv, TypeInt, Phases, Phase, HolderMode
<1>1. CASE at[t] # "in"  BY <1>1 DEF Mode, Free
<1>2. CASE at[t] = "in" /\ op[t] = "read"  BY <1>2 DEF Mode, FlockMode, Outermost
<1>3. CASE at[t] = "in" /\ op[t] # "read"  BY <1>3 DEF Mode, FlockMode, Outermost
<1> QED  BY <1>1, <1>2, <1>3

\* Only Flock and LeaveOutermost move a thread into or out of "in"; a crash
\* takes the threads of its process out together.
LEMMA AbstractStep ==
    HoldInv /\ ModesOfHolders /\ ModesOfHolders' /\ [Next]_vars => [Abstract!RwNext]_Modes
<1> SUFFICES ASSUME HoldInv, ModesOfHolders, ModesOfHolders', [Next]_vars
             PROVE  [Abstract!RwNext]_Modes
  OBVIOUS
<1>0. TypeInt /\ Phases  BY DEF HoldInv
<1> USE DEF ModesOfHolders, HolderMode
<1>1. ASSUME NEW t \in Threads,
             RequestRead(t) \/ ResumeRead(t) \/ ResumeWrite(t)
                \/ \E o \in {"write", "try"} : RequestWrite(t, o)
      PROVE  Modes' = Modes
  <2>1. CASE RequestRead(t) \/ ResumeRead(t)
    BY <1>0, <2>1 DEF TypeInt, Phases, Phase, RequestRead, ResumeRead, ReadSlot
  <2>2. CASE ResumeWrite(t)
    BY <1>0, <2>2 DEF TypeInt, ResumeWrite
  <2>3. CASE \E o \in {"write", "try"} : RequestWrite(t, o)
    BY <1>0, <2>3 DEF TypeInt, RequestWrite
  <2> QED  BY <1>1, <2>1, <2>2, <2>3
<1>2. ASSUME NEW t \in Threads,
             GiveUp(t) \/ RequestTryLate(t) \/ ReleaseReadSlot(t) \/ ReleaseWriteSlot(t)
      PROVE  Modes' = Modes
  <2>1. CASE GiveUp(t) \/ RequestTryLate(t)
    BY <1>0, <2>1 DEF TypeInt, GiveUp, RequestTryLate, WakeOnGiveUp, WakeAll
  <2>2. CASE ReleaseReadSlot(t)
    BY <1>0, <2>2 DEF TypeInt, ReleaseReadSlot, WakeAll, WakeNone
  <2>3. CASE ReleaseWriteSlot(t)
    BY <1>0, <2>3 DEF TypeInt, ReleaseWriteSlot, WakeAll
  <2> QED  BY <1>2, <2>1, <2>2, <2>3
<1>3. ASSUME NEW t \in Threads, FlockFails(t) \/ Reenter(t) \/ LeaveNested(t)
      PROVE  Modes' = Modes
  BY <1>0, <1>3 DEF TypeInt, FlockFails, Reenter, LeaveNested
<1>4. ASSUME NEW t \in Threads, Flock(t)
      PROVE  Abstract!AcquireShared(t) \/ Abstract!AcquireExclusive(t)
  <2>1. Modes[t] = "none"  BY <1>4 DEF Flock
  <2>2. Modes' = [Modes EXCEPT ![t] = FlockMode(op[t])]
    BY <1>0, <1>4 DEF TypeInt, Flock
  <2>3. \A u \in Threads : Modes[u] # "none" => file[u] = Modes[u]
    BY <1>0 DEF Phases, Phase
  <2>4. CASE op[t] = "read"
    <3>1. \A u \in Threads : Modes[u] # "exclusive"
      BY <1>4, <2>1, <2>3, <2>4 DEF Flock, Conflict, FlockMode
    <3> QED  BY <2>1, <2>2, <2>4, <3>1 DEF Abstract!AcquireShared, FlockMode
  <2>5. CASE op[t] # "read"
    <3>1. \A u \in Threads : Modes[u] \in {"none", "shared", "exclusive"}
      BY DEF FlockMode
    <3>2. \A u \in Threads : Modes[u] = "none"
      BY <1>4, <2>1, <2>3, <2>5, <3>1 DEF Flock, Conflict, FlockMode
    <3> QED  BY <2>2, <2>5, <3>2 DEF Abstract!AcquireExclusive, FlockMode
  <2> QED  BY <2>4, <2>5
<1>5. ASSUME NEW t \in Threads, LeaveOutermost(t)
      PROVE  Abstract!Release({t})
  <2>1. Modes' = [u \in Threads |-> IF u \in {t} THEN "none" ELSE Modes[u]]
    BY <1>0, <1>5 DEF TypeInt, LeaveOutermost
  <2> QED  BY <2>1 DEF Abstract!Release
<1>6. ASSUME NEW p \in Processes, Crash(p)
      PROVE  Abstract!Release({t \in Threads : ProcOf[t] = p})
  <2> DEFINE dead == {t \in Threads : ProcOf[t] = p}
  <2>1. dead # {}  BY <1>6 DEF Crash
  <2>2. Modes' = [u \in Threads |-> IF u \in dead THEN "none" ELSE Modes[u]]
    BY <1>0, <1>6 DEF TypeInt, Crash
  <2> QED  BY <2>1, <2>2 DEF Abstract!Release
<1>7. CASE UNCHANGED vars  BY <1>7 DEF vars
<1>8. \A t \in Threads : {t} \in SUBSET Threads  OBVIOUS
<1>9. \A p : {t \in Threads : ProcOf[t] = p} \in SUBSET Threads  OBVIOUS
<1> HIDE DEF ModesOfHolders, HolderMode
<1> QED
  BY <1>1, <1>2, <1>3, <1>4, <1>5, <1>6, <1>7, <1>8, <1>9
     DEF Next, Progress, Use, Leave, Abstract!RwNext

\* locks.py implements the readers-writer lock of RwLock: a nested exit never
\* gives away or changes an outer hold, a shared hold never becomes exclusive.
THEOREM Refinement == Spec => ImplementsRwLock
<1>1. Init => HoldInv  BY HoldInit
<1>2. HoldInv /\ [Next]_vars => HoldInv'  BY HoldStep
<1>3. Init => Abstract!RwInit  BY AbstractInit
<1>4. HoldInv => ModesOfHolders  BY HoldersByPhase
<1>5. HoldInv /\ ModesOfHolders /\ ModesOfHolders' /\ [Next]_vars => [Abstract!RwNext]_Modes
  BY AbstractStep
<1> QED  BY <1>1, <1>2, <1>3, <1>4, <1>5, PTL DEF Spec, ImplementsRwLock, Abstract!RwSpec

-----------------------------------------------------------------------------
(* The in-process counts.                                                  *)

IsReader(t) == op[t] = "read" /\ at[t] \in Acquiring
IsWriter(t) == op[t] \in {"write", "try"} /\ at[t] \in Acquiring
IsWaiting(t) == op[t] \in {"write", "try"} /\ at[t] \in {"asleep", "woken"}

\* One thread acts; the others may only be woken.
ActsAlone(t) ==
    \A u \in Threads \ {t} :
        op'[u] = op[u] /\ (at'[u] = at[u] \/ (at[u] = "asleep" /\ at'[u] = "woken"))

\* A step of one thread changes a counter of its process by its own membership only.
LEMMA OneMove ==
    ASSUME NEW S \in SUBSET Threads, NEW t \in Threads
    PROVE  /\ IsFiniteSet(S) /\ Cardinality(S) \in Nat
           /\ t \notin S => Cardinality(S \union {t}) = Cardinality(S) + 1
           /\ t \in S => Cardinality(S \ {t}) = Cardinality(S) - 1
<1>1. IsFiniteSet(S)  BY ThreadsAssumption, FS_Subset DEF ThreadsAssumption
<1>2. Cardinality(S) \in Nat  BY <1>1, FS_CardinalityType
<1>3. t \notin S => Cardinality(S \union {t}) = Cardinality(S) + 1
  BY <1>1, FS_AddElement
<1>4. t \in S => Cardinality(S \ {t}) = Cardinality(S) - 1
  BY <1>1, FS_RemoveElement
<1> QED  BY <1>1, <1>2, <1>3, <1>4

\* How the sets behind the counts change when t acts.
LEMMA SetsStep ==
    ASSUME TypeInt, NEW t \in Threads, ActsAlone(t), NEW p
    PROVE  /\ (ProcOf[t] # p \/ (IsReader(t)' <=> IsReader(t))) => ReadersIn(p)' = ReadersIn(p)
           /\ (ProcOf[t] # p \/ (IsWriter(t)' <=> IsWriter(t))) => WritersIn(p)' = WritersIn(p)
           /\ (ProcOf[t] # p \/ (IsWaiting(t)' <=> IsWaiting(t))) => WaitingIn(p)' = WaitingIn(p)
           /\ ProcOf[t] = p /\ IsReader(t)' => ReadersIn(p)' = ReadersIn(p) \union {t}
           /\ ProcOf[t] = p /\ IsWriter(t)' => WritersIn(p)' = WritersIn(p) \union {t}
           /\ ProcOf[t] = p /\ IsWaiting(t)' => WaitingIn(p)' = WaitingIn(p) \union {t}
           /\ ProcOf[t] = p /\ ~IsReader(t)' => ReadersIn(p)' = ReadersIn(p) \ {t}
           /\ ProcOf[t] = p /\ ~IsWriter(t)' => WritersIn(p)' = WritersIn(p) \ {t}
           /\ ProcOf[t] = p /\ ~IsWaiting(t)' => WaitingIn(p)' = WaitingIn(p) \ {t}
<1>1. \A u \in Threads \ {t} : /\ IsReader(u)' <=> IsReader(u)
                               /\ IsWriter(u)' <=> IsWriter(u)
                               /\ IsWaiting(u)' <=> IsWaiting(u)
  BY DEF TypeInt, ActsAlone, IsReader, IsWriter, IsWaiting, Acquiring
<1> HIDE DEF ActsAlone, TypeInt
<1>2. /\ (ProcOf[t] # p \/ (IsReader(t)' <=> IsReader(t))) => ReadersIn(p)' = ReadersIn(p)
      /\ ProcOf[t] = p /\ IsReader(t)' => ReadersIn(p)' = ReadersIn(p) \union {t}
      /\ ProcOf[t] = p /\ ~IsReader(t)' => ReadersIn(p)' = ReadersIn(p) \ {t}
  <2>1. /\ ReadersIn(p) \subseteq Threads /\ ReadersIn(p)' \subseteq Threads
        /\ \A u \in Threads : u \in ReadersIn(p) <=> ProcOf[u] = p /\ IsReader(u)
        /\ \A u \in Threads : u \in ReadersIn(p)' <=> ProcOf[u] = p /\ IsReader(u)'
    BY DEF ReadersIn, IsReader
  <2>2. \A u \in Threads \ {t} : u \in ReadersIn(p)' <=> u \in ReadersIn(p)  BY <1>1, <2>1
  <2>3. (ProcOf[t] # p \/ (IsReader(t)' <=> IsReader(t))) => ReadersIn(p)' = ReadersIn(p)  BY <2>1, <2>2
  <2>4. ProcOf[t] = p /\ IsReader(t)' => ReadersIn(p)' = ReadersIn(p) \union {t}  BY <2>1, <2>2
  <2>5. ProcOf[t] = p /\ ~IsReader(t)' => ReadersIn(p)' = ReadersIn(p) \ {t}  BY <2>1, <2>2
  <2> QED  BY <2>3, <2>4, <2>5
<1>3. /\ (ProcOf[t] # p \/ (IsWriter(t)' <=> IsWriter(t))) => WritersIn(p)' = WritersIn(p)
      /\ ProcOf[t] = p /\ IsWriter(t)' => WritersIn(p)' = WritersIn(p) \union {t}
      /\ ProcOf[t] = p /\ ~IsWriter(t)' => WritersIn(p)' = WritersIn(p) \ {t}
  <2>1. /\ WritersIn(p) \subseteq Threads /\ WritersIn(p)' \subseteq Threads
        /\ \A u \in Threads : u \in WritersIn(p) <=> ProcOf[u] = p /\ IsWriter(u)
        /\ \A u \in Threads : u \in WritersIn(p)' <=> ProcOf[u] = p /\ IsWriter(u)'
    BY DEF WritersIn, IsWriter
  <2>2. \A u \in Threads \ {t} : u \in WritersIn(p)' <=> u \in WritersIn(p)  BY <1>1, <2>1
  <2>3. (ProcOf[t] # p \/ (IsWriter(t)' <=> IsWriter(t))) => WritersIn(p)' = WritersIn(p)  BY <2>1, <2>2
  <2>4. ProcOf[t] = p /\ IsWriter(t)' => WritersIn(p)' = WritersIn(p) \union {t}  BY <2>1, <2>2
  <2>5. ProcOf[t] = p /\ ~IsWriter(t)' => WritersIn(p)' = WritersIn(p) \ {t}  BY <2>1, <2>2
  <2> QED  BY <2>3, <2>4, <2>5
<1>4. /\ (ProcOf[t] # p \/ (IsWaiting(t)' <=> IsWaiting(t))) => WaitingIn(p)' = WaitingIn(p)
      /\ ProcOf[t] = p /\ IsWaiting(t)' => WaitingIn(p)' = WaitingIn(p) \union {t}
      /\ ProcOf[t] = p /\ ~IsWaiting(t)' => WaitingIn(p)' = WaitingIn(p) \ {t}
  <2>1. /\ WaitingIn(p) \subseteq Threads /\ WaitingIn(p)' \subseteq Threads
        /\ \A u \in Threads : u \in WaitingIn(p) <=> ProcOf[u] = p /\ IsWaiting(u)
        /\ \A u \in Threads : u \in WaitingIn(p)' <=> ProcOf[u] = p /\ IsWaiting(u)'
    BY DEF WaitingIn, IsWaiting
  <2>2. \A u \in Threads \ {t} : u \in WaitingIn(p)' <=> u \in WaitingIn(p)  BY <1>1, <2>1
  <2>3. (ProcOf[t] # p \/ (IsWaiting(t)' <=> IsWaiting(t))) => WaitingIn(p)' = WaitingIn(p)  BY <2>1, <2>2
  <2>4. ProcOf[t] = p /\ IsWaiting(t)' => WaitingIn(p)' = WaitingIn(p) \union {t}  BY <2>1, <2>2
  <2>5. ProcOf[t] = p /\ ~IsWaiting(t)' => WaitingIn(p)' = WaitingIn(p) \ {t}  BY <2>1, <2>2
  <2> QED  BY <2>3, <2>4, <2>5
<1> QED  BY <1>2, <1>3, <1>4

Count(p) ==
    /\ readers[p] = Cardinality(ReadersIn(p))
    /\ waiting[p] = Cardinality(WaitingIn(p))
    /\ writer[p] <=> WritersIn(p) # {}
    /\ \A t, u \in WritersIn(p) : t = u
    /\ writer[p] => ReadersIn(p) = {}

SameClass(t) ==
    /\ IsReader(t)' <=> IsReader(t)
    /\ IsWriter(t)' <=> IsWriter(t)
    /\ IsWaiting(t)' <=> IsWaiting(t)

\* The sets on either side of t's step, and the sizes of those t joins or leaves.
LEMMA SizesStep ==
    ASSUME TypeInt, NEW t \in Threads, ActsAlone(t), NEW p, ProcOf[t] = p
    PROVE  /\ IsReader(t)' /\ ~IsReader(t) => Cardinality(ReadersIn(p)') = Cardinality(ReadersIn(p)) + 1
           /\ ~IsReader(t)' /\ IsReader(t) => Cardinality(ReadersIn(p)') = Cardinality(ReadersIn(p)) - 1
           /\ IsWaiting(t)' /\ ~IsWaiting(t) => Cardinality(WaitingIn(p)') = Cardinality(WaitingIn(p)) + 1
           /\ ~IsWaiting(t)' /\ IsWaiting(t) => Cardinality(WaitingIn(p)') = Cardinality(WaitingIn(p)) - 1
<1>1. /\ ReadersIn(p) \in SUBSET Threads /\ WaitingIn(p) \in SUBSET Threads
      /\ t \in ReadersIn(p) <=> IsReader(t)
      /\ t \in WaitingIn(p) <=> IsWaiting(t)
  BY DEF ReadersIn, WaitingIn, IsReader, IsWaiting
<1>2. /\ IsReader(t)' => ReadersIn(p)' = ReadersIn(p) \union {t}
      /\ ~IsReader(t)' => ReadersIn(p)' = ReadersIn(p) \ {t}
      /\ IsWaiting(t)' => WaitingIn(p)' = WaitingIn(p) \union {t}
      /\ ~IsWaiting(t)' => WaitingIn(p)' = WaitingIn(p) \ {t}
  BY SetsStep
<1>3. /\ t \notin ReadersIn(p) => Cardinality(ReadersIn(p) \union {t}) = Cardinality(ReadersIn(p)) + 1
      /\ t \in ReadersIn(p) => Cardinality(ReadersIn(p) \ {t}) = Cardinality(ReadersIn(p)) - 1
  BY <1>1, OneMove
<1>4. /\ t \notin WaitingIn(p) => Cardinality(WaitingIn(p) \union {t}) = Cardinality(WaitingIn(p)) + 1
      /\ t \in WaitingIn(p) => Cardinality(WaitingIn(p) \ {t}) = Cardinality(WaitingIn(p)) - 1
  BY <1>1, OneMove
<1> QED  BY <1>1, <1>2, <1>3, <1>4

\* When a process counts no reader, none of its threads reads.
LEMMA EmptyBySize ==
    ASSUME NEW p, ~(Cardinality(ReadersIn(p)) > 0)
    PROVE  ReadersIn(p) = {}
<1>1. ReadersIn(p) \in SUBSET Threads  BY DEF ReadersIn
<1>2. IsFiniteSet(ReadersIn(p)) /\ Cardinality(ReadersIn(p)) \in Nat  BY <1>1, ThreadsAssumption, FS_Subset, FS_CardinalityType DEF ThreadsAssumption
<1> QED  BY <1>2, FS_EmptySet

\* Nothing changes for a process whose thread does not act, or acts within its class.
LEMMA StayCount ==
    ASSUME TypeInt, NEW t \in Threads, ActsAlone(t), NEW p, Count(p),
           readers'[p] = readers[p], writer'[p] = writer[p], waiting'[p] = waiting[p],
           ProcOf[t] # p \/ SameClass(t)
    PROVE  Count(p)'
<1>1. ReadersIn(p)' = ReadersIn(p) /\ WritersIn(p)' = WritersIn(p) /\ WaitingIn(p)' = WaitingIn(p)
  BY SetsStep DEF SameClass
<1> QED  BY <1>1 DEF Count

\* Every step changes readers, waiting writers and the writer flag with the threads that
\* they count.
LEMMA CountStep == HoldInv /\ SlotCounts /\ [Next]_vars => SlotCounts'
<1> SUFFICES ASSUME HoldInv, SlotCounts, [Next]_vars, NEW p \in Processes PROVE Count(p)'
  BY DEF SlotCounts, Count
<1>0. TypeInt /\ Phases /\ Count(p)  BY DEF HoldInv, SlotCounts, Count
<1> USE DEF IsReader, IsWriter, IsWaiting, SameClass, Acquiring
<1>1. ASSUME NEW t \in Threads, RequestRead(t) \/ ResumeRead(t)  PROVE Count(p)'
  <2>1. ActsAlone(t) /\ op'[t] = "read" /\ ~IsReader(t) /\ ~IsWriter(t) /\ ~IsWaiting(t)
    BY <1>0, <1>1 DEF TypeInt, Phases, Phase, ActsAlone, RequestRead, ResumeRead, ReadSlot
  <2>2. ReadSlot(t)  BY <1>1 DEF RequestRead, ResumeRead
  <2>3. CASE ReadBlocked(ProcOf[t]) \/ ProcOf[t] # p
    <3>1. SameClass(t) \/ ProcOf[t] # p  BY <1>0, <2>1, <2>2, <2>3 DEF TypeInt, ReadSlot
    <3>2. readers'[p] = readers[p] /\ writer'[p] = writer[p] /\ waiting'[p] = waiting[p]
      BY <1>0, <2>2, <2>3 DEF TypeInt, ReadSlot
    <3> QED  BY <1>0, <2>1, <3>1, <3>2, StayCount
  <2>4. CASE ~ReadBlocked(ProcOf[t]) /\ ProcOf[t] = p
    <3>1. at'[t] = "flock" /\ readers'[p] = readers[p] + 1 /\ ~writer[p]
      BY <1>0, <2>2, <2>4 DEF TypeInt, ReadSlot, ReadBlocked
    <3>2. IsReader(t)' /\ ~IsWriter(t)' /\ ~IsWaiting(t)'  BY <2>1, <3>1
    <3>3. Cardinality(ReadersIn(p)') = Cardinality(ReadersIn(p)) + 1
      BY <1>0, <2>1, <2>4, <3>2, SizesStep
    <3>4. WritersIn(p)' = WritersIn(p) /\ WaitingIn(p)' = WaitingIn(p)
      BY <1>0, <2>1, <3>2, SetsStep
    <3>5. UNCHANGED <<writer, waiting>>  BY <2>2 DEF ReadSlot
    <3> QED  BY <1>0, <3>1, <3>3, <3>4, <3>5 DEF Count
  <2> QED  BY <2>3, <2>4
<1>2. ASSUME NEW t \in Threads, NEW o \in {"write", "try"}, RequestWrite(t, o)  PROVE Count(p)'
  <2>1. ActsAlone(t) /\ op'[t] = o /\ ~IsReader(t) /\ ~IsWriter(t) /\ ~IsWaiting(t)
    BY <1>0, <1>2 DEF TypeInt, Phases, Phase, ActsAlone, RequestWrite
  <2>2. CASE ProcOf[t] # p
    <3>1. readers'[p] = readers[p] /\ writer'[p] = writer[p] /\ waiting'[p] = waiting[p]
      BY <1>0, <1>2, <2>2 DEF TypeInt, RequestWrite
    <3> QED  BY <1>0, <2>1, <2>2, <3>1, StayCount
  <2>3. CASE ProcOf[t] = p /\ WriteBlocked(p)
    <3>1. at'[t] = "asleep" /\ waiting'[p] = waiting[p] + 1 /\ UNCHANGED <<readers, writer>>
      BY <1>0, <1>2, <2>3 DEF TypeInt, RequestWrite
    <3>2. ~IsReader(t)' /\ ~IsWriter(t)' /\ IsWaiting(t)'  BY <2>1, <3>1
    <3>3. Cardinality(WaitingIn(p)') = Cardinality(WaitingIn(p)) + 1
      BY <1>0, <2>1, <2>3, <3>2, SizesStep
    <3>4. ReadersIn(p)' = ReadersIn(p) /\ WritersIn(p)' = WritersIn(p)
      BY <1>0, <2>1, <3>2, SetsStep
    <3> QED  BY <1>0, <3>1, <3>3, <3>4 DEF Count
  <2>4. CASE ProcOf[t] = p /\ ~WriteBlocked(p)
    <3>1. at'[t] = "flock" /\ writer'[p] /\ UNCHANGED <<readers, waiting>>
      BY <1>0, <1>2, <2>4 DEF TypeInt, RequestWrite
    <3>2. ~IsReader(t)' /\ IsWriter(t)' /\ ~IsWaiting(t)'  BY <2>1, <3>1
    <3>3. ~writer[p] /\ ~(readers[p] > 0)  BY <2>4 DEF WriteBlocked
    <3>4. WritersIn(p)' = WritersIn(p) \union {t} /\ WritersIn(p) = {}
      BY <1>0, <2>1, <2>4, <3>2, <3>3, SetsStep DEF Count
    <3>5. ReadersIn(p)' = ReadersIn(p) /\ WaitingIn(p)' = WaitingIn(p)
      BY <1>0, <2>1, <3>2, SetsStep
    <3>6. ReadersIn(p) = {}  BY <1>0, <3>3, EmptyBySize DEF Count
    <3> QED  BY <1>0, <3>1, <3>4, <3>5, <3>6 DEF Count
  <2> QED  BY <2>2, <2>3, <2>4
<1>3. ASSUME NEW t \in Threads, ResumeWrite(t)  PROVE Count(p)'
  <2>1. ActsAlone(t) /\ op'[t] = op[t] /\ ~IsReader(t) /\ ~IsWriter(t) /\ IsWaiting(t)
    BY <1>0, <1>3 DEF TypeInt, Phases, Phase, ActsAlone, ResumeWrite
  <2>2. CASE ProcOf[t] # p \/ WriteBlocked(ProcOf[t])
    <3>1. readers'[p] = readers[p] /\ writer'[p] = writer[p] /\ waiting'[p] = waiting[p]
      BY <1>0, <1>3, <2>2 DEF TypeInt, ResumeWrite
    <3>2. ProcOf[t] # p \/ SameClass(t)  BY <1>0, <1>3, <2>1, <2>2 DEF TypeInt, ResumeWrite
    <3> QED  BY <1>0, <2>1, <3>1, <3>2, StayCount
  <2>3. CASE ProcOf[t] = p /\ ~WriteBlocked(p)
    <3>1. at'[t] = "flock" /\ writer'[p] /\ waiting'[p] = waiting[p] - 1 /\ UNCHANGED readers
      BY <1>0, <1>3, <2>3 DEF TypeInt, ResumeWrite
    <3>2. ~IsReader(t)' /\ IsWriter(t)' /\ ~IsWaiting(t)'  BY <2>1, <3>1
    <3>3. ~writer[p] /\ ~(readers[p] > 0)  BY <2>3 DEF WriteBlocked
    <3>4. WritersIn(p)' = WritersIn(p) \union {t} /\ WritersIn(p) = {}
      BY <1>0, <2>1, <2>3, <3>2, <3>3, SetsStep DEF Count
    <3>5. ReadersIn(p)' = ReadersIn(p)  BY <1>0, <2>1, <3>2, SetsStep
    <3>6. ReadersIn(p) = {}  BY <1>0, <3>3, EmptyBySize DEF Count
    <3>7. Cardinality(WaitingIn(p)') = Cardinality(WaitingIn(p)) - 1
      BY <1>0, <2>1, <2>3, <3>2, SizesStep
    <3> QED  BY <1>0, <3>1, <3>4, <3>5, <3>6, <3>7 DEF Count
  <2> QED  BY <2>2, <2>3
<1>4. ASSUME NEW t \in Threads, GiveUp(t)  PROVE Count(p)'
  <2>1. ActsAlone(t) /\ op'[t] = "none" /\ ~IsReader(t) /\ ~IsWriter(t) /\ IsWaiting(t)
    BY <1>0, <1>4 DEF TypeInt, ActsAlone, GiveUp, WakeOnGiveUp, WakeAll
  <2>2. ~IsReader(t)' /\ ~IsWriter(t)' /\ ~IsWaiting(t)'  BY <2>1
  <2>3. CASE ProcOf[t] # p
    <3>1. readers'[p] = readers[p] /\ writer'[p] = writer[p] /\ waiting'[p] = waiting[p]
      BY <1>0, <1>4, <2>3 DEF TypeInt, GiveUp
    <3> QED  BY <1>0, <2>1, <2>3, <3>1, StayCount
  <2>4. CASE ProcOf[t] = p
    <3>1. waiting'[p] = waiting[p] - 1 /\ UNCHANGED <<readers, writer>>
      BY <1>0, <1>4, <2>4 DEF TypeInt, GiveUp
    <3>2. Cardinality(WaitingIn(p)') = Cardinality(WaitingIn(p)) - 1
      BY <1>0, <2>1, <2>2, <2>4, SizesStep
    <3>3. ReadersIn(p)' = ReadersIn(p) /\ WritersIn(p)' = WritersIn(p)
      BY <1>0, <2>1, <2>2, SetsStep
    <3> QED  BY <1>0, <3>1, <3>2, <3>3 DEF Count
  <2> QED  BY <2>3, <2>4
<1>5. ASSUME NEW t \in Threads, RequestTryLate(t)  PROVE Count(p)'
  <2>1. ActsAlone(t) /\ op' = op /\ op[t] = "none"
    BY <1>0, <1>5 DEF TypeInt, Phases, Phase, ActsAlone, RequestTryLate, WakeOnGiveUp, WakeAll
  <2>2. SameClass(t) /\ UNCHANGED <<readers, writer, waiting>>
    BY <1>5, <2>1 DEF RequestTryLate
  <2> QED  BY <1>0, <2>1, <2>2, StayCount
<1>6. ASSUME NEW t \in Threads,
             Flock(t) \/ FlockFails(t) \/ Reenter(t) \/ LeaveNested(t) \/ LeaveOutermost(t)
      PROVE  Count(p)'
  <2>1. /\ ActsAlone(t) /\ op' = op /\ at[t] \in Acquiring /\ at'[t] \in Acquiring
        /\ UNCHANGED <<readers, writer, waiting>>
    BY <1>0, <1>6 DEF TypeInt, ActsAlone, Flock, FlockFails, Reenter, LeaveNested, LeaveOutermost
  <2>2. SameClass(t)  BY <2>1
  <2> QED  BY <1>0, <2>1, <2>2, StayCount
<1>7. ASSUME NEW t \in Threads, ReleaseReadSlot(t)  PROVE Count(p)'
  <2>1. ActsAlone(t) /\ op'[t] = "none" /\ IsReader(t) /\ ~IsWriter(t) /\ ~IsWaiting(t)
    BY <1>0, <1>7 DEF TypeInt, ActsAlone, ReleaseReadSlot, WakeAll, WakeNone
  <2>2. ~IsReader(t)' /\ ~IsWriter(t)' /\ ~IsWaiting(t)'  BY <2>1
  <2>3. CASE ProcOf[t] # p
    <3>1. readers'[p] = readers[p] /\ writer'[p] = writer[p] /\ waiting'[p] = waiting[p]
      BY <1>0, <1>7, <2>3 DEF TypeInt, ReleaseReadSlot
    <3> QED  BY <1>0, <2>1, <2>3, <3>1, StayCount
  <2>4. CASE ProcOf[t] = p
    <3>1. readers'[p] = readers[p] - 1 /\ UNCHANGED <<writer, waiting>>
      BY <1>0, <1>7, <2>4 DEF TypeInt, ReleaseReadSlot
    <3>2. Cardinality(ReadersIn(p)') = Cardinality(ReadersIn(p)) - 1
      BY <1>0, <2>1, <2>2, <2>4, SizesStep
    <3>3. WritersIn(p)' = WritersIn(p) /\ WaitingIn(p)' = WaitingIn(p)
      BY <1>0, <2>1, <2>2, SetsStep
    <3>4. t \in ReadersIn(p)  BY <2>1, <2>4 DEF ReadersIn
    <3> QED  BY <1>0, <3>1, <3>2, <3>3, <3>4 DEF Count
  <2> QED  BY <2>3, <2>4
<1>8. ASSUME NEW t \in Threads, ReleaseWriteSlot(t)  PROVE Count(p)'
  <2>1. ActsAlone(t) /\ op'[t] = "none" /\ ~IsReader(t) /\ IsWriter(t) /\ ~IsWaiting(t)
    BY <1>0, <1>8 DEF TypeInt, ActsAlone, ReleaseWriteSlot, WakeAll
  <2>2. ~IsReader(t)' /\ ~IsWriter(t)' /\ ~IsWaiting(t)'  BY <2>1
  <2>3. CASE ProcOf[t] # p
    <3>1. readers'[p] = readers[p] /\ writer'[p] = writer[p] /\ waiting'[p] = waiting[p]
      BY <1>0, <1>8, <2>3 DEF TypeInt, ReleaseWriteSlot
    <3> QED  BY <1>0, <2>1, <2>3, <3>1, StayCount
  <2>4. CASE ProcOf[t] = p
    <3>1. ~writer'[p] /\ UNCHANGED <<readers, waiting>>
      BY <1>0, <1>8, <2>4 DEF TypeInt, ReleaseWriteSlot
    <3>2. ReadersIn(p)' = ReadersIn(p) /\ WaitingIn(p)' = WaitingIn(p)
      BY <1>0, <2>1, <2>2, SetsStep
    <3>3. WritersIn(p)' = WritersIn(p) \ {t}  BY <1>0, <2>1, <2>2, <2>4, SetsStep
    <3>4. t \in WritersIn(p)  BY <2>1, <2>4 DEF WritersIn
    <3>5. WritersIn(p)' = {}  BY <1>0, <3>3, <3>4 DEF Count
    <3> QED  BY <1>0, <3>1, <3>2, <3>5 DEF Count
  <2> QED  BY <2>3, <2>4
<1>9. ASSUME NEW q \in Processes, Crash(q)  PROVE Count(p)'
  <2>1. CASE q = p
    <3>1. readers'[p] = 0 /\ ~writer'[p] /\ waiting'[p] = 0
      BY <1>0, <1>9, <2>1 DEF TypeInt, Crash
    <3>2. ReadersIn(p)' = {} /\ WritersIn(p)' = {} /\ WaitingIn(p)' = {}
      BY <1>0, <1>9, <2>1 DEF TypeInt, Crash, ReadersIn, WritersIn, WaitingIn
    <3> QED  BY <3>1, <3>2, FS_EmptySet DEF Count
  <2>2. CASE q # p
    <3>1. readers'[p] = readers[p] /\ writer'[p] = writer[p] /\ waiting'[p] = waiting[p]
      BY <1>0, <1>9, <2>2 DEF TypeInt, Crash
    <3>2. \A u \in Threads : ProcOf[u] = p => op'[u] = op[u] /\ at'[u] = at[u]
      BY <1>0, <1>9, <2>2 DEF TypeInt, Crash
    <3>3. ReadersIn(p)' = ReadersIn(p) /\ WritersIn(p)' = WritersIn(p) /\ WaitingIn(p)' = WaitingIn(p)
      BY <3>2 DEF ReadersIn, WritersIn, WaitingIn
    <3> QED  BY <1>0, <3>1, <3>3 DEF Count
  <2> QED  BY <2>1, <2>2
<1>10. CASE UNCHANGED vars
  BY <1>0, <1>10 DEF vars, Count, ReadersIn, WritersIn, WaitingIn
<1> QED
  BY <1>1, <1>2, <1>3, <1>4, <1>5, <1>6, <1>7, <1>8, <1>9, <1>10 DEF Next, Progress, Use, Leave

\* The counters of a new process are those of no thread.
LEMMA CountInit == Init => SlotCounts
<1> SUFFICES ASSUME Init, NEW p \in Processes PROVE Count(p)
  BY DEF SlotCounts, Count
<1>1. ReadersIn(p) = {} /\ WritersIn(p) = {} /\ WaitingIn(p) = {}
  BY DEF Init, ReadersIn, WritersIn, WaitingIn
<1> QED  BY <1>1, FS_EmptySet DEF Init, Count

\* Sizes are natural numbers, so the counters are.
LEMMA CountersNat == HoldInv /\ SlotCounts => TypeOK
<1> SUFFICES ASSUME HoldInv, SlotCounts PROVE TypeOK  OBVIOUS
<1>1. \A p \in Processes : readers[p] \in Nat /\ waiting[p] \in Nat
  <2> TAKE p \in Processes
  <2>1. ReadersIn(p) \in SUBSET Threads /\ WaitingIn(p) \in SUBSET Threads
    BY DEF ReadersIn, WaitingIn
  <2>2. IsFiniteSet(ReadersIn(p)) /\ IsFiniteSet(WaitingIn(p))
    BY <2>1, ThreadsAssumption, FS_Subset DEF ThreadsAssumption
  <2>3. Cardinality(ReadersIn(p)) \in Nat /\ Cardinality(WaitingIn(p)) \in Nat
    BY <2>2, FS_CardinalityType
  <2> QED  BY <2>3 DEF SlotCounts
<1>2. readers \in [Processes -> Nat] /\ waiting \in [Processes -> Nat]
  BY <1>1 DEF HoldInv, TypeInt
<1>3. held \in [Threads -> [ex : Nat, sh : Nat]]
  <2>1. \A t \in Threads : held[t] \in [ex : Nat, sh : Nat]
    <3> TAKE t \in Threads
    <3>1. held[t].ex \in Int /\ held[t].sh \in Int /\ held[t] = [ex |-> held[t].ex, sh |-> held[t].sh]
      BY DEF HoldInv, TypeInt
    <3>2. held[t].ex >= 0 /\ held[t].sh >= 0
      BY <3>1 DEF HoldInv, Phases, Phase, Outermost, Free
    <3>3. held[t].ex \in Nat /\ held[t].sh \in Nat  BY <3>1, <3>2
    <3> QED  BY <3>1, <3>3
  <2> QED  BY <2>1 DEF HoldInv, TypeInt
<1> QED  BY <1>2, <1>3 DEF HoldInv, TypeInt, TypeOK

\* Every step that makes the condition of a waiting thread true notifies it (notify_all).
LEMMA WakeupStep ==
    HoldInv /\ SlotCounts /\ NoLostWakeup /\ [Next]_vars => NoLostWakeup'
<1> SUFFICES ASSUME HoldInv, SlotCounts, NoLostWakeup, [Next]_vars PROVE NoLostWakeup'
  OBVIOUS
<1>0. TypeInt /\ TypeOK  BY CountersNat DEF HoldInv
<1> USE ThreadsAssumption DEF ThreadsAssumption
<1>1. ASSUME NEW t \in Threads, RequestRead(t) \/ ResumeRead(t)  PROVE NoLostWakeup'
  <2>1. ReadSlot(t) /\ op'[t] = "read" /\ \A u \in Threads \ {t} : op'[u] = op[u]
    BY <1>0, <1>1 DEF TypeInt, RequestRead, ResumeRead
  <2> QED  BY <1>0, <2>1 DEF TypeOK, NoLostWakeup, ReadSlot, ReadBlocked, WriteBlocked
<1>2. ASSUME NEW t \in Threads, NEW o \in {"write", "try"}, RequestWrite(t, o)
      PROVE  NoLostWakeup'
  BY <1>0, <1>2 DEF TypeOK, NoLostWakeup, RequestWrite, ReadBlocked, WriteBlocked
<1>3. ASSUME NEW t \in Threads, ResumeWrite(t)  PROVE NoLostWakeup'
  BY <1>0, <1>3 DEF TypeOK, NoLostWakeup, ResumeWrite, ReadBlocked, WriteBlocked
<1>4. ASSUME NEW t \in Threads, GiveUp(t) \/ RequestTryLate(t) \/ ReleaseWriteSlot(t)
      PROVE  NoLostWakeup'
  \* every sleeper of the process is notified; elsewhere nothing changes
  <2>1. \A u \in Threads : at'[u] = "asleep" =>
          at[u] = "asleep" /\ op'[u] = op[u] /\ ProcOf[u] # ProcOf[t]
    BY <1>0, <1>4 DEF TypeInt, GiveUp, RequestTryLate, ReleaseWriteSlot, WakeOnGiveUp, WakeAll
  <2>2. \A q \in Processes \ {ProcOf[t]} :
          readers'[q] = readers[q] /\ writer'[q] = writer[q] /\ waiting'[q] = waiting[q]
    BY <1>0, <1>4 DEF TypeInt, GiveUp, RequestTryLate, ReleaseWriteSlot
  <2> QED  BY <2>1, <2>2 DEF NoLostWakeup, ReadBlocked, WriteBlocked
<1>5. ASSUME NEW t \in Threads,
             Flock(t) \/ FlockFails(t) \/ Reenter(t) \/ LeaveNested(t) \/ LeaveOutermost(t)
      PROVE  NoLostWakeup'
  <2>1. UNCHANGED <<op, readers, writer, waiting>>
        /\ \A u \in Threads : at'[u] = "asleep" => at[u] = "asleep"
    BY <1>0, <1>5 DEF TypeInt, Flock, FlockFails, Reenter, LeaveNested, LeaveOutermost
  <2> QED  BY <2>1 DEF NoLostWakeup, ReadBlocked, WriteBlocked
<1>6. ASSUME NEW t \in Threads, ReleaseReadSlot(t)  PROVE NoLostWakeup'
  <2>1. /\ UNCHANGED <<writer, waiting>> /\ op' = [op EXCEPT ![t] = "none"]
        /\ readers' = [readers EXCEPT ![ProcOf[t]] = @ - 1]
    BY <1>6 DEF ReleaseReadSlot
  <2>2. \A u \in Threads : at'[u] = "asleep" => at[u] = "asleep" /\ u # t
    BY <1>0, <1>6 DEF TypeInt, ReleaseReadSlot, WakeAll, WakeNone
  <2>3. CASE readers[ProcOf[t]] = 1
    <3>1. \A u \in Threads : at'[u] = "asleep" => ProcOf[u] # ProcOf[t]
      BY <1>0, <1>6, <2>3 DEF TypeInt, ReleaseReadSlot, WakeAll
    <3> QED  BY <1>0, <2>1, <2>2, <3>1 DEF TypeOK, NoLostWakeup, ReadBlocked, WriteBlocked
  \* others are still inside, so writers stay blocked; readers are blocked as before
  <2>4. CASE readers[ProcOf[t]] # 1
    <3>1. t \in ReadersIn(ProcOf[t])  BY <1>6 DEF ReleaseReadSlot, ReadersIn, Acquiring
    <3>2. readers[ProcOf[t]] > 0
      <4>1. ReadersIn(ProcOf[t]) \in SUBSET Threads  BY DEF ReadersIn
      <4>2. IsFiniteSet(ReadersIn(ProcOf[t]))  BY <4>1, FS_Subset
      <4>3. Cardinality(ReadersIn(ProcOf[t])) # 0  BY <3>1, <4>2, FS_EmptySet
      <4> QED  BY <1>0, <4>3 DEF SlotCounts, TypeOK
    <3>3. readers'[ProcOf[t]] > 0  BY <1>0, <2>1, <2>4, <3>2 DEF TypeOK
    <3> QED
      BY <1>0, <2>1, <2>2, <3>2, <3>3 DEF TypeOK, NoLostWakeup, ReadBlocked, WriteBlocked
  <2> QED  BY <2>3, <2>4
<1>7. ASSUME NEW q \in Processes, Crash(q)  PROVE NoLostWakeup'
  <2>1. \A u \in Threads : at'[u] = "asleep" => at[u] = "asleep" /\ op'[u] = op[u] /\ ProcOf[u] # q
    BY <1>0, <1>7 DEF TypeInt, Crash
  <2>2. \A p \in Processes \ {q} :
          readers'[p] = readers[p] /\ writer'[p] = writer[p] /\ waiting'[p] = waiting[p]
    BY <1>0, <1>7 DEF TypeInt, Crash
  <2> QED  BY <2>1, <2>2 DEF NoLostWakeup, ReadBlocked, WriteBlocked
<1>8. CASE UNCHANGED vars
  BY <1>8 DEF vars, NoLostWakeup, ReadBlocked, WriteBlocked
<1> QED
  BY <1>1, <1>2, <1>3, <1>4, <1>5, <1>6, <1>7, <1>8 DEF Next, Progress, Use, Leave

-----------------------------------------------------------------------------
\* The invariant of the locking protocol holds before any thread has asked for the lock.
LEMMA InvInit == Init => IInv
<1> SUFFICES ASSUME Init PROVE IInv  OBVIOUS
<1>1. NoLostWakeup  BY DEF Init, NoLostWakeup
<1> QED  BY <1>1, HoldInit, CountInit DEF IInv

\* The invariant of the locking protocol is kept by every step of every thread and process.
LEMMA InvStep == IInv /\ [Next]_vars => IInv'
BY HoldStep, CountStep, WakeupStep DEF IInv

\* Types, and with them that no counter of the condition goes below zero.
THEOREM Types == Spec => []TypeOK
<1>1. Init => IInv  BY InvInit
<1>2. IInv /\ [Next]_vars => IInv'  BY InvStep
<1>3. IInv => TypeOK  BY CountersNat DEF IInv
<1> QED  BY <1>1, <1>2, <1>3, PTL DEF Spec

\* The counts of the condition are the numbers of threads they stand for.
THEOREM Counts == Spec => []SlotCounts
<1>1. Init => IInv  BY InvInit
<1>2. IInv /\ [Next]_vars => IInv'  BY InvStep
<1>3. IInv => SlotCounts  BY DEF IInv
<1> QED  BY <1>1, <1>2, <1>3, PTL DEF Spec

\* No thread sleeps while its condition holds, whatever the number of threads.
THEOREM Wakeups == Spec => []NoLostWakeup
<1>1. Init => IInv  BY InvInit
<1>2. IInv /\ [Next]_vars => IInv'  BY InvStep
<1>3. IInv => NoLostWakeup  BY DEF IInv
<1> QED  BY <1>1, <1>2, <1>3, PTL DEF Spec

-----------------------------------------------------------------------------
(* The gates of a model call.                                              *)

-----------------------------------------------------------------------------
(* Sequences without repetition.                                           *)

\* deque.append of what the deque does not hold.
LEMMA Appended ==
    ASSUME NEW S, NEW s \in Seq(S), NEW e \in S, IsInjective(s), e \notin ToSet(s)
    PROVE  /\ Append(s, e) \in Seq(S)
           /\ IsInjective(Append(s, e))
           /\ ToSet(Append(s, e)) = ToSet(s) \cup {e}
<1> DEFINE t == Append(s, e)
<1>1. /\ t \in Seq(S) /\ Len(t) = Len(s) + 1 /\ t[Len(s) + 1] = e
      /\ \A i \in 1..Len(s) : t[i] = s[i]
      /\ DOMAIN t = 1..Len(s) + 1 /\ DOMAIN s = 1..Len(s) /\ Len(s) \in Nat
    OBVIOUS
<1> HIDE DEF t
<1>2. IsInjective(t)
    BY <1>1 DEF IsInjective, ToSet
<1>3. ToSet(t) = ToSet(s) \cup {e}
  <2>1. ASSUME NEW x \in ToSet(t) PROVE x \in ToSet(s) \cup {e}
    <3>1. PICK i \in DOMAIN t : x = t[i]
        BY <2>1 DEF ToSet
    <3> QED BY <1>1, <3>1 DEF ToSet
  <2>2. ASSUME NEW x \in ToSet(s) \cup {e} PROVE x \in ToSet(t)
    <3>1. PICK i \in DOMAIN t : x = t[i]
        BY <1>1, <2>2 DEF ToSet
    <3> QED BY <3>1 DEF ToSet
  <2> QED BY <2>1, <2>2
<1> QED BY <1>1, <1>2, <1>3 DEF t

\* deque.popleft.
LEMMA Popped ==
    ASSUME NEW S, NEW s \in Seq(S), s # <<>>
    PROVE  /\ Tail(s) \in Seq(S) /\ Len(Tail(s)) = Len(s) - 1
           /\ Head(s) = s[1] /\ Head(s) \in ToSet(s)
           /\ IsInjective(s) => /\ IsInjective(Tail(s))
                                /\ ToSet(Tail(s)) = ToSet(s) \ {Head(s)}
<1> DEFINE t == Tail(s)
<1>1. /\ t \in Seq(S) /\ Len(t) = Len(s) - 1 /\ Len(s) \in Nat \ {0}
      /\ \A i \in 1..Len(s) - 1 : t[i] = s[i + 1]
      /\ DOMAIN t = 1..Len(s) - 1 /\ DOMAIN s = 1..Len(s) /\ Head(s) = s[1]
    OBVIOUS
<1> HIDE DEF t
<1>2. Head(s) \in ToSet(s)
    BY <1>1 DEF ToSet
<1>3. ASSUME IsInjective(s) PROVE IsInjective(t) /\ ToSet(t) = ToSet(s) \ {s[1]}
  <2>1. IsInjective(t)
      BY <1>1, <1>3 DEF IsInjective
  <2>2. ASSUME NEW x \in ToSet(t) PROVE x \in ToSet(s) \ {s[1]}
    <3>1. PICK i \in DOMAIN t : x = t[i]
        BY <2>2 DEF ToSet
    <3>2. x = s[i + 1] /\ i + 1 \in DOMAIN s /\ i + 1 # 1 /\ 1 \in DOMAIN s
        BY <1>1, <3>1
    <3>3. x \in ToSet(s)
        BY <3>2 DEF ToSet
    <3> QED BY <1>3, <3>2, <3>3 DEF IsInjective
  <2>3. ASSUME NEW x \in ToSet(s) \ {s[1]} PROVE x \in ToSet(t)
    <3>1. PICK i \in DOMAIN s : x = s[i]
        BY <2>3 DEF ToSet
    <3>2. i - 1 \in DOMAIN t /\ x = t[i - 1]
        BY <1>1, <2>3, <3>1
    <3> QED BY <3>2 DEF ToSet
  <2> QED BY <2>1, <2>2, <2>3
<1> QED BY <1>1, <1>2, <1>3 DEF t

\* deque.remove of an element that the deque holds.
LEMMA Removed ==
    ASSUME NEW S, NEW s \in Seq(S), NEW e \in ToSet(s), IsInjective(s)
    PROVE  /\ RemoveFirst(s, e) \in Seq(S)
           /\ IsInjective(RemoveFirst(s, e))
           /\ ToSet(RemoveFirst(s, e)) = ToSet(s) \ {e}
<1>1. PICK i \in 1..Len(s) : s[i] = e
    BY DEF ToSet
<1>2. {k \in 1..Len(s) : s[k] = e} = {i}
    BY <1>1 DEF IsInjective
<1>3. Min({i}) = i
    BY DEF Min
<1>4. RemoveFirst(s, e) = RemoveAt(s, i)
    BY <1>1, <1>2, <1>3 DEF RemoveFirst, SelectInSeq
<1> DEFINE t == RemoveAt(s, i)
<1>5. /\ t \in Seq(S) /\ Len(t) = Len(s) - 1
      /\ \A k \in 1..Len(s) - 1 : t[k] = IF k < i THEN s[k] ELSE s[k + 1]
  <2>1. i \in Nat \ {0} /\ Len(s) \in Nat /\ i <= Len(s)
      BY <1>1
  <2> DEFINE a == SubSeq(s, 1, i - 1)
             b == SubSeq(s, i + 1, Len(s))
  <2>2. a \in Seq(S) /\ Len(a) = i - 1 /\ \A k \in 1..i - 1 : a[k] = s[k]
      BY <2>1
  <2>3. /\ b \in Seq(S) /\ Len(b) = Len(s) - i
        /\ \A k \in 1..Len(s) - i : b[k] = s[i + k]
      BY <2>1
  <2> HIDE DEF a, b
  <2>4. a \o b \in Seq(S) /\ Len(a \o b) = Len(a) + Len(b)
      BY <2>2, <2>3, ConcatProperties
  <2>5. \A k \in 1..Len(a) + Len(b) : (a \o b)[k] = IF k <= Len(a) THEN a[k] ELSE b[k - Len(a)]
      BY <2>2, <2>3, ConcatProperties
  <2>6. t = a \o b
      BY DEF RemoveAt, a, b
  <2> HIDE DEF t
  <2>7. ASSUME NEW k \in 1..Len(s) - 1 PROVE t[k] = IF k < i THEN s[k] ELSE s[k + 1]
    <3>1. CASE k < i
        BY <2>1, <2>2, <2>3, <2>5, <2>6, <3>1
    <3>2. CASE ~ k < i
      <4>1. k - (i - 1) \in 1..Len(s) - i /\ i + (k - (i - 1)) = k + 1
          BY <2>1, <3>2
      <4>2. b[k - (i - 1)] = s[k + 1]
          BY <2>3, <4>1
      <4> QED BY <2>1, <2>2, <2>3, <2>5, <2>6, <3>2, <4>2
    <3> QED BY <3>1, <3>2
  <2>8. Len(a) + Len(b) = Len(s) - 1
      BY <2>1, <2>2, <2>3
  <2>9. t \in Seq(S) /\ Len(t) = Len(s) - 1
      BY <2>4, <2>6, <2>8
  <2> QED BY <2>7, <2>9
<1>6. DOMAIN t = 1..Len(s) - 1 /\ DOMAIN s = 1..Len(s) /\ Len(s) \in Nat /\ i \in Nat
  <2> HIDE DEF t
  <2> QED BY <1>1, <1>5
<1> HIDE DEF t
<1>7. IsInjective(t)
  <2> SUFFICES ASSUME NEW j \in DOMAIN t, NEW k \in DOMAIN t, t[j] = t[k] PROVE j = k
      BY DEF IsInjective
  <2> DEFINE place(n) == IF n < i THEN n ELSE n + 1
  <2>1. place(j) \in DOMAIN s /\ place(k) \in DOMAIN s /\ t[j] = s[place(j)] /\ t[k] = s[place(k)]
      BY <1>5, <1>6
  <2>2. place(j) = place(k)
    <3> HIDE DEF place
    <3> QED BY <2>1 DEF IsInjective
  <2> QED BY <1>6, <2>2
<1>8. ASSUME NEW x \in ToSet(t) PROVE x \in ToSet(s) \ {e}
  <2>1. PICK j \in DOMAIN t : x = t[j]
      BY <1>8 DEF ToSet
  <2> DEFINE k == IF j < i THEN j ELSE j + 1
  <2>2. k \in DOMAIN s /\ x = s[k] /\ k # i
      BY <1>5, <1>6, <2>1
  <2> HIDE DEF k
  <2> QED BY <1>1, <1>6, <2>2 DEF ToSet, IsInjective
<1>9. ASSUME NEW x \in ToSet(s) \ {e} PROVE x \in ToSet(t)
  <2>1. PICK k \in DOMAIN s : x = s[k]
      BY <1>9 DEF ToSet
  <2> DEFINE j == IF k < i THEN k ELSE k - 1
  <2>2. j \in DOMAIN t /\ x = t[j]
      BY <1>1, <1>5, <1>6, <1>9, <2>1
  <2> HIDE DEF j
  <2> QED BY <2>2 DEF ToSet
<1> QED BY <1>4, <1>5, <1>7, <1>8, <1>9 DEF t

-----------------------------------------------------------------------------
(* Rotors: the groups that have turns are those that have tickets.         *)

Shape(r) ==
    /\ Rotor(r)
    /\ IsInjective(r.ready)
    /\ ToSet(r.ready) = {g \in Groups : r.queue[g] # <<>>}

\* A rotor on which nobody waits.
LEMMA EmptyShape == Shape(EmptyRotor) /\ EmptyRotor.queue = [g \in Groups |-> <<>>]
<1>1. EmptyRotor.queue \in [Groups -> Seq(Calls)] /\ EmptyRotor.last = None
    BY DEF EmptyRotor
<1>2. EmptyRotor.ready = <<>>
    BY DEF EmptyRotor
<1>3. EmptyRotor.ready \in Seq(Groups)
    BY <1>2
<1>4. IsInjective(EmptyRotor.ready) /\ ToSet(EmptyRotor.ready) = {}
    BY <1>2 DEF IsInjective, ToSet
<1>5. \A g \in Groups : EmptyRotor.queue[g] = <<>>
    BY DEF EmptyRotor
<1> QED BY <1>1, <1>3, <1>4, <1>5 DEF Shape, Rotor, EmptyRotor

\* acquire_until_cancelled and _append_waiter: the ticket of a call is appended.
LEMMA JoinShape ==
    ASSUME NEW r, Shape(r), NEW c \in Calls
    PROVE  /\ Shape(Join(r, c))
           /\ Join(r, c).queue = [r.queue EXCEPT ![Group(c)] = Append(@, c)]
           /\ Join(r, c).queue[Group(c)] # <<>>
           /\ Join(r, c).last = r.last
<1> DEFINE g == Group(c)
           q == Join(r, c).queue
           ready == Join(r, c).ready
<1>1. g \in Groups
    BY DEF Groups
<1>2. /\ r.queue \in [Groups -> Seq(Calls)] /\ r.ready \in Seq(Groups)
      /\ r.last \in Groups \cup {None}
    BY DEF Shape, Rotor
<1>3. /\ q = [r.queue EXCEPT ![g] = Append(@, c)]
      /\ ready = IF r.queue[g] = <<>> THEN Append(r.ready, g) ELSE r.ready
      /\ Join(r, c).last = r.last
    BY DEF Join
<1> HIDE DEF q, ready, g
<1>4. r.queue[g] \in Seq(Calls)
    BY <1>1, <1>2
<1>5. Append(r.queue[g], c) \in Seq(Calls) /\ Append(r.queue[g], c) # <<>>
    BY <1>4
<1>6. q \in [Groups -> Seq(Calls)] /\ q[g] # <<>> /\ \A h \in Groups \ {g} : q[h] = r.queue[h]
    BY <1>1, <1>2, <1>3, <1>5
<1>7. /\ ready \in Seq(Groups) /\ IsInjective(ready)
      /\ ToSet(ready) = {h \in Groups : q[h] # <<>>}
  <2>1. CASE r.queue[g] = <<>>
    <3>1. g \notin ToSet(r.ready)
        BY <2>1 DEF Shape
    <3>2. /\ Append(r.ready, g) \in Seq(Groups) /\ IsInjective(Append(r.ready, g))
          /\ ToSet(Append(r.ready, g)) = ToSet(r.ready) \cup {g}
        BY <1>1, <1>2, <3>1, Appended DEF Shape
    <3> QED BY <1>1, <1>3, <1>6, <2>1, <3>2 DEF Shape
  <2>2. CASE r.queue[g] # <<>>
      BY <1>1, <1>2, <1>3, <1>6, <2>2 DEF Shape
  <2> QED BY <2>1, <2>2
<1> QED BY <1>2, <1>3, <1>6, <1>7 DEF Shape, Rotor, q, ready, g

\* The part that going through and giving up share: the first ticket of g is taken.
LEMMA TakenShape ==
    ASSUME NEW r, Shape(r), NEW g \in Groups, r.queue[g] # <<>>,
           NEW x, x.queue = [r.queue EXCEPT ![g] = Tail(@)],
           x.last \in Groups \cup {None},
           \/ Tail(r.queue[g]) = <<>> /\ x.ready = RemoveFirst(r.ready, g)
           \/ Tail(r.queue[g]) # <<>> /\ x.ready = Append(RemoveFirst(r.ready, g), g)
           \/ Tail(r.queue[g]) # <<>> /\ x.ready = r.ready
    PROVE  Shape(x)
<1>1. r.queue \in [Groups -> Seq(Calls)] /\ r.ready \in Seq(Groups)
    BY DEF Shape, Rotor
<1>2. r.queue[g] \in Seq(Calls)
    BY <1>1
<1>3. Tail(r.queue[g]) \in Seq(Calls)
    BY <1>2
<1>4. /\ x.queue \in [Groups -> Seq(Calls)] /\ x.queue[g] = Tail(r.queue[g])
      /\ \A h \in Groups \ {g} : x.queue[h] = r.queue[h]
    BY <1>1, <1>3
<1>5. g \in ToSet(r.ready)
    BY DEF Shape
<1> DEFINE rest == RemoveFirst(r.ready, g)
<1>6. rest \in Seq(Groups) /\ IsInjective(rest) /\ ToSet(rest) = ToSet(r.ready) \ {g}
    BY <1>1, <1>5, Removed DEF Shape
<1> HIDE DEF rest
<1>7. /\ Append(rest, g) \in Seq(Groups) /\ IsInjective(Append(rest, g))
      /\ ToSet(Append(rest, g)) = ToSet(r.ready)
  <2>1. g \notin ToSet(rest) /\ ToSet(rest) \cup {g} = ToSet(r.ready)
      BY <1>5, <1>6
  <2>2. /\ Append(rest, g) \in Seq(Groups) /\ IsInjective(Append(rest, g))
        /\ ToSet(Append(rest, g)) = ToSet(rest) \cup {g}
      BY <1>6, <2>1, Appended
  <2> QED BY <2>1, <2>2
<1>8. /\ x.ready \in Seq(Groups) /\ IsInjective(x.ready)
      /\ ToSet(x.ready) = IF Tail(r.queue[g]) = <<>> THEN ToSet(r.ready) \ {g} ELSE ToSet(r.ready)
  <2>1. CASE Tail(r.queue[g]) = <<>>
      BY <1>6, <2>1 DEF rest
  <2>2. CASE Tail(r.queue[g]) # <<>>
    <3>1. CASE x.ready = r.ready
        BY <1>1, <2>2, <3>1 DEF Shape
    <3>2. CASE x.ready = Append(rest, g)
        BY <1>7, <2>2, <3>2
    <3> QED BY <2>2, <3>1, <3>2 DEF rest
  <2> QED BY <2>1, <2>2
<1>9. ToSet(x.ready) = {h \in Groups : x.queue[h] # <<>>}
  <2>1. \A h \in Groups : h \in ToSet(r.ready) <=> r.queue[h] # <<>>
      BY DEF Shape
  <2>2. ToSet(r.ready) \subseteq Groups
      BY DEF Shape
  <2>3. \A h \in Groups : h \in ToSet(x.ready) <=> x.queue[h] # <<>>
      BY <1>4, <1>8, <2>1
  <2> QED BY <1>8, <2>2, <2>3
<1> QED BY <1>4, <1>8, <1>9 DEF Shape, Rotor

\* The waiter that is next goes through, and its group has its next turn last.
LEMMA ServeShape ==
    ASSUME NEW r, Shape(r), NEW g \in Groups, r.queue[g] # <<>>
    PROVE  Shape(Serve(r, g)) /\ Serve(r, g).queue = [r.queue EXCEPT ![g] = Tail(@)]
<1> DEFINE x == Serve(r, g)
<1>1. /\ x.queue = [r.queue EXCEPT ![g] = Tail(@)] /\ x.last = g
      /\ x.ready = IF Tail(r.queue[g]) = <<>> THEN RemoveFirst(r.ready, g)
                   ELSE Append(RemoveFirst(r.ready, g), g)
    BY DEF Serve
<1> HIDE DEF x
<1>2. \/ Tail(r.queue[g]) = <<>> /\ x.ready = RemoveFirst(r.ready, g)
      \/ Tail(r.queue[g]) # <<>> /\ x.ready = Append(RemoveFirst(r.ready, g), g)
    BY <1>1
<1>3. Shape(x)
    BY <1>1, <1>2, TakenShape
<1> QED BY <1>1, <1>3 DEF x

\* _remove_waiter: a waiter gives up.
LEMMA LeaveShape ==
    ASSUME NEW r, Shape(r), NEW g \in Groups, r.queue[g] # <<>>
    PROVE  Shape(Abandon(r, g)) /\ Abandon(r, g).queue = [r.queue EXCEPT ![g] = Tail(@)]
<1> DEFINE x == Abandon(r, g)
<1>1. /\ x.queue = [r.queue EXCEPT ![g] = Tail(@)] /\ x.last = r.last
      /\ x.ready = IF Tail(r.queue[g]) = <<>> THEN RemoveFirst(r.ready, g) ELSE r.ready
    BY DEF Abandon
<1> HIDE DEF x
<1>2. \/ Tail(r.queue[g]) = <<>> /\ x.ready = RemoveFirst(r.ready, g)
      \/ Tail(r.queue[g]) # <<>> /\ x.ready = r.ready
    BY <1>1
<1>3. x.last \in Groups \cup {None}
    BY <1>1 DEF Shape, Rotor
<1>4. Shape(x)
    BY <1>1, <1>2, <1>3, TakenShape
<1> QED BY <1>1, <1>4 DEF x

-----------------------------------------------------------------------------
(* Tickets: each waiter of a group has one, and its own unless the calls   *)
(* of the group have been cancelled.                                       *)

States == {"out", "gate"} \cup Holding

\* The calls of lane l and group g that wait at a gate, if p says where calls are.
Waiting(p, l, g, place) == {c \in Calls : LaneOf(c) = l /\ Group(c) = g /\ p[c] = place}

\* The calls of a group stop together: they listen to the signal of their job.
SignalsAgree ==
    \A c, d \in Calls :
        LaneOf(c) = LaneOf(d) /\ Group(c) = Group(d) => SignalOf[c] = SignalOf[d]

\* The calls of group g are cancelled, if the signals k are set.
Stopped(l, g, k) == \E c \in Calls : LaneOf(c) = l /\ Group(c) = g /\ SignalOf[c] \in k

CountsMatch(q, p, l, place) ==
    \A g \in Groups : Len(q[g]) = Cardinality(Waiting(p, l, g, place))
OwnTickets(q, p, l, place, k) ==
    SignalsAgree =>
        \A g \in Groups : ~Stopped(l, g, k) =>
            IsInjective(q[g]) /\ ToSet(q[g]) = Waiting(p, l, g, place)
Agrees(r, p, l, place, k) ==
    Shape(r) /\ CountsMatch(r.queue, p, l, place) /\ OwnTickets(r.queue, p, l, place, k)

\* There are finitely many calls, and so finitely many waiters.
LEMMA WaitingFinite ==
    ASSUME IsFiniteSet(Calls), NEW p, NEW l, NEW g, NEW place
    PROVE  IsFiniteSet(Waiting(p, l, g, place)) /\ Cardinality(Waiting(p, l, g, place)) \in Nat
<1>1. Waiting(p, l, g, place) \subseteq Calls
    BY DEF Waiting
<1> QED BY <1>1, FS_Subset, FS_CardinalityType

\* A group with a waiter has a ticket, so that no test of a waiter raises.
LEMMA HasTicket ==
    ASSUME IsFiniteSet(Calls), NEW r, NEW p \in [Calls -> States], NEW k, NEW l \in Lanes,
           NEW place \in States, Agrees(r, p, l, place, k),
           NEW c \in Calls, LaneOf(c) = l, p[c] = place
    PROVE  Group(c) \in Groups /\ r.queue[Group(c)] # <<>> /\ r.queue[Group(c)] \in Seq(Calls)
<1> DEFINE g == Group(c)
<1>1. g \in Groups
    BY DEF Groups
<1>2. r.queue[g] \in Seq(Calls)
    BY <1>1 DEF Agrees, Shape, Rotor
<1>3. c \in Waiting(p, l, g, place)
    BY DEF Waiting
<1>4. IsFiniteSet(Waiting(p, l, g, place))
    BY WaitingFinite
<1>5. Cardinality(Waiting(p, l, g, place)) # 0
    BY <1>3, <1>4, FS_EmptySet
<1>6. Len(r.queue[g]) # 0
    BY <1>1, <1>5 DEF Agrees, CountsMatch
<1> QED BY <1>1, <1>2, <1>6

\* A call that appends its ticket.
LEMMA JoinAgrees ==
    ASSUME IsFiniteSet(Calls), NEW r, NEW p \in [Calls -> States], NEW k, NEW l \in Lanes,
           NEW place \in States, Agrees(r, p, l, place, k),
           NEW c \in Calls, LaneOf(c) = l, p[c] # place
    PROVE  Agrees(Join(r, c), [p EXCEPT ![c] = place], l, place, k)
<1> DEFINE g == Group(c)
           p2 == [p EXCEPT ![c] = place]
           x == Join(r, c)
<1>1. Shape(x) /\ x.queue = [r.queue EXCEPT ![g] = Append(@, c)]
    BY JoinShape DEF Agrees
<1>2. r.queue \in [Groups -> Seq(Calls)] /\ g \in Groups
    BY DEF Agrees, Shape, Rotor, Groups
<1>3. r.queue[g] \in Seq(Calls)
    BY <1>2
<1>4. x.queue[g] = Append(r.queue[g], c) /\ \A h \in Groups \ {g} : x.queue[h] = r.queue[h]
    BY <1>1, <1>2
<1>5. /\ \A h : h # g => Waiting(p2, l, h, place) = Waiting(p, l, h, place)
      /\ Waiting(p2, l, g, place) = Waiting(p, l, g, place) \cup {c}
      /\ c \notin Waiting(p, l, g, place)
      /\ Cardinality(Waiting(p2, l, g, place)) = Cardinality(Waiting(p, l, g, place)) + 1
  <2>1. p2[c] = place /\ \A d \in Calls \ {c} : p2[d] = p[d]
      OBVIOUS
  <2> HIDE DEF p2, x
  <2>2. \A h : h # g => Waiting(p2, l, h, place) = Waiting(p, l, h, place)
      BY <2>1 DEF Waiting
  <2>3. Waiting(p2, l, g, place) = Waiting(p, l, g, place) \cup {c} /\ c \notin Waiting(p, l, g, place)
      BY <2>1 DEF Waiting
  <2> DEFINE w == Waiting(p, l, g, place)
  <2>4. IsFiniteSet(w) /\ c \notin w
      BY <2>3, WaitingFinite
  <2> HIDE DEF w
  <2>5. Cardinality(w \cup {c}) = Cardinality(w) + 1
      BY <2>4, FS_AddElement
  <2> QED BY <2>2, <2>3, <2>5 DEF w
<1> HIDE DEF g, p2, x
<1>6. CountsMatch(x.queue, p2, l, place)
  <2>1. Len(x.queue[g]) = Len(r.queue[g]) + 1
      BY <1>3, <1>4
  <2>2. Len(r.queue[g]) = Cardinality(Waiting(p, l, g, place))
      BY <1>2 DEF Agrees, CountsMatch
  <2>3. \A h \in Groups \ {g} : Len(x.queue[h]) = Cardinality(Waiting(p2, l, h, place))
      BY <1>4, <1>5 DEF Agrees, CountsMatch
  <2> QED BY <1>5, <2>1, <2>2, <2>3 DEF CountsMatch
<1>7. OwnTickets(x.queue, p2, l, place, k)
  <2> SUFFICES ASSUME SignalsAgree, NEW h \in Groups, ~Stopped(l, h, k)
               PROVE  IsInjective(x.queue[h]) /\ ToSet(x.queue[h]) = Waiting(p2, l, h, place)
      BY DEF OwnTickets
  <2>1. IsInjective(r.queue[h]) /\ ToSet(r.queue[h]) = Waiting(p, l, h, place)
      BY DEF Agrees, OwnTickets
  <2>2. CASE h = g
    <3>1. c \notin ToSet(r.queue[g])
        BY <1>5, <2>1, <2>2
    <3>2. IsInjective(x.queue[g]) /\ ToSet(x.queue[g]) = ToSet(r.queue[g]) \cup {c}
        BY <1>3, <1>4, <2>1, <2>2, <3>1, Appended
    <3> QED BY <1>5, <2>1, <2>2, <3>2
  <2>3. CASE h # g
      BY <1>4, <1>5, <2>1, <2>3
  <2> QED BY <2>2, <2>3
<1> QED BY <1>1, <1>6, <1>7 DEF Agrees, x, p2

\* A call that takes the first ticket of its group: it is its own, or the group is
\* cancelled.
LEMMA GoAgrees ==
    ASSUME IsFiniteSet(Calls), NEW r, NEW p \in [Calls -> States], NEW k, NEW l \in Lanes,
           NEW place \in States, Agrees(r, p, l, place, k),
           NEW c \in Calls, LaneOf(c) = l, p[c] = place, NEW to \in States, to # place,
           NEW x, Shape(x), x.queue = [r.queue EXCEPT ![Group(c)] = Tail(@)],
           Head(r.queue[Group(c)]) = c \/ SignalOf[c] \in k
    PROVE  Agrees(x, [p EXCEPT ![c] = to], l, place, k)
<1> DEFINE g == Group(c)
           p2 == [p EXCEPT ![c] = to]
<1>1. x.queue = [r.queue EXCEPT ![g] = Tail(@)]
    OBVIOUS
<1>2. r.queue \in [Groups -> Seq(Calls)]
    BY DEF Agrees, Shape, Rotor
<1>3. g \in Groups /\ r.queue[g] # <<>> /\ r.queue[g] \in Seq(Calls)
    BY HasTicket
<1>4. x.queue[g] = Tail(r.queue[g]) /\ \A h \in Groups \ {g} : x.queue[h] = r.queue[h]
    BY <1>1, <1>2, <1>3
<1>5. /\ \A h : h # g => Waiting(p2, l, h, place) = Waiting(p, l, h, place)
      /\ Waiting(p2, l, g, place) = Waiting(p, l, g, place) \ {c}
      /\ Cardinality(Waiting(p2, l, g, place)) = Cardinality(Waiting(p, l, g, place)) - 1
  <2>1. p2[c] = to /\ \A d \in Calls \ {c} : p2[d] = p[d]
      OBVIOUS
  <2> HIDE DEF p2
  <2>2. \A h : h # g => Waiting(p2, l, h, place) = Waiting(p, l, h, place)
      BY <2>1 DEF Waiting
  <2>3. Waiting(p2, l, g, place) = Waiting(p, l, g, place) \ {c} /\ c \in Waiting(p, l, g, place)
      BY <2>1 DEF Waiting
  <2> DEFINE w == Waiting(p, l, g, place)
  <2>4. IsFiniteSet(w) /\ c \in w
      BY <2>3, WaitingFinite
  <2> HIDE DEF w
  <2>5. Cardinality(w \ {c}) = Cardinality(w) - 1
      BY <2>4, FS_RemoveElement
  <2> QED BY <2>2, <2>3, <2>5 DEF w
<1>6. /\ Len(x.queue[g]) = Len(r.queue[g]) - 1
      /\ IsInjective(r.queue[g]) => /\ IsInjective(x.queue[g])
                                    /\ ToSet(x.queue[g]) = ToSet(r.queue[g]) \ {Head(r.queue[g])}
  <2> DEFINE s == r.queue[g]
  <2>1. s \in Seq(Calls) /\ s # <<>> /\ x.queue[g] = Tail(s)
      BY <1>3, <1>4
  <2> HIDE DEF g, s
  <2>2. /\ Len(Tail(s)) = Len(s) - 1
        /\ IsInjective(s) => IsInjective(Tail(s)) /\ ToSet(Tail(s)) = ToSet(s) \ {Head(s)}
      BY <2>1, Popped
  <2> QED BY <2>1, <2>2 DEF s
<1>7. Head(r.queue[g]) = c \/ Stopped(l, g, k)
    BY DEF Stopped
<1> HIDE DEF g, p2
<1>8. CountsMatch(x.queue, p2, l, place)
  <2>1. Len(r.queue[g]) = Cardinality(Waiting(p, l, g, place))
      BY <1>3 DEF Agrees, CountsMatch
  <2>2. \A h \in Groups \ {g} : Len(x.queue[h]) = Cardinality(Waiting(p2, l, h, place))
      BY <1>4, <1>5 DEF Agrees, CountsMatch
  <2> QED BY <1>5, <1>6, <2>1, <2>2 DEF CountsMatch
<1>9. OwnTickets(x.queue, p2, l, place, k)
  <2> SUFFICES ASSUME SignalsAgree, NEW h \in Groups, ~Stopped(l, h, k)
               PROVE  IsInjective(x.queue[h]) /\ ToSet(x.queue[h]) = Waiting(p2, l, h, place)
      BY DEF OwnTickets
  <2>1. IsInjective(r.queue[h]) /\ ToSet(r.queue[h]) = Waiting(p, l, h, place)
      BY DEF Agrees, OwnTickets
  <2>2. CASE h = g
      BY <1>5, <1>6, <1>7, <2>1, <2>2
  <2>3. CASE h # g
      BY <1>4, <1>5, <2>1, <2>3
  <2> QED BY <2>2, <2>3
<1> QED BY <1>8, <1>9 DEF Agrees, p2

\* A step of a call that neither joins nor leaves these waiters.
LEMMA OtherAgrees ==
    ASSUME IsFiniteSet(Calls), NEW r, NEW p \in [Calls -> States], NEW k, NEW l \in Lanes,
           NEW place \in States, Agrees(r, p, l, place, k), NEW c \in Calls, NEW to \in States,
           LaneOf(c) # l \/ (p[c] # place /\ to # place)
    PROVE  Agrees(r, [p EXCEPT ![c] = to], l, place, k)
<1> DEFINE p2 == [p EXCEPT ![c] = to]
<1>1. \A g : Waiting(p2, l, g, place) = Waiting(p, l, g, place)
  <2>1. p2[c] = to /\ \A d \in Calls \ {c} : p2[d] = p[d]
      OBVIOUS
  <2> HIDE DEF p2
  <2> QED BY <2>1 DEF Waiting
<1> HIDE DEF p2
<1>2. CountsMatch(r.queue, p2, l, place) /\ OwnTickets(r.queue, p2, l, place, k)
    BY <1>1 DEF Agrees, CountsMatch, OwnTickets
<1> QED BY <1>2 DEF Agrees, p2

\* Signals that are set stay set.
LEMMA CancelAgrees ==
    ASSUME NEW r, NEW p, NEW k, NEW k2, k \subseteq k2, NEW l, NEW place, Agrees(r, p, l, place, k)
    PROVE  Agrees(r, p, l, place, k2)
<1>1. \A g : Stopped(l, g, k) => Stopped(l, g, k2)
    BY DEF Stopped
<1> QED BY <1>1 DEF Agrees, OwnTickets

-----------------------------------------------------------------------------
(* The inductive invariant.                                                *)

Values ==
    /\ pc \in [Calls -> States]
    /\ gate = [l \in Lanes |-> gate[l]]
    /\ active \in [Lanes -> Nat]
    /\ maximum \in Maxima
    /\ limits \in Limits
    /\ reservations \in Seq([call : Calls, tokens : Nat])
    /\ cancelled \subseteq {SignalOf[c] : c \in Calls}

\* The calls of lane l that hold a slot.
Held(p, l) == {c \in Calls : LaneOf(c) = l /\ p[c] \in Holding}
SlotsMatch(a, p) == \A l \in Lanes : a[l] = Cardinality(Held(p, l))

\* The questions that wait for the limiter are in its queue, once each.
Lined(w, p) ==
    /\ w \in Seq(Interactive) /\ IsInjective(w)
    /\ ToSet(w) = {c \in Interactive : p[c] = "limit"}

DispatchIInv ==
    /\ Values
    /\ SlotsMatch(active, pc)
    /\ \A l \in Lanes : Agrees(gate[l], pc, l, "gate", cancelled)
    /\ Agrees(limiter, pc, "background", "limit", cancelled)
    /\ Lined(questions, pc)

\* The slots of a lane follow the calls that pass its gate and give their slot back.
LEMMA SlotMoves ==
    ASSUME IsFiniteSet(Calls), NEW p \in [Calls -> States], NEW c \in Calls, NEW to \in States,
           NEW a \in [Lanes -> Nat], SlotsMatch(a, p), NEW p2, p2 = [p EXCEPT ![c] = to]
    PROVE  /\ (p[c] \in Holding <=> to \in Holding) => SlotsMatch(a, p2)
           /\ p[c] \notin Holding /\ to \in Holding =>
                /\ [a EXCEPT ![LaneOf(c)] = @ + 1] \in [Lanes -> Nat]
                /\ SlotsMatch([a EXCEPT ![LaneOf(c)] = @ + 1], p2)
<1> DEFINE k == LaneOf(c)
           h == Held(p, k)
<1>1. p2[c] = to /\ \A d \in Calls \ {c} : p2[d] = p[d]
    OBVIOUS
<1>2. k \in Lanes
    BY DEF LaneOf, Lanes
<1>3. h \subseteq Calls
    BY DEF Held
<1> HIDE DEF h
<1>4. IsFiniteSet(h) /\ Cardinality(h) \in Nat
    BY <1>3, FS_Subset, FS_CardinalityType
<1>5. \A l \in Lanes \ {k} : Held(p2, l) = Held(p, l)
    BY <1>1 DEF Held
<1>6. a[k] = Cardinality(h) /\ \A l \in Lanes \ {k} : a[l] = Cardinality(Held(p2, l))
    BY <1>2, <1>5 DEF SlotsMatch, h
<1>7. ASSUME p[c] \in Holding <=> to \in Holding PROVE SlotsMatch(a, p2)
  <2>1. \A l \in Lanes : Held(p2, l) = Held(p, l)
      BY <1>1, <1>7 DEF Held
  <2> QED BY <2>1 DEF SlotsMatch
<1>8. ASSUME p[c] \notin Holding, to \in Holding
      PROVE  /\ [a EXCEPT ![k] = @ + 1] \in [Lanes -> Nat]
             /\ SlotsMatch([a EXCEPT ![k] = @ + 1], p2)
  <2> DEFINE b == [a EXCEPT ![k] = @ + 1]
  <2>1. Held(p2, k) = h \cup {c} /\ c \notin h
      BY <1>1, <1>8 DEF Held, h
  <2>2. Cardinality(h \cup {c}) = Cardinality(h) + 1
      BY <1>4, <2>1, FS_AddElement
  <2>3. b[k] = Cardinality(h) + 1 /\ b \in [Lanes -> Nat] /\ \A l \in Lanes \ {k} : b[l] = a[l]
      BY <1>2, <1>4, <1>6
  <2> HIDE DEF b, k
  <2>4. SlotsMatch(b, p2)
      BY <1>6, <2>1, <2>2, <2>3 DEF SlotsMatch
  <2> QED BY <2>3, <2>4 DEF b
<1> QED BY <1>7, <1>8

\* A call that gives its slot back.
LEMMA SlotGiven ==
    ASSUME IsFiniteSet(Calls), NEW p \in [Calls -> States], NEW c \in Calls, NEW to \in States,
           NEW a \in [Lanes -> Nat], SlotsMatch(a, p), NEW p2, p2 = [p EXCEPT ![c] = to],
           p[c] \in Holding, to \notin Holding,
           NEW b, b = [a EXCEPT ![LaneOf(c)] = @ - 1]
    PROVE  b \in [Lanes -> Nat] /\ SlotsMatch(b, p2)
<1> DEFINE k == LaneOf(c)
           h == Held(p, k)
<1>1. p2[c] = to /\ \A d \in Calls \ {c} : p2[d] = p[d]
    OBVIOUS
<1>2. k \in Lanes
    BY DEF LaneOf, Lanes
<1>3. h \subseteq Calls
    BY DEF Held
<1> HIDE DEF h
<1>4. IsFiniteSet(h) /\ Cardinality(h) \in Nat
    BY <1>3, FS_Subset, FS_CardinalityType
<1>5. \A l \in Lanes \ {k} : Held(p2, l) = Held(p, l)
    BY <1>1 DEF Held
<1>6. a[k] = Cardinality(h) /\ \A l \in Lanes \ {k} : a[l] = Cardinality(Held(p2, l))
    BY <1>2, <1>5 DEF SlotsMatch, h
<1>7. Held(p2, k) = h \ {c} /\ c \in h
    BY <1>1 DEF Held, h
<1>8. Cardinality(h \ {c}) = Cardinality(h) - 1 /\ IsFiniteSet(h \ {c})
    BY <1>4, <1>7, FS_RemoveElement
<1>9. Cardinality(h) - 1 \in Nat
    BY <1>8, FS_CardinalityType
<1>10. b[k] = Cardinality(h) - 1 /\ b \in [Lanes -> Nat] /\ \A l \in Lanes \ {k} : b[l] = a[l]
    BY <1>2, <1>6, <1>9
<1> HIDE DEF k
<1>11. SlotsMatch(b, p2)
    BY <1>6, <1>7, <1>8, <1>10 DEF SlotsMatch
<1> QED BY <1>10, <1>11

\* A step of a call that is no question, or does not come to the limiter or leave it.
LEMMA LinedStays ==
    ASSUME DispatchAssumption, NEW w, NEW p \in [Calls -> States], Lined(w, p),
           NEW c \in Calls, NEW to \in States,
           c \notin Interactive \/ (p[c] = "limit" <=> to = "limit")
    PROVE  Lined(w, [p EXCEPT ![c] = to])
<1> DEFINE p2 == [p EXCEPT ![c] = to]
<1>1. p2[c] = to /\ \A d \in Calls \ {c} : p2[d] = p[d]
    OBVIOUS
<1>2. Interactive \subseteq Calls
    BY DEF DispatchAssumption
<1> HIDE DEF p2
<1>3. {d \in Interactive : p2[d] = "limit"} = {d \in Interactive : p[d] = "limit"}
    BY <1>1, <1>2
<1> QED BY <1>3 DEF Lined, p2

\* One round of the loop of acquire_until_cancelled.
LEMMA TryGateOk ==
    ASSUME DispatchAssumption, DispatchIInv, NEW c \in Calls, pc[c] \in {"out", "gate"}, NEW r,
           Agrees(r, [pc EXCEPT ![c] = "gate"], LaneOf(c), "gate", cancelled), TryGate(c, r)
    PROVE  DispatchIInv'
<1> DEFINE l == LaneOf(c)
           g == Group(c)
           p0 == [pc EXCEPT ![c] = "gate"]
<1>1. /\ IsFiniteSet(Calls) /\ l \in Lanes /\ "gate" \in States /\ "limit" \in States
      /\ "granted" \in States /\ "out" \in States
    BY DEF DispatchAssumption, LaneOf, Lanes, States, Holding
<1>2. pc \in [Calls -> States] /\ p0 \in [Calls -> States] /\ p0[c] = "gate"
    BY <1>1 DEF DispatchIInv, Values
<1>3. UNCHANGED <<maximum, limiter, questions, limits, reservations, cancelled>>
    BY DEF TryGate
<1>4. g \in Groups /\ r.queue[g] # <<>>
    BY <1>1, <1>2, HasTicket
<1>5. ASSUME NEW to \in States, to \in {"out", "gate", "granted"}, NEW y, NEW b,
             pc' = [pc EXCEPT ![c] = to], gate' = [gate EXCEPT ![l] = y], active' = b,
             b \in [Lanes -> Nat], SlotsMatch(b, pc'),
             Agrees(y, [p0 EXCEPT ![c] = to], l, "gate", cancelled)
      PROVE  DispatchIInv'
  <2>1. pc' = [p0 EXCEPT ![c] = to]
      BY <1>2, <1>5
  <2>2. gate' = [k \in Lanes |-> gate'[k]] /\ gate'[l] = y /\ \A k \in Lanes \ {l} : gate'[k] = gate[k]
      BY <1>1, <1>5 DEF DispatchIInv, Values
  <2>3. pc' \in [Calls -> States]
      BY <1>2, <1>5
  <2>4. Values'
      BY <1>3, <1>5, <2>2, <2>3 DEF DispatchIInv, Values
  <2>5. ASSUME NEW k \in Lanes PROVE Agrees(gate'[k], pc', k, "gate", cancelled')
    <3>1. CASE k = l
        BY <1>3, <1>5, <2>1, <2>2, <3>1
    <3>2. CASE k # l
      <4>1. Agrees(gate[k], [pc EXCEPT ![c] = to], k, "gate", cancelled)
          BY <1>1, <1>2, <1>5, <3>2, OtherAgrees DEF DispatchIInv
      <4> QED BY <1>3, <1>5, <2>2, <3>2, <4>1
    <3> QED BY <3>1, <3>2
  <2>6. Agrees(limiter', pc', "background", "limit", cancelled')
    <3>1. "background" \in Lanes /\ pc[c] # "limit" /\ to # "limit"
        BY <1>5 DEF Lanes
    <3>2. Agrees(limiter, [pc EXCEPT ![c] = to], "background", "limit", cancelled)
        BY <1>1, <1>2, <1>5, <3>1, OtherAgrees DEF DispatchIInv
    <3> QED BY <1>3, <1>5, <3>2
  <2>7. Lined(questions', pc')
    <3>1. pc[c] # "limit" /\ to # "limit"
        BY <1>5
    <3>2. Lined(questions, [pc EXCEPT ![c] = to])
        BY <1>2, <1>5, <3>1, LinedStays DEF DispatchIInv
    <3> QED BY <1>3, <1>5, <3>2
  <2> QED BY <1>5, <2>4, <2>5, <2>6, <2>7 DEF DispatchIInv
<1>6. active \in [Lanes -> Nat] /\ SlotsMatch(active, pc)
    BY DEF DispatchIInv, Values
<1>7. CASE CanAdmit(l, r, c)
  <2>1. /\ pc' = [pc EXCEPT ![c] = "granted"] /\ gate' = [gate EXCEPT ![l] = Serve(r, g)]
        /\ active' = [active EXCEPT ![l] = @ + 1]
      BY <1>7 DEF TryGate, Moves
  <2>2. active' \in [Lanes -> Nat] /\ SlotsMatch(active', pc')
      BY <1>1, <1>2, <1>6, <2>1, SlotMoves DEF Holding
  <2>3. Shape(Serve(r, g)) /\ Serve(r, g).queue = [r.queue EXCEPT ![g] = Tail(@)]
      BY <1>4, ServeShape DEF Agrees
  <2>4. Head(r.queue[g]) = c
      BY <1>7 DEF CanAdmit, IsNext
  <2>5. Agrees(Serve(r, g), [p0 EXCEPT ![c] = "granted"], l, "gate", cancelled)
    <3> HIDE DEF p0
    <3> QED BY <1>1, <1>2, <2>3, <2>4, GoAgrees DEF p0
  <2> QED BY <1>1, <1>5, <2>1, <2>2, <2>5
<1>8. CASE ~CanAdmit(l, r, c)
  <2>1. /\ pc' = [pc EXCEPT ![c] = IF IsCancelled(c) THEN "out" ELSE "gate"]
        /\ gate' = [gate EXCEPT ![l] = IF IsCancelled(c) THEN Abandon(r, g) ELSE r]
        /\ active' = active
      BY <1>8 DEF TryGate, Moves
  <2>2. SlotsMatch(active, pc')
    <3>1. pc[c] \notin Holding /\ "out" \notin Holding /\ "gate" \notin Holding
        BY DEF Holding
    <3>2. CASE IsCancelled(c)
        BY <1>1, <1>2, <1>6, <2>1, <3>1, <3>2, SlotMoves
    <3>3. CASE ~IsCancelled(c)
        BY <1>1, <1>2, <1>6, <2>1, <3>1, <3>3, SlotMoves
    <3> QED BY <3>2, <3>3
  <2>3. CASE IsCancelled(c)
    <3>1. Shape(Abandon(r, g)) /\ Abandon(r, g).queue = [r.queue EXCEPT ![g] = Tail(@)]
        BY <1>4, LeaveShape DEF Agrees
    <3>2. SignalOf[c] \in cancelled
        BY <2>3 DEF IsCancelled
    <3>3. Agrees(Abandon(r, g), [p0 EXCEPT ![c] = "out"], l, "gate", cancelled)
      <4> HIDE DEF p0
      <4> QED BY <1>1, <1>2, <3>1, <3>2, GoAgrees DEF p0
    <3> QED BY <1>1, <1>5, <1>6, <2>1, <2>2, <2>3, <3>3
  <2>4. CASE ~IsCancelled(c)
    <3>1. [p0 EXCEPT ![c] = "gate"] = p0
        BY <1>2
    <3> QED BY <1>1, <1>5, <1>6, <2>1, <2>2, <2>4, <3>1
  <2> QED BY <2>3, <2>4
<1> QED BY <1>7, <1>8

\* The first step of a call takes it to the gate and tests the gate at once.
LEMMA EnterGateOk ==
    ASSUME DispatchAssumption, DispatchIInv, NEW c \in Calls, EnterGate(c) PROVE DispatchIInv'
<1> DEFINE l == LaneOf(c)
<1>1. /\ IsFiniteSet(Calls) /\ l \in Lanes /\ "gate" \in States
      /\ pc \in [Calls -> States] /\ pc[c] = "out" /\ Agrees(gate[l], pc, l, "gate", cancelled)
    BY DEF DispatchAssumption, LaneOf, Lanes, States, Holding, DispatchIInv, Values, EnterGate
<1>2. Agrees(Join(gate[l], c), [pc EXCEPT ![c] = "gate"], l, "gate", cancelled)
    BY <1>1, JoinAgrees
<1>3. TryGate(c, Join(gate[l], c))
    BY DEF EnterGate
<1> QED BY <1>1, <1>2, <1>3, TryGateOk

\* A later round of the loop.
LEMMA RetestGateOk ==
    ASSUME DispatchAssumption, DispatchIInv, NEW c \in Calls, RetestGate(c) PROVE DispatchIInv'
<1> DEFINE l == LaneOf(c)
<1>1. /\ l \in Lanes /\ pc \in [Calls -> States] /\ pc[c] = "gate"
      /\ Agrees(gate[l], pc, l, "gate", cancelled)
    BY DEF LaneOf, Lanes, DispatchIInv, Values, RetestGate
<1>2. [pc EXCEPT ![c] = "gate"] = pc
    BY <1>1
<1>3. TryGate(c, gate[l])
    BY DEF RetestGate
<1> QED BY <1>1, <1>2, <1>3, TryGateOk

\* A question that waits for the limiter goes through first in line, or gives up anywhere.
LEMMA LinedGoes ==
    ASSUME DispatchAssumption, NEW w, NEW p \in [Calls -> States], Lined(w, p),
           NEW c \in Interactive, p[c] = "limit", NEW to \in States, to # "limit"
    PROVE  /\ Head(w) = c => Lined(Tail(w), [p EXCEPT ![c] = to])
           /\ Lined(RemoveFirst(w, c), [p EXCEPT ![c] = to])
<1> DEFINE p2 == [p EXCEPT ![c] = to]
<1>1. c \in Calls /\ Interactive \subseteq Calls
    BY DEF DispatchAssumption
<1>2. p2[c] = to /\ \A d \in Calls \ {c} : p2[d] = p[d]
    BY <1>1
<1> HIDE DEF p2
<1>3. {d \in Interactive : p2[d] = "limit"} = {d \in Interactive : p[d] = "limit"} \ {c}
    BY <1>1, <1>2
<1>4. w \in Seq(Interactive) /\ IsInjective(w) /\ c \in ToSet(w)
    BY DEF Lined
<1>5. Lined(RemoveFirst(w, c), p2)
    BY <1>3, <1>4, Removed DEF Lined
<1>6. ASSUME Head(w) = c PROVE Lined(Tail(w), p2)
  <2>1. w # <<>>
      BY <1>4 DEF ToSet
  <2>2. Tail(w) \in Seq(Interactive) /\ IsInjective(Tail(w)) /\ ToSet(Tail(w)) = ToSet(w) \ {c}
      BY <1>4, <1>6, <2>1, Popped
  <2> QED BY <1>3, <2>2 DEF Lined
<1> QED BY <1>5, <1>6 DEF p2

\* A question that comes to the limiter.
LEMMA LinedJoins ==
    ASSUME DispatchAssumption, NEW w, NEW p \in [Calls -> States], Lined(w, p),
           NEW c \in Interactive, p[c] # "limit"
    PROVE  Lined(Append(w, c), [p EXCEPT ![c] = "limit"])
<1> DEFINE p2 == [p EXCEPT ![c] = "limit"]
<1>1. c \in Calls /\ Interactive \subseteq Calls
    BY DEF DispatchAssumption
<1>2. p2[c] = "limit" /\ \A d \in Calls \ {c} : p2[d] = p[d]
    BY <1>1
<1> HIDE DEF p2
<1>3. {d \in Interactive : p2[d] = "limit"} = {d \in Interactive : p[d] = "limit"} \cup {c}
    BY <1>1, <1>2
<1>4. w \in Seq(Interactive) /\ IsInjective(w) /\ c \notin ToSet(w)
    BY DEF Lined
<1>5. /\ Append(w, c) \in Seq(Interactive) /\ IsInjective(Append(w, c))
      /\ ToSet(Append(w, c)) = ToSet(w) \cup {c}
    BY <1>4, Appended
<1> QED BY <1>3, <1>5 DEF Lined, p2

\* One round of the loop of the limiter's acquire.
LEMMA TryLimiterOk ==
    ASSUME DispatchAssumption, DispatchIInv, NEW c \in Calls, pc[c] \in {"granted", "limit"}, NEW r, NEW w,
           Agrees(r, [pc EXCEPT ![c] = "limit"], "background", "limit", cancelled),
           Lined(w, [pc EXCEPT ![c] = "limit"]), TryLimiter(c, r, w)
    PROVE  DispatchIInv'
<1> DEFINE g == Group(c)
           p0 == [pc EXCEPT ![c] = "limit"]
<1>1. /\ IsFiniteSet(Calls) /\ LaneOf(c) \in Lanes /\ "background" \in Lanes
      /\ "gate" \in States /\ "limit" \in States /\ "calling" \in States /\ "releasing" \in States
    BY DEF DispatchAssumption, LaneOf, Lanes, States, Holding
<1>2. pc \in [Calls -> States] /\ p0 \in [Calls -> States] /\ p0[c] = "limit"
    BY <1>1 DEF DispatchIInv, Values
<1>3. UNCHANGED <<gate, active, maximum, limits, cancelled>>
    BY DEF TryLimiter
<1>4. c \notin Interactive => LaneOf(c) = "background" /\ g \in Groups /\ r.queue[g] # <<>>
  <2> SUFFICES ASSUME c \notin Interactive
               PROVE  LaneOf(c) = "background" /\ g \in Groups /\ r.queue[g] # <<>>
      OBVIOUS
  <2>1. LaneOf(c) = "background"
      BY DEF LaneOf
  <2> QED BY <1>1, <1>2, <2>1, HasTicket
<1>5. c \in Interactive => LaneOf(c) # "background"
    BY DEF LaneOf
<1>6. ASSUME NEW to \in {"limit", "calling", "releasing"}, pc' = [pc EXCEPT ![c] = to],
             Agrees(limiter', [p0 EXCEPT ![c] = to], "background", "limit", cancelled),
             Lined(questions', [p0 EXCEPT ![c] = to]),
             reservations' \in Seq([call : Calls, tokens : Nat])
      PROVE  DispatchIInv'
  <2>1. pc' = [p0 EXCEPT ![c] = to] /\ to \in States
      BY <1>2, <1>6 DEF States, Holding
  <2>2. pc' \in [Calls -> States]
      BY <1>2, <1>6, <2>1
  <2>3. Values'
      BY <1>3, <1>6, <2>2 DEF DispatchIInv, Values
  <2>4. SlotsMatch(active', pc')
    <3>1. pc[c] \in Holding /\ to \in Holding /\ active \in [Lanes -> Nat] /\ SlotsMatch(active, pc)
        BY <1>6 DEF Holding, DispatchIInv, Values
    <3>2. SlotsMatch(active, pc')
        BY <1>1, <1>2, <1>6, <2>1, <3>1, SlotMoves
    <3> QED BY <1>3, <3>2
  <2>5. ASSUME NEW k \in Lanes PROVE Agrees(gate'[k], pc', k, "gate", cancelled')
    <3>1. pc[c] # "gate" /\ to # "gate"
        BY <1>6
    <3>2. Agrees(gate[k], [pc EXCEPT ![c] = to], k, "gate", cancelled)
        BY <1>1, <1>2, <2>1, <3>1, OtherAgrees DEF DispatchIInv
    <3> QED BY <1>3, <1>6, <3>2
  <2>6. Agrees(limiter', pc', "background", "limit", cancelled') /\ Lined(questions', pc')
      BY <1>3, <1>6, <2>1
  <2> QED BY <2>3, <2>4, <2>5, <2>6 DEF DispatchIInv
<1> DEFINE admitted == LimiterNext(c, r, w) /\ HasCapacity(c)
<1>7. reservations \in Seq([call : Calls, tokens : Nat])
    BY DEF DispatchIInv, Values
<1>8. CASE admitted
  <2>1. /\ limiter' = IF c \in Interactive THEN r ELSE Serve(r, g)
        /\ questions' = IF c \in Interactive THEN Tail(w) ELSE w
        /\ reservations' = Append(reservations, [call |-> c, tokens |-> Need[c]])
        /\ pc' = [pc EXCEPT ![c] = "calling"]
      BY <1>8 DEF TryLimiter, Moves
  <2>2. Need[c] \in Nat
      BY DEF DispatchAssumption
  <2>3. reservations' \in Seq([call : Calls, tokens : Nat])
    <3>1. [call |-> c, tokens |-> Need[c]] \in [call : Calls, tokens : Nat]
        BY <2>2
    <3> QED BY <1>7, <2>1, <3>1
  <2>4. CASE c \in Interactive
    <3>1. Agrees(r, [p0 EXCEPT ![c] = "calling"], "background", "limit", cancelled)
      <4> HIDE DEF p0
      <4> QED BY <1>1, <1>2, <1>5, <2>4, OtherAgrees DEF p0
    <3>2. Head(w) = c
        BY <1>8, <2>4 DEF LimiterNext
    <3>3. Lined(Tail(w), [p0 EXCEPT ![c] = "calling"])
      <4> HIDE DEF p0
      <4> QED BY <1>1, <1>2, <2>4, <3>2, LinedGoes DEF p0
    <3> QED BY <1>6, <2>1, <2>3, <2>4, <3>1, <3>3
  <2>5. CASE c \notin Interactive
    <3>1. Shape(Serve(r, g)) /\ Serve(r, g).queue = [r.queue EXCEPT ![g] = Tail(@)]
        BY <1>4, <2>5, ServeShape DEF Agrees
    <3>2. Head(r.queue[g]) = c
        BY <1>8, <2>5 DEF LimiterNext, IsNext
    <3>3. Agrees(Serve(r, g), [p0 EXCEPT ![c] = "calling"], "background", "limit", cancelled)
      <4> HIDE DEF p0
      <4> QED BY <1>1, <1>2, <1>4, <2>5, <3>1, <3>2, GoAgrees DEF p0
    <3>4. Lined(w, [p0 EXCEPT ![c] = "calling"])
      <4> HIDE DEF p0
      <4> QED BY <1>1, <1>2, <2>5, LinedStays DEF p0
    <3> QED BY <1>6, <2>1, <2>3, <2>5, <3>3, <3>4
  <2> QED BY <2>4, <2>5
<1>9. CASE ~admitted /\ IsCancelled(c)
  <2>1. /\ limiter' = IF c \in Interactive THEN r ELSE Abandon(r, g)
        /\ questions' = IF c \in Interactive THEN RemoveFirst(w, c) ELSE w
        /\ reservations' = reservations
        /\ pc' = [pc EXCEPT ![c] = "releasing"]
      BY <1>9 DEF TryLimiter, Refuse, Moves
  <2>2. CASE c \in Interactive
    <3>1. Agrees(r, [p0 EXCEPT ![c] = "releasing"], "background", "limit", cancelled)
      <4> HIDE DEF p0
      <4> QED BY <1>1, <1>2, <1>5, <2>2, OtherAgrees DEF p0
    <3>2. Lined(RemoveFirst(w, c), [p0 EXCEPT ![c] = "releasing"])
      <4> HIDE DEF p0
      <4> QED BY <1>1, <1>2, <2>2, LinedGoes DEF p0
    <3> QED BY <1>6, <1>7, <2>1, <2>2, <3>1, <3>2
  <2>3. CASE c \notin Interactive
    <3>1. Shape(Abandon(r, g)) /\ Abandon(r, g).queue = [r.queue EXCEPT ![g] = Tail(@)]
        BY <1>4, <2>3, LeaveShape DEF Agrees
    <3>2. SignalOf[c] \in cancelled
        BY <1>9 DEF IsCancelled
    <3>3. Agrees(Abandon(r, g), [p0 EXCEPT ![c] = "releasing"], "background", "limit", cancelled)
      <4> HIDE DEF p0
      <4> QED BY <1>1, <1>2, <1>4, <2>3, <3>1, <3>2, GoAgrees DEF p0
    <3>4. Lined(w, [p0 EXCEPT ![c] = "releasing"])
      <4> HIDE DEF p0
      <4> QED BY <1>1, <1>2, <2>3, LinedStays DEF p0
    <3> QED BY <1>6, <1>7, <2>1, <2>3, <3>3, <3>4
  <2> QED BY <2>2, <2>3
<1>10. CASE ~admitted /\ ~IsCancelled(c)
  <2>1. /\ limiter' = r /\ questions' = w /\ reservations' = reservations
        /\ pc' = [pc EXCEPT ![c] = "limit"]
      BY <1>10 DEF TryLimiter, Moves
  <2>2. [p0 EXCEPT ![c] = "limit"] = p0
      BY <1>2
  <2> QED BY <1>6, <1>7, <2>1, <2>2
<1> QED BY <1>8, <1>9, <1>10

\* A step of a call behind the gate that is not about the limiter's queues.
LEMMA CallStepOk ==
    ASSUME DispatchAssumption, DispatchIInv, NEW c \in Calls, NEW to \in States,
           pc[c] \in Holding \ {"limit"}, to \in (Holding \ {"limit"}) \cup {"out"},
           pc' = [pc EXCEPT ![c] = to],
           active' = IF to = "out" THEN [active EXCEPT ![LaneOf(c)] = @ - 1] ELSE active,
           reservations' \in Seq([call : Calls, tokens : Nat]),
           UNCHANGED <<gate, maximum, limiter, questions, limits, cancelled>>
    PROVE  DispatchIInv'
<1>1. /\ IsFiniteSet(Calls) /\ "background" \in Lanes /\ "gate" \in States /\ "limit" \in States
      /\ pc[c] # "gate" /\ pc[c] # "limit" /\ to # "gate" /\ to # "limit" /\ "out" \notin Holding
      /\ pc[c] \in Holding
    BY DEF DispatchAssumption, Lanes, States, Holding
<1>2. pc \in [Calls -> States] /\ active \in [Lanes -> Nat] /\ SlotsMatch(active, pc)
    BY DEF DispatchIInv, Values
<1>3. pc' \in [Calls -> States]
    BY <1>2
<1>4. active' \in [Lanes -> Nat] /\ SlotsMatch(active', pc')
  <2>1. CASE to = "out"
    <3>1. to \notin Holding
        BY <1>1, <2>1
    <3>2. active' = [active EXCEPT ![LaneOf(c)] = @ - 1]
        BY <2>1
    <3> QED BY <1>1, <1>2, <3>1, <3>2, SlotGiven
  <2>2. CASE to # "out"
    <3>1. to \in Holding
        BY <2>2
    <3>2. SlotsMatch(active, pc')
        BY <1>1, <1>2, <3>1, SlotMoves
    <3> QED BY <1>2, <2>2, <3>2
  <2> QED BY <2>1, <2>2
<1>5. Values'
    BY <1>3, <1>4 DEF DispatchIInv, Values
<1>6. ASSUME NEW l \in Lanes PROVE Agrees(gate'[l], pc', l, "gate", cancelled')
  <2>1. Agrees(gate[l], [pc EXCEPT ![c] = to], l, "gate", cancelled)
      BY <1>1, <1>2, OtherAgrees DEF DispatchIInv
  <2> QED BY <2>1
<1>7. Agrees(limiter', pc', "background", "limit", cancelled')
  <2>1. Agrees(limiter, [pc EXCEPT ![c] = to], "background", "limit", cancelled)
      BY <1>1, <1>2, OtherAgrees DEF DispatchIInv
  <2> QED BY <2>1
<1>8. Lined(questions', pc')
  <2>1. Lined(questions, [pc EXCEPT ![c] = to])
      BY <1>1, <1>2, LinedStays DEF DispatchIInv
  <2> QED BY <2>1
<1> QED BY <1>4, <1>5, <1>6, <1>7, <1>8 DEF DispatchIInv

\* A call comes to the limiter, which refuses it at once if it is too large.
LEMMA EnterLimiterOk ==
    ASSUME DispatchAssumption, DispatchIInv, NEW c \in Calls, EnterLimiter(c) PROVE DispatchIInv'
<1> DEFINE p0 == [pc EXCEPT ![c] = "limit"]
<1>1. /\ IsFiniteSet(Calls) /\ "background" \in Lanes /\ "limit" \in States
      /\ "releasing" \in States /\ "releasing" \in Holding \ {"limit"}
      /\ pc \in [Calls -> States] /\ pc[c] = "granted" /\ pc[c] \in Holding \ {"limit"}
      /\ Agrees(limiter, pc, "background", "limit", cancelled) /\ Lined(questions, pc)
      /\ reservations \in Seq([call : Calls, tokens : Nat])
    BY DEF DispatchAssumption, Lanes, States, Holding, DispatchIInv, Values, EnterLimiter
<1>2. Need[c] \in Nat /\ limits.tokens \in Nat
    BY DEF DispatchAssumption, DispatchIInv, Values
<1>3. CASE Need[c] > limits.tokens
  <2>1. /\ pc' = [pc EXCEPT ![c] = "releasing"]
        /\ UNCHANGED <<gate, active, maximum, limiter, questions, limits, reservations, cancelled>>
      BY <1>2, <1>3 DEF EnterLimiter, Refuse, Moves
  <2> QED BY <1>1, <2>1, CallStepOk
<1>4. CASE Need[c] <= limits.tokens /\ c \in Interactive
  <2>1. LaneOf(c) # "background"
      BY <1>4 DEF LaneOf
  <2>2. Agrees(limiter, p0, "background", "limit", cancelled)
      BY <1>1, <2>1, OtherAgrees
  <2>3. Lined(Append(questions, c), p0)
      BY <1>1, <1>4, LinedJoins
  <2>4. TryLimiter(c, limiter, Append(questions, c))
      BY <1>2, <1>4 DEF EnterLimiter
  <2> QED BY <1>1, <2>2, <2>3, <2>4, TryLimiterOk
<1>5. CASE Need[c] <= limits.tokens /\ c \notin Interactive
  <2>1. LaneOf(c) = "background"
      BY <1>5 DEF LaneOf
  <2>2. Agrees(Join(limiter, c), p0, "background", "limit", cancelled)
      BY <1>1, <2>1, JoinAgrees
  <2>3. Lined(questions, p0)
      BY <1>1, <1>5, LinedStays
  <2>4. TryLimiter(c, Join(limiter, c), questions)
      BY <1>2, <1>5 DEF EnterLimiter
  <2> QED BY <1>1, <2>2, <2>3, <2>4, TryLimiterOk
<1> QED BY <1>2, <1>3, <1>4, <1>5

\* A later round of the limiter's loop.
LEMMA RetestLimiterOk ==
    ASSUME DispatchAssumption, DispatchIInv, NEW c \in Calls, RetestLimiter(c) PROVE DispatchIInv'
<1>1. /\ pc[c] = "limit" /\ TryLimiter(c, limiter, questions) /\ pc \in [Calls -> States]
      /\ Agrees(limiter, pc, "background", "limit", cancelled) /\ Lined(questions, pc)
    BY DEF RetestLimiter, DispatchIInv, Values
<1>2. [pc EXCEPT ![c] = "limit"] = pc
    BY <1>1
<1> QED BY <1>1, <1>2, TryLimiterOk

\* The provider's answer corrects the reservation of the call.
LEMMA ReturnOk ==
    ASSUME DispatchAssumption, DispatchIInv, NEW c \in Calls, Return(c) PROVE DispatchIInv'
<1>1. /\ pc[c] \in Holding \ {"limit"} /\ "releasing" \in States
      /\ "releasing" \in Holding \ {"limit"}
      /\ reservations \in Seq([call : Calls, tokens : Nat])
      /\ pc' = [pc EXCEPT ![c] = "releasing"]
      /\ UNCHANGED <<gate, active, maximum, limiter, questions, limits, cancelled>>
    BY DEF States, Holding, DispatchIInv, Values, Return, Moves
<1>2. reservations' \in Seq([call : Calls, tokens : Nat])
  <2>1. CASE UNCHANGED reservations
      BY <1>1, <2>1
  <2>2. CASE \E i \in LastOf(c), used \in Used :
               reservations' = [reservations EXCEPT ![i] = [call |-> c, tokens |-> used]]
    <3>1. PICK i \in LastOf(c), used \in Used :
             reservations' = [reservations EXCEPT ![i] = [call |-> c, tokens |-> used]]
        BY <2>2
    <3>2. [call |-> c, tokens |-> used] \in [call : Calls, tokens : Nat]
        BY DEF DispatchAssumption
    <3>3. i \in 1..Len(reservations)
        BY <1>1 DEF LastOf
    <3> QED BY <1>1, <3>1, <3>2, <3>3
  <2> QED BY <2>1, <2>2 DEF Return
<1> QED BY <1>1, <1>2, CallStepOk

\* The slot in the lane is given back.
LEMMA ReleaseOk ==
    ASSUME DispatchAssumption, DispatchIInv, NEW c \in Calls, Release(c) PROVE DispatchIInv'
<1>1. /\ pc[c] \in Holding \ {"limit"} /\ "out" \in States
      /\ reservations' \in Seq([call : Calls, tokens : Nat])
      /\ pc' = [pc EXCEPT ![c] = "out"] /\ active' = [active EXCEPT ![LaneOf(c)] = @ - 1]
      /\ UNCHANGED <<gate, maximum, limiter, questions, limits, cancelled>>
    BY DEF States, Holding, DispatchIInv, Values, Release, Moves
<1>2. active' = IF "out" = "out" THEN [active EXCEPT ![LaneOf(c)] = @ - 1] ELSE active
    BY <1>1
<1>3. "out" \in (Holding \ {"limit"}) \cup {"out"}
    OBVIOUS
<1> QED BY <1>1, <1>2, <1>3, CallStepOk

\* The window moves on, a signal is set, or the settings change.
LEMMA OthersOk ==
    ASSUME DispatchAssumption, DispatchIInv,
           \/ Expire \/ Configure \/ UNCHANGED dispatch
           \/ \E s \in {SignalOf[c] : c \in Calls} : Cancel(s)
    PROVE  DispatchIInv'
<1> USE DEF DispatchIInv
<1>1. CASE Expire
  <2>1. reservations' \in Seq([call : Calls, tokens : Nat])
      BY <1>1 DEF Expire, Values
  <2>2. UNCHANGED <<pc, gate, active, maximum, limiter, questions, limits, cancelled>>
      BY <1>1 DEF Expire
  <2> QED BY <2>1, <2>2 DEF Values
<1>2. CASE Configure
  <2>1. UNCHANGED <<pc, gate, active, limiter, questions, reservations, cancelled>>
      BY <1>2 DEF Configure
  <2>2. maximum' \in Maxima /\ limits' \in Limits
      BY <1>2 DEF Configure, Values
  <2> QED BY <2>1, <2>2 DEF Values
<1>3. CASE UNCHANGED dispatch
    BY <1>3 DEF dispatch, Values
<1>4. ASSUME NEW s \in {SignalOf[c] : c \in Calls}, Cancel(s) PROVE DispatchIInv'
  <2>1. UNCHANGED <<pc, gate, active, maximum, limiter, questions, limits, reservations>>
      BY <1>4 DEF Cancel
  <2>2. cancelled \subseteq cancelled' /\ cancelled' \subseteq {SignalOf[c] : c \in Calls}
      BY <1>4 DEF Cancel, Values
  <2>3. \A l \in Lanes : Agrees(gate[l], pc, l, "gate", cancelled')
      BY <2>2, CancelAgrees
  <2>4. Agrees(limiter, pc, "background", "limit", cancelled')
      BY <2>2, CancelAgrees
  <2> QED BY <2>1, <2>2, <2>3, <2>4 DEF Values
<1> QED BY <1>1, <1>2, <1>3, <1>4

\* Gates and limiter begin empty.
LEMMA InitOk == ASSUME DispatchAssumption, DispatchInit PROVE DispatchIInv
<1>1. "out" \in States /\ "out" \notin Holding /\ "gate" \in States /\ "limit" \in States
    BY DEF States, Holding
<1>2. Values
    BY <1>1 DEF DispatchInit, Values
<1>3. SlotsMatch(active, pc)
  <2>1. \A l \in Lanes : Held(pc, l) = {}
      BY <1>1 DEF Held, DispatchInit
  <2> QED BY <2>1, FS_EmptySet DEF SlotsMatch, DispatchInit
<1>4. ASSUME NEW l, NEW place \in {"gate", "limit"} PROVE Agrees(EmptyRotor, pc, l, place, cancelled)
  <2>1. \A g : Waiting(pc, l, g, place) = {}
      BY DEF Waiting, DispatchInit
  <2>2. \A g \in Groups : EmptyRotor.queue[g] = <<>>
      BY EmptyShape
  <2>3. IsInjective(<<>>) /\ ToSet(<<>>) = {} /\ Len(<<>>) = 0
      BY DEF IsInjective, ToSet
  <2> QED BY <2>1, <2>2, <2>3, EmptyShape, FS_EmptySet DEF Agrees, CountsMatch, OwnTickets
<1>5. Lined(questions, pc)
  <2>1. questions = <<>> /\ Interactive \subseteq Calls
      BY DEF DispatchInit, DispatchAssumption
  <2>2. questions \in Seq(Interactive) /\ IsInjective(questions) /\ ToSet(questions) = {}
      BY <2>1 DEF IsInjective, ToSet
  <2>3. {c \in Interactive : pc[c] = "limit"} = {}
      BY <2>1 DEF DispatchInit
  <2> QED BY <2>2, <2>3 DEF Lined
<1>6. limiter = EmptyRotor /\ \A l \in Lanes : gate[l] = EmptyRotor
    BY DEF DispatchInit
<1> QED BY <1>2, <1>3, <1>4, <1>5, <1>6 DEF DispatchIInv

\* Every step keeps the invariant.
LEMMA NextOk == ASSUME DispatchAssumption, DispatchIInv, [DispatchNext]_dispatch PROVE DispatchIInv'
BY EnterGateOk, RetestGateOk, EnterLimiterOk, RetestLimiterOk, ReturnOk, ReleaseOk, OthersOk DEF DispatchNext

\* The inductive invariant of the gates in front of the provider (dispatch.py).
THEOREM DispatchInvariant == ASSUME DispatchAssumption PROVE DispatchSpec => []DispatchIInv
<1>1. DispatchInit => DispatchIInv
    BY InitOk
<1>2. DispatchIInv /\ [DispatchNext]_dispatch => DispatchIInv'
    BY NextOk
<1> QED BY <1>1, <1>2, PTL DEF DispatchSpec

\* Limits, queues and counters keep their types.
THEOREM DispatchTypes == ASSUME DispatchAssumption PROVE DispatchSpec => []DispatchTypeOK
<1>1. DispatchIInv => DispatchTypeOK
  <2> SUFFICES ASSUME DispatchIInv PROVE DispatchTypeOK
      OBVIOUS
  <2>1. (\A l \in Lanes : Rotor(gate[l])) /\ Rotor(limiter) /\ questions \in Seq(Interactive)
      BY DEF DispatchIInv, Agrees, Shape, Lined
  <2> QED BY <2>1 DEF DispatchIInv, Values, DispatchTypeOK, States
<1> QED BY <1>1, DispatchInvariant, PTL

\* No path through the gates leaks a slot or frees one twice.
THEOREM NoSlotIsLost == ASSUME DispatchAssumption PROVE DispatchSpec => []SlotsAreOwned
<1>1. DispatchIInv => SlotsAreOwned
  <2>1. \A l : Held(pc, l) = In(l, Holding)
      BY DEF Held, In
  <2> QED BY <2>1 DEF DispatchIInv, SlotsMatch, SlotsAreOwned
<1> QED BY <1>1, DispatchInvariant, PTL

\* A rotor that agrees with the calls, in the words of the model.
LEMMA AgreesQueues == ASSUME DispatchAssumption, DispatchIInv PROVE QueuesMatchWaiters
<1>1. \A l, g, place : Waiting(pc, l, g, place) = Waiters(l, g, place)
    BY DEF Waiting, Waiters, In
<1>2. ASSUME NEW r, NEW l, NEW place, Agrees(r, pc, l, place, cancelled) PROVE RotorAgrees(r, l, place)
    BY <1>1, <1>2 DEF RotorAgrees, Agrees, Shape, CountsMatch
<1>3. {c \in Interactive : pc[c] = "limit"} = In("interactive", {"limit"})
    BY DEF In, LaneOf, DispatchAssumption
<1> QED BY <1>2, <1>3 DEF DispatchIInv, Lined, QueuesMatchWaiters

\* Waiters have one ticket each and groups with waiters one turn each, however calls give up.
THEOREM QueuesMatch == ASSUME DispatchAssumption PROVE DispatchSpec => []QueuesMatchWaiters
<1>1. DispatchIInv => QueuesMatchWaiters
    BY AgreesQueues
<1> QED BY <1>1, DispatchInvariant, PTL

\* Where the calls of a group stop together, nobody takes the ticket of another who waits.
THEOREM TicketsMatch ==
    ASSUME DispatchAssumption, SignalsAgree PROVE DispatchSpec => []TicketsMatchWaiters
<1>1. ASSUME DispatchIInv PROVE WaitersAreQueued
  <2> SUFFICES ASSUME NEW c \in Calls, ~IsCancelled(c)
               PROVE  /\ pc[c] = "gate" => c \in ToSet(gate[LaneOf(c)].queue[Group(c)])
                      /\ pc[c] = "limit" /\ c \notin Interactive =>
                            c \in ToSet(limiter.queue[Group(c)])
      BY DEF WaitersAreQueued
  <2>1. LaneOf(c) \in Lanes /\ Group(c) \in Groups
      BY DEF LaneOf, Lanes, Groups
  <2>2. ~Stopped(LaneOf(c), Group(c), cancelled)
      BY DEF Stopped, SignalsAgree, IsCancelled
  <2>3. ASSUME NEW r, NEW place, Agrees(r, pc, LaneOf(c), place, cancelled), pc[c] = place
        PROVE  c \in ToSet(r.queue[Group(c)])
    <3>1. ToSet(r.queue[Group(c)]) = Waiting(pc, LaneOf(c), Group(c), place)
        BY <2>1, <2>2, <2>3 DEF Agrees, OwnTickets
    <3> QED BY <2>3, <3>1 DEF Waiting
  <2>4. ASSUME pc[c] = "gate" PROVE c \in ToSet(gate[LaneOf(c)].queue[Group(c)])
    <3>1. Agrees(gate[LaneOf(c)], pc, LaneOf(c), "gate", cancelled)
        BY <1>1, <2>1 DEF DispatchIInv
    <3> QED BY <2>3, <2>4, <3>1
  <2>5. ASSUME pc[c] = "limit", c \notin Interactive PROVE c \in ToSet(limiter.queue[Group(c)])
    <3>1. Agrees(limiter, pc, LaneOf(c), "limit", cancelled)
        BY <1>1, <2>5 DEF DispatchIInv, LaneOf
    <3> QED BY <2>3, <2>5, <3>1
  <2> QED BY <2>4, <2>5
<1>2. DispatchIInv => TicketsMatchWaiters
    BY <1>1, AgreesQueues DEF TicketsMatchWaiters
<1> QED BY <1>2, DispatchInvariant, PTL

-----------------------------------------------------------------------------
(* Turns.                                                                  *)

\* _next_ready_group: the group served last has the next turn only if no other waits.
LEMMA LastIsNext ==
    ASSUME NEW r, Shape(r), NEW c \in Calls, IsNext(r, c), r.last = Group(c),
           NEW h \in Groups, r.queue[h] # <<>>
    PROVE  h = Group(c)
<1>1. r.ready \in Seq(Groups) /\ IsInjective(r.ready) /\ h \in ToSet(r.ready)
    BY DEF Shape, Rotor
<1> DEFINE s == r.ready
<1>2. s \in Seq(Groups) /\ Len(s) \in Nat /\ DOMAIN s = 1..Len(s)
    BY <1>1
<1> HIDE DEF s
<1>3. PICK i \in 1..Len(s) : h = s[i]
    BY <1>1, <1>2 DEF ToSet, s
<1>4. Head(s) = s[1] /\ 1 \in DOMAIN s
    BY <1>2, <1>3
<1>5. Group(c) = IF Len(s) > 1 /\ s[1] = Group(c) THEN s[2] ELSE s[1]
    BY <1>4 DEF IsNext, NextGroup, s
<1>6. Len(s) <= 1
  <2> SUFFICES ASSUME Len(s) > 1 PROVE FALSE
      BY <1>2
  <2>1. s[1] = s[2] /\ 2 \in DOMAIN s
      BY <1>2, <1>5
  <2>2. IsInjective(s)
      BY <1>1 DEF s
  <2> QED BY <1>4, <2>1, <2>2 DEF IsInjective
<1> QED BY <1>2, <1>3, <1>5, <1>6

\* It is the same for a waiter that has only just come.
LEMMA LastHasTurn ==
    ASSUME NEW r, Shape(r), NEW c \in Calls, r.last = Group(c),
           IsNext(r, c) \/ IsNext(Join(r, c), c),
           NEW h \in Groups, r.queue[h] # <<>>
    PROVE  h = Group(c)
<1>1. CASE IsNext(r, c)
    BY <1>1, LastIsNext
<1>2. CASE IsNext(Join(r, c), c)
  <2> DEFINE x == Join(r, c)
  <2>1. Shape(x) /\ x.queue = [r.queue EXCEPT ![Group(c)] = Append(@, c)] /\ x.last = r.last
      BY JoinShape
  <2>2. r.queue \in [Groups -> Seq(Calls)]
      BY DEF Shape, Rotor
  <2> HIDE DEF x
  <2>3. h # Group(c) => x.queue[h] # <<>>
      BY <2>1, <2>2
  <2>4. IsNext(x, c) /\ x.last = Group(c)
      BY <1>2, <2>1 DEF x
  <2>5. ASSUME x.queue[h] # <<>> PROVE h = Group(c)
    <3>1. Shape(x)
        BY <2>1
    <3> QED BY <2>4, <2>5, <3>1, LastIsNext
  <2> QED BY <2>3, <2>5
<1> QED BY <1>1, <1>2

\* Only its own steps move a call.
LEMMA OwnSteps ==
    ASSUME DispatchIInv, DispatchNext, NEW c \in Calls, pc'[c] # pc[c]
    PROVE  \/ EnterGate(c) \/ RetestGate(c) \/ EnterLimiter(c)
           \/ RetestLimiter(c) \/ Return(c) \/ Release(c)
<1>1. pc \in [Calls -> States]
    BY DEF DispatchIInv, Values
<1>2. ASSUME NEW d \in Calls, NEW to, Moves(d, to) PROVE d = c
    BY <1>1, <1>2 DEF Moves
<1>3. ASSUME NEW d \in Calls, NEW r, TryGate(d, r) PROVE d = c
    BY <1>2, <1>3 DEF TryGate
<1>4. ASSUME NEW d \in Calls, NEW r, NEW w, TryLimiter(d, r, w) PROVE d = c
    BY <1>2, <1>4 DEF TryLimiter, Refuse
<1>5. ASSUME NEW d \in Calls,
             \/ EnterGate(d) \/ RetestGate(d) \/ EnterLimiter(d)
             \/ RetestLimiter(d) \/ Return(d) \/ Release(d)
      PROVE  d = c
    BY <1>2, <1>3, <1>4, <1>5
       DEF EnterGate, RetestGate, EnterLimiter, RetestLimiter, Return, Release, Refuse
<1>6. ~Expire /\ ~Configure /\ ~ \E s \in {SignalOf[d] : d \in Calls} : Cancel(s)
    BY DEF Expire, Configure, Cancel
<1> QED BY <1>5, <1>6 DEF DispatchNext

\* "Scheduling is fair across documents" (ADR 0033): no group passes a gate twice in a row
\* while another waits for it.
THEOREM TurnsAreTaken == ASSUME DispatchAssumption PROVE DispatchSpec => TurnsAlternate
<1>1. ASSUME DispatchIInv, DispatchNext PROVE ServedInTurn
  <2> SUFFICES
        ASSUME NEW c \in Calls
        PROVE  /\ pc[c] \in {"out", "gate"} /\ pc'[c] = "granted" /\ Group(c) = gate[LaneOf(c)].last =>
                  \A d \in Calls :
                      pc[d] = "gate" /\ LaneOf(d) = LaneOf(c) => Group(d) = Group(c)
               /\ c \notin Interactive /\ pc[c] \in {"granted", "limit"} /\ pc'[c] = "calling" =>
                  \A d \in Calls \ Interactive :
                      pc[d] = "limit" /\ Group(c) = limiter.last => Group(d) = Group(c)
      BY DEF ServedInTurn
  <2>1. /\ IsFiniteSet(Calls) /\ "gate" \in States /\ "limit" \in States
        /\ LaneOf(c) \in Lanes /\ "background" \in Lanes /\ pc \in [Calls -> States]
        /\ Agrees(limiter, pc, "background", "limit", cancelled)
        /\ Agrees(gate[LaneOf(c)], pc, LaneOf(c), "gate", cancelled)
      BY <1>1 DEF DispatchAssumption, States, Holding, LaneOf, Lanes, DispatchIInv, Values
  <2>2. ASSUME pc[c] \in {"out", "gate"}, pc'[c] = "granted", Group(c) = gate[LaneOf(c)].last,
               NEW d \in Calls, pc[d] = "gate", LaneOf(d) = LaneOf(c)
        PROVE  Group(d) = Group(c)
    <3> DEFINE r == gate[LaneOf(c)]
    <3>1. EnterGate(c) \/ RetestGate(c)
        BY <1>1, <2>2, OwnSteps DEF EnterLimiter, RetestLimiter, Return, Release
    <3>2. PICK x : TryGate(c, x) /\ (x = r \/ x = Join(r, c))
        BY <3>1 DEF EnterGate, RetestGate
    <3>3. IsNext(x, c)
      <4>1. ASSUME pc' = [pc EXCEPT ![c] = IF IsCancelled(c) THEN "out" ELSE "gate"] PROVE FALSE
          BY <2>1, <2>2, <4>1
      <4>2. CanAdmit(LaneOf(c), x, c)
          BY <3>2, <4>1 DEF TryGate, Moves
      <4> QED BY <4>2 DEF CanAdmit
    <3>4. Shape(r) /\ Group(d) \in Groups
        BY <2>1 DEF Agrees, Groups
    <3>5. r.queue[Group(d)] # <<>>
        BY <2>1, <2>2, HasTicket
    <3>6. IsNext(r, c) \/ IsNext(Join(r, c), c)
        BY <3>2, <3>3
    <3>7. r.last = Group(c)
        BY <2>2
    <3> HIDE DEF r
    <3> QED BY <3>4, <3>5, <3>6, <3>7, LastHasTurn
  <2>3. ASSUME c \notin Interactive, Group(c) = limiter.last, pc[c] \in {"granted", "limit"},
               pc'[c] = "calling", NEW d \in Calls \ Interactive, pc[d] = "limit"
        PROVE  Group(d) = Group(c)
    <3>1. EnterLimiter(c) \/ RetestLimiter(c)
        BY <1>1, <2>3, OwnSteps DEF EnterGate, RetestGate, Return, Release
    <3>2. ~Refuse(c)
        BY <2>1, <2>3 DEF Refuse, Moves
    <3>3. PICK x : TryLimiter(c, x, questions) /\ (x = limiter \/ x = Join(limiter, c))
        BY <2>3, <3>1, <3>2 DEF EnterLimiter, RetestLimiter
    <3>4. IsNext(x, c)
      <4>1. ~Moves(c, "limit")
          BY <2>1, <2>3 DEF Moves
      <4>2. LimiterNext(c, x, questions)
          BY <3>2, <3>3, <4>1 DEF TryLimiter
      <4> QED BY <2>3, <4>2 DEF LimiterNext
    <3>5. Shape(limiter) /\ Group(d) \in Groups
        BY <2>1 DEF Agrees, Groups
    <3>6. LaneOf(d) = "background"
        BY <2>3 DEF LaneOf
    <3>7. limiter.queue[Group(d)] # <<>>
        BY <2>1, <2>3, <3>6, HasTicket
    <3>8. IsNext(limiter, c) \/ IsNext(Join(limiter, c), c)
        BY <3>3, <3>4
    <3>9. limiter.last = Group(c)
        BY <2>3
    <3> QED BY <3>5, <3>7, <3>8, <3>9, LastHasTurn
  <2> QED BY <2>2, <2>3
<1>2. DispatchIInv /\ [DispatchNext]_dispatch => [ServedInTurn]_dispatch
    BY <1>1
<1> QED BY <1>2, DispatchInvariant, PTL DEF DispatchSpec, TurnsAlternate

=============================================================================
