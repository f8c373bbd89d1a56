------------------------------- MODULE RwLock -------------------------------
(***************************************************************************)
(* What a KB lock file promises its users: at any time the lock is free,   *)
(* held exclusively by one thread, or shared by threads that all hold it   *)
(* shared.  A thread never turns a shared hold into an exclusive one, or   *)
(* the reverse, without letting go in between.  How the threads of several *)
(* processes come to agree on this is the business of KbLocks.             *)
(***************************************************************************)
CONSTANT Threads

VARIABLE mode   \* mode[t]: how thread t holds the lock

RwModes == {"none", "shared", "exclusive"}

RwInit == mode = [t \in Threads |-> "none"]

AcquireShared(t) ==
    /\ mode[t] = "none"
    /\ \A u \in Threads : mode[u] # "exclusive"
    /\ mode' = [mode EXCEPT ![t] = "shared"]

AcquireExclusive(t) ==
    /\ \A u \in Threads : mode[u] = "none"
    /\ mode' = [mode EXCEPT ![t] = "exclusive"]

\* One thread lets go, or the threads of a process that dies do so together.
Release(ts) ==
    /\ ts # {}
    /\ mode' = [t \in Threads |-> IF t \in ts THEN "none" ELSE mode[t]]

RwNext ==
    \/ \E t \in Threads : AcquireShared(t) \/ AcquireExclusive(t)
    \/ \E ts \in SUBSET Threads : Release(ts)

RwSpec == RwInit /\ [][RwNext]_mode

=============================================================================
