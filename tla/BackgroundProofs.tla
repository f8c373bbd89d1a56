--------------------------- MODULE BackgroundProofs ---------------------------
(***************************************************************************)
(* The catalogue of a knowledge base, for any number of workers, callers   *)
(* and retrievals, any number of changes and whatever may happen; and what *)
(* holds of all the threads that an engine starts, whichever they are.     *)
(*                                                                         *)
(* What is published rests on two facts about every rebuild: the row asks  *)
(* for the revision of the state row, and a claim that still holds was     *)
(* made for it.  That a queued rebuild is seen needs more: between the     *)
(* transaction that queued it and the worker that claims it there is       *)
(* always a caller on its way, a worker about to claim, or a request for   *)
(* another round that the registered worker has not consumed.              *)
(*                                                                         *)
(* A behaviour of MCBackground is one of its parts from beginning to end:  *)
(* the inductive invariant of the part is kept, and what the parts promise *)
(* in common follows from it.                                              *)
(***************************************************************************)
EXTENDS MCBackground, FiniteSetTheorems, TLAPS

WorkerStates == {"gone", "claim", "build", "publish", "release", "recover", "exit"}
CallerStates == {"idle", "recover", "inspect", "register"}
ReaderStates == {"idle", "chosen", "leased", "cleaning"}

Shapes ==
    /\ rebuild \in [status : {"pending", "running", "completed", "failed"}, requested : Nat,
                    token : Workers \cup {None}, attempts : Nat]
    /\ registration \in [active : BOOLEAN, rerun : BOOLEAN, recover : BOOLEAN]
    /\ worker \in [Workers -> [pc : WorkerStates, claim : Nat]]
    /\ caller \in [Callers -> CallerStates]
    /\ reader \in [Readers -> [pc : ReaderStates, of : Nat \cup {None}]]
    /\ stale \in BOOLEAN

\* The state row: what is current was built, and nothing was built for the future.
Revisions ==
    /\ revision \in 1..MaxRevision
    /\ generations \subseteq 1..revision
    /\ current \in generations \cup {None}
    /\ stale \/ current = revision

\* The row of the rebuild asks for the present revision, and whoever still holds its claim
\* has claimed that revision.
Requested ==
    /\ rebuild.requested = revision
    /\ rebuild.status = "completed" => ~stale
    /\ \A w \in Workers :
           /\ worker[w].claim \in 0..MaxRevision
           /\ rebuild.status = "running" /\ rebuild.token = w /\ worker[w].pc \in {"build", "publish"}
                  => worker[w].claim = revision

LeasesInv ==
    /\ Leased \subseteq generations
    /\ \A g \in generations \ {current} :
           \/ g \in Leased \/ "crashed" \in env
           \/ \E r \in Readers : reader[r].pc = "cleaning"
           \/ \A h \in generations \ {current} : h <= g

\* One worker is alive exactly while it is registered, as long as no worker is slow to leave.
OneWorker == "slow_exit" \notin env =>
    /\ \A w \in Workers : worker[w].pc # "exit"
    /\ registration.active => \E w \in Workers : Lives(w)
    /\ \A w \in Workers : Lives(w) => registration.active
    /\ \A w, v \in Workers : Lives(w) /\ Lives(v) => w = v

Harmless == env \cap {"db_error", "no_thread", "slow_exit"} = {}

IsClaimed ==
    \/ \E w \in Workers : rebuild.token = w /\ worker[w].pc \in {"build", "publish"}
    \/ \E c \in Callers : caller[c] = "recover"

\* Whoever is going to see a rebuild that is queued.
IsAwaited ==
    \/ \E c \in Callers : caller[c] # "idle"
    \/ \E w \in Workers : worker[w].pc \in {"claim", "recover"}
    \/ registration.active /\ Again

WorkInv == Harmless =>
    /\ rebuild.status = "running" => IsClaimed
    /\ rebuild.status = "pending" => IsAwaited

IInv == Shapes /\ Revisions /\ Requested /\ LeasesInv /\ OneWorker /\ WorkInv

-----------------------------------------------------------------------------
(* Types and revisions.                                                    *)

\* Rows of generations, of the rebuild and of the leases keep their fields.
LEMMA ShapesOk == Shapes /\ Revisions /\ [Next]_vars => Shapes'
<1> SUFFICES ASSUME Shapes, Revisions, [Next]_vars PROVE Shapes'
  OBVIOUS
<1> USE DEF Shapes, WorkerStates, CallerStates, ReaderStates
<1>0. revision \in Nat /\ current \in Nat \cup {None} BY DEF Revisions
<1>1. ASSUME NEW w \in Workers, WorkerStep(w) PROVE Shapes'
  <2>1. CASE Claim(w)
    <3>1. CASE rebuild.status = "pending" 
      <4>1. /\ rebuild' = [rebuild EXCEPT !.status = "running", !.token = w,
                                          !.attempts = rebuild.attempts + 1]
            /\ worker' = [worker EXCEPT ![w] = [pc |-> "build", claim |-> rebuild.requested]]
            /\ UNCHANGED <<registration, caller, reader, stale>>
        BY <2>1, <3>1 DEF Claim, catalog
      <4>2. rebuild' \in [status : {"pending", "running", "completed", "failed"}, requested : Nat,
                          token : Workers \cup {None}, attempts : Nat]
        <5>1. rebuild.attempts + 1 \in Nat OBVIOUS
        <5> QED BY <4>1, <5>1
      <4>3. worker' \in [Workers -> [pc : WorkerStates, claim : Nat]] BY <4>1
      <4> QED BY <4>1, <4>2, <4>3
    <3>2. CASE rebuild.status # "pending" BY <2>1, <3>2 DEF Claim, Goes, catalog
    <3> QED BY <3>1, <3>2
  <2>2. CASE Build(w) BY <2>2 DEF Build, Goes, catalog
  <2>3. CASE Publish(w) BY <2>3 DEF Publish, Goes
  <2>4. CASE FailBuild(w)
    <3>1. UNCHANGED <<registration, caller, reader, stale>> BY <2>4 DEF FailBuild, catalog
    <3>2. \E pc \in WorkerStates : Goes(w, pc) BY <2>4 DEF FailBuild
    <3>3. \/ rebuild' = rebuild
          \/ \E st \in {"pending", "failed"} :
                 rebuild' = [rebuild EXCEPT !.status = st, !.token = None]
      BY <2>4 DEF FailBuild
    <3>4. worker' \in [Workers -> [pc : WorkerStates, claim : Nat]] BY <3>2 DEF Goes
    <3>5. rebuild' \in [status : {"pending", "running", "completed", "failed"}, requested : Nat,
                        token : Workers \cup {None}, attempts : Nat]
      BY <3>3
    <3> QED BY <3>1, <3>4, <3>5
  <2>5. CASE Release(w)
    <3>1. UNCHANGED <<rebuild, caller, reader, stale>> BY <2>5 DEF Release, catalog
    <3>2. CASE Again
      <4>1. /\ registration' = [registration EXCEPT !.rerun = FALSE, !.recover = FALSE]
            /\ \E pc \in WorkerStates : Goes(w, pc)
        BY <2>5, <3>2 DEF Release
      <4>2. worker' \in [Workers -> [pc : WorkerStates, claim : Nat]] BY <4>1 DEF Goes
      <4>3. registration' \in [active : BOOLEAN, rerun : BOOLEAN, recover : BOOLEAN] BY <4>1
      <4> QED BY <3>1, <4>2, <4>3
    <3>3. CASE ~Again
      <4>1. /\ registration' = [registration EXCEPT !.active = FALSE]
            /\ \/ worker' = [worker EXCEPT ![w].pc = "exit"]
               \/ worker' = [worker EXCEPT ![w] = Gone]
        BY <2>5, <3>3 DEF Release
      <4>2. worker' \in [Workers -> [pc : WorkerStates, claim : Nat]] BY <4>1 DEF Gone
      <4>3. registration' \in [active : BOOLEAN, rerun : BOOLEAN, recover : BOOLEAN] BY <4>1
      <4> QED BY <3>1, <4>2, <4>3
    <3> QED BY <3>2, <3>3
  <2>6. CASE RecoverAgain(w) BY <2>6 DEF RecoverAgain, recovered, Goes, catalog
  <2>7. CASE Exit(w) BY <2>7 DEF Exit, Forgotten, Gone, catalog
  <2> QED BY <1>1, <2>1, <2>2, <2>3, <2>4, <2>5, <2>6, <2>7 DEF WorkerStep
<1>2. ASSUME NEW c \in Callers, Change(c) \/ Open(c) \/ CallerStep(c) PROVE Shapes'
  <2>1. CASE Change(c) BY <2>1, <1>0 DEF Change
  <2>2. CASE Open(c) BY <2>2 DEF Open, catalog
  <2>3. CASE Recover(c) BY <2>3 DEF Recover, recovered, catalog
  <2>4. CASE Inspect(c) BY <2>4 DEF Inspect, catalog
  <2>5. CASE Register(c)
    <3>1. caller' \in [Callers -> CallerStates] /\ UNCHANGED <<rebuild, reader, stale>>
      BY <2>5 DEF Register, catalog
    <3>2. registration' \in [active : BOOLEAN, rerun : BOOLEAN, recover : BOOLEAN]
      <4>1. \/ registration' = [registration EXCEPT !.rerun = TRUE]
            \/ registration' = [registration EXCEPT !.active = TRUE]
            \/ registration' = [active |-> FALSE, rerun |-> FALSE, recover |-> FALSE]
        BY <2>5 DEF Register, AskAgain, Forgotten
      <4>2. CASE registration' = [registration EXCEPT !.rerun = TRUE] BY <4>2
      <4>3. CASE registration' = [registration EXCEPT !.active = TRUE] BY <4>3
      <4>4. CASE registration' = [active |-> FALSE, rerun |-> FALSE, recover |-> FALSE] BY <4>4
      <4> QED BY <4>1, <4>2, <4>3, <4>4
    <3>3. worker' = worker \/ \E w \in Workers : worker' = [worker EXCEPT ![w].pc = "claim"]
      BY <2>5 DEF Register
    <3> QED BY <3>1, <3>2, <3>3
  <2> QED BY <1>2, <2>1, <2>2, <2>3, <2>4, <2>5 DEF CallerStep
<1>3. ASSUME NEW r \in Readers, ReaderStep(r) PROVE Shapes'
  <2>1. CASE Choose(r) BY <2>1, <1>0 DEF Choose, catalog
  <2>2. CASE Lease(r) BY <2>2 DEF Lease, Resting, catalog
  <2>3. CASE EndLease(r) BY <2>3 DEF EndLease, catalog
  <2>4. CASE Cleanup(r) BY <2>4 DEF Cleanup, Resting
  <2> QED BY <1>3, <2>1, <2>2, <2>3, <2>4 DEF ReaderStep
<1>4. CASE Crash BY <1>4 DEF Crash, Forgotten, Gone, Resting, catalog
<1>5. CASE UNCHANGED vars BY <1>5 DEF vars
<1> QED BY <1>1, <1>2, <1>3, <1>4, <1>5 DEF Next

\* The deletion of old generations leaves the current one, and adds none.
LEMMA RetainedFacts ==
  ASSUME NEW kept, NEW now
  PROVE  Retained(kept, now) \subseteq kept /\ (now \in kept => now \in Retained(kept, now))
BY DEF Retained

\* Only a change raises the revision, only a publication and a cleanup touch generations.
LEMMA RevisionsOk ==
  ASSUME CatalogAssumption, Shapes, Revisions, Requested, [Next]_vars PROVE Revisions'
<1> USE DEF Revisions
<1>1. CASE \E c \in Callers : Change(c)
  BY <1>1 DEF Change, CatalogAssumption
<1>2. CASE \E w \in Workers : Publish(w)
  <2> PICK w \in Workers : Publish(w) BY <1>2
  <2>1. CASE ClaimHolds(w)
    <3>1. /\ current' = revision /\ generations' = Retained(generations \cup {revision}, revision)
          /\ revision' = revision /\ stale' = FALSE
      BY <2>1 DEF Publish, ClaimHolds
    <3>2. revision \in generations' /\ generations' \subseteq generations \cup {revision}
      BY <3>1, RetainedFacts
    <3>3. revision \in 1..revision OBVIOUS
    <3>4. generations' \subseteq 1..revision' BY <3>1, <3>2, <3>3
    <3> QED BY <3>1, <3>2, <3>4
  <2>2. CASE ~ClaimHolds(w) BY <2>2 DEF Publish
  <2> QED BY <2>1, <2>2
<1>3. CASE \E r \in Readers : Cleanup(r)
  <2>1. generations' \subseteq generations /\ current \in generations' \cup {None}
    BY <1>3, RetainedFacts DEF Cleanup
  <2>2. UNCHANGED <<revision, current, stale>> BY <1>3 DEF Cleanup
  <2>3. generations' \subseteq 1..revision' BY <2>1, <2>2
  <2> QED BY <2>1, <2>2, <2>3
<1>4. CASE UNCHANGED catalog BY <1>4 DEF catalog
<1>5. ASSUME NEW w \in Workers, WorkerStep(w), ~Publish(w) PROVE UNCHANGED catalog
  BY <1>5 DEF WorkerStep, Claim, Build, FailBuild, Release, RecoverAgain, Exit
<1>6. ASSUME NEW c \in Callers, Open(c) \/ CallerStep(c) PROVE UNCHANGED catalog
  BY <1>6 DEF CallerStep, Open, Recover, Inspect, Register
<1>7. ASSUME NEW r \in Readers, ReaderStep(r), ~Cleanup(r) PROVE UNCHANGED catalog
  BY <1>7 DEF ReaderStep, Choose, Lease, EndLease
<1>8. CASE Crash \/ UNCHANGED vars BY <1>8, <1>4 DEF Crash, vars, catalog
<1> QED BY <1>1, <1>2, <1>3, <1>4, <1>5, <1>6, <1>7, <1>8 DEF Next

\* A step of one worker: the claims of the others are what they were.
LEMMA OthersClaims ==
  ASSUME Shapes, Requested, revision' = revision,
         NEW w \in Workers, NEW pc, NEW claim \in 0..MaxRevision,
         worker' = [worker EXCEPT ![w] = [pc |-> pc, claim |-> claim]],
         rebuild'.requested = revision,
         rebuild'.status = "completed" => ~stale',
         rebuild'.status = "running" =>
             \/ rebuild.status = "running" /\ rebuild'.token = rebuild.token
             \/ rebuild'.token = w,
         rebuild'.status = "running" /\ rebuild'.token = w /\ pc \in {"build", "publish"}
             => claim = revision
  PROVE  Requested'
<1>1. ASSUME NEW v \in Workers
      PROVE /\ worker'[v].claim \in 0..MaxRevision
            /\ rebuild'.status = "running" /\ rebuild'.token = v /\ worker'[v].pc \in {"build", "publish"}
                   => worker'[v].claim = revision
  <2>1. CASE v = w
    <3>1. worker'[v].pc = pc /\ worker'[v].claim = claim BY <2>1 DEF Shapes
    <3> QED BY <2>1, <3>1
  <2>2. CASE v # w
    <3>1. worker'[v] = worker[v] BY <2>2 DEF Shapes
    <3> QED BY <2>2, <3>1 DEF Requested
  <2> QED BY <2>1, <2>2
<1> QED BY <1>1 DEF Requested

\* worker[w] with another pc is a record of the two fields.
LEMMA GoesTo ==
  ASSUME Shapes, NEW w \in Workers, NEW pc, Goes(w, pc)
  PROVE  worker' = [worker EXCEPT ![w] = [pc |-> pc, claim |-> worker[w].claim]]
<1>1. worker[w] \in [pc : WorkerStates, claim : Nat] BY DEF Shapes
<1>2. [worker[w] EXCEPT !.pc = pc] = [pc |-> pc, claim |-> worker[w].claim] BY <1>1
<1> QED BY <1>2 DEF Goes

\* recover_catalog_rebuilds changes no revision, and leaves no claim.
LEMMA RecoveredFacts ==
  ASSUME Shapes
  PROVE  /\ recovered.requested = rebuild.requested
         /\ recovered.status # "running"
         /\ recovered.status = "completed" => recovered = rebuild
         /\ recovered.status = "pending" => rebuild.status \in {"pending", "running", "failed"}
BY DEF recovered, Shapes

\* Changes raise both revisions at once; a claim is made for the one the row asks for; a
\* publication checks all three.
LEMMA RequestedOk ==
  ASSUME CatalogAssumption, Shapes, Revisions, Requested, [Next]_vars PROVE Requested'
<1>0. /\ revision \in 0..MaxRevision /\ revision \in Nat /\ revision = rebuild.requested
      /\ \A w \in Workers : worker[w].claim \in 0..MaxRevision
      /\ 0 \in 0..MaxRevision
  BY DEF Revisions, CatalogAssumption, Requested
<1>1. ASSUME NEW w \in Workers, WorkerStep(w) PROVE Requested'
  <2>0. worker[w].claim \in 0..MaxRevision BY <1>0
  <2>1. CASE Claim(w)
    <3>1. CASE rebuild.status = "pending"
      <4>1. /\ rebuild' = [rebuild EXCEPT !.status = "running", !.token = w,
                                          !.attempts = rebuild.attempts + 1]
            /\ UNCHANGED <<revision, stale>>
            /\ worker' = [worker EXCEPT ![w] = [pc |-> "build", claim |-> revision]]
        BY <2>1, <3>1, <1>0 DEF Claim, catalog
      <4>2. rebuild'.requested = revision /\ rebuild'.status = "running" /\ rebuild'.token = w
        BY <4>1, <1>0 DEF Shapes
      <4> QED BY <4>1, <4>2, <1>0, OthersClaims
    <3>2. CASE rebuild.status # "pending"
      <4>1. UNCHANGED <<rebuild, revision, stale>> /\ Goes(w, "release")
        BY <2>1, <3>2 DEF Claim, catalog
      <4>2. worker' = [worker EXCEPT ![w] = [pc |-> "release", claim |-> worker[w].claim]]
        BY <4>1, GoesTo
      <4>3. rebuild.status = "completed" => ~stale BY DEF Requested
      <4> QED BY <4>1, <4>2, <4>3, <1>0, <2>0, OthersClaims
    <3> QED BY <3>1, <3>2
  <2>2. CASE Build(w)
    <3>1. UNCHANGED <<rebuild, revision, stale>> BY <2>2 DEF Build, catalog
    <3>2. rebuild.status = "completed" => ~stale BY DEF Requested
    <3>3. CASE revision = worker[w].claim
      <4>1. worker' = [worker EXCEPT ![w] = [pc |-> "publish", claim |-> worker[w].claim]]
        BY <2>2, <3>3, GoesTo DEF Build
      <4> QED BY <3>1, <3>2, <3>3, <4>1, <1>0, <2>0, OthersClaims
    <3>4. CASE revision # worker[w].claim
      <4>1. worker' = [worker EXCEPT ![w] = [pc |-> "claim", claim |-> worker[w].claim]]
        BY <2>2, <3>4, GoesTo DEF Build
      <4> QED BY <3>1, <3>2, <4>1, <1>0, <2>0, OthersClaims
    <3> QED BY <3>3, <3>4
  <2>3. CASE Publish(w)
    <3>1. revision' = revision BY <2>3 DEF Publish
    <3>2. worker' = [worker EXCEPT ![w] = [pc |-> "claim", claim |-> worker[w].claim]]
      BY <2>3, GoesTo DEF Publish
    <3>3. rebuild.status = "completed" => ~stale BY DEF Requested
    <3>4. CASE ClaimHolds(w)
      <4>1. stale' = FALSE /\ rebuild' = [rebuild EXCEPT !.status = "completed", !.token = None]
        BY <2>3, <3>4 DEF Publish
      <4>2. rebuild'.status = "completed" /\ rebuild'.requested = revision
        BY <4>1, <1>0 DEF Shapes
      <4> QED BY <3>1, <3>2, <4>1, <4>2, <2>0, OthersClaims
    <3>5. CASE ~ClaimHolds(w)
      <4>1. UNCHANGED <<rebuild, stale>> BY <2>3, <3>5 DEF Publish
      <4> QED BY <3>1, <3>2, <3>3, <4>1, <1>0, <2>0, OthersClaims
    <3> QED BY <3>4, <3>5
  <2>4. CASE FailBuild(w)
    <3>1. UNCHANGED <<revision, stale>> BY <2>4 DEF FailBuild, catalog
    <3>2. \/ Goes(w, "claim") \/ Goes(w, "release") BY <2>4 DEF FailBuild
    <3>3. PICK pc \in {"claim", "release"} :
              worker' = [worker EXCEPT ![w] = [pc |-> pc, claim |-> worker[w].claim]]
      BY <3>2, GoesTo
    <3>4. /\ rebuild'.requested = revision
          /\ rebuild'.status = "completed" => ~stale'
          /\ rebuild'.status = "running" => rebuild' = rebuild
      <4>1. \/ rebuild' = rebuild
            \/ \E st \in {"pending", "failed"} :
                   rebuild' = [rebuild EXCEPT !.status = st, !.token = None]
        BY <2>4 DEF FailBuild
      <4>2. CASE rebuild' = rebuild BY <4>2, <3>1, <1>0 DEF Requested
      <4>3. CASE \E st \in {"pending", "failed"} :
                     rebuild' = [rebuild EXCEPT !.status = st, !.token = None]
        BY <4>3, <1>0 DEF Shapes
      <4> QED BY <4>1, <4>2, <4>3
    <3> QED BY <3>1, <3>3, <3>4, <2>0, OthersClaims
  <2>5. CASE Release(w) \/ Exit(w)
    <3>1. UNCHANGED <<rebuild, revision, stale>> BY <2>5 DEF Release, Exit, catalog
    <3>2. \/ Goes(w, "recover") \/ Goes(w, "claim") \/ Goes(w, "exit")
          \/ worker' = [worker EXCEPT ![w] = [pc |-> "gone", claim |-> 0]]
      BY <2>5 DEF Release, Exit, Goes, Gone
    <3>3. PICK pc \in WorkerStates \ {"build", "publish"}, claim \in 0..MaxRevision :
              worker' = [worker EXCEPT ![w] = [pc |-> pc, claim |-> claim]]
      BY <3>2, <2>0, <1>0, GoesTo DEF WorkerStates
    <3>4. rebuild.status = "completed" => ~stale BY DEF Requested
    <3> QED BY <3>1, <3>3, <3>4, <1>0, OthersClaims
  <2>6. CASE RecoverAgain(w)
    <3>1. UNCHANGED <<revision, stale>> /\ rebuild' = recovered
      BY <2>6 DEF RecoverAgain, catalog
    <3>2. worker' = [worker EXCEPT ![w] = [pc |-> "claim", claim |-> worker[w].claim]]
      BY <2>6, GoesTo DEF RecoverAgain
    <3>3. rebuild.status = "completed" => ~stale BY DEF Requested
    <3> QED BY <3>1, <3>2, <3>3, <1>0, <2>0, OthersClaims, RecoveredFacts
  <2> QED BY <1>1, <2>1, <2>2, <2>3, <2>4, <2>5, <2>6 DEF WorkerStep
<1>2. ASSUME NEW c \in Callers, Change(c) PROVE Requested'
  <2>1. /\ revision' = revision + 1 /\ worker' = worker
        /\ rebuild' = [status |-> "pending", requested |-> revision + 1, token |-> None, attempts |-> 0]
    BY <1>2 DEF Change
  <2> QED BY <2>1, <1>0 DEF Requested
<1>3. ASSUME NEW c \in Callers, Recover(c) PROVE Requested'
  <2>1. UNCHANGED <<revision, stale, worker>> /\ rebuild' = recovered
    BY <1>3 DEF Recover, catalog
  <2> QED BY <2>1, RecoveredFacts DEF Requested
<1>4. ASSUME NEW c \in Callers, Register(c) PROVE Requested'
  <2>1. UNCHANGED <<rebuild, revision, stale>> BY <1>4 DEF Register, catalog
  <2>2. CASE UNCHANGED worker BY <2>1, <2>2 DEF Requested
  <2>3. CASE \E w \in Workers : worker' = [worker EXCEPT ![w].pc = "claim"]
    <3> PICK w \in Workers : Goes(w, "claim") BY <2>3 DEF Goes
    <3>1. worker' = [worker EXCEPT ![w] = [pc |-> "claim", claim |-> worker[w].claim]]
      BY GoesTo
    <3>2. rebuild.status = "completed" => ~stale BY DEF Requested
    <3> QED BY <2>1, <3>1, <3>2, <1>0, OthersClaims
  <2> QED BY <1>4, <2>2, <2>3 DEF Register
<1>5. CASE Crash
  <2>1. /\ UNCHANGED <<rebuild, revision, stale>>
        /\ worker' = [w \in Workers |-> [pc |-> "gone", claim |-> 0]]
    BY <1>5 DEF Crash, Gone, catalog
  <2> QED BY <2>1, <1>0 DEF Requested
<1>6. CASE UNCHANGED <<rebuild, revision, stale, worker>> BY <1>6 DEF Requested
<1>7. ASSUME NEW c \in Callers, Open(c) \/ Inspect(c)
      PROVE  UNCHANGED <<rebuild, revision, stale, worker>>
  BY <1>7 DEF Open, Inspect, catalog
<1>8. ASSUME NEW r \in Readers, ReaderStep(r) PROVE UNCHANGED <<rebuild, revision, stale, worker>>
  BY <1>8 DEF ReaderStep, Choose, Lease, EndLease, Cleanup, catalog
<1> QED
  BY <1>1, <1>2, <1>3, <1>4, <1>5, <1>6, <1>7, <1>8 DEF Next, CallerStep, vars

-----------------------------------------------------------------------------
(* What is leased is there.                                                *)

\* A step that keeps the catalogue, takes no lease away and forgets no cleanup.
LEMMA LeasesFrame ==
  ASSUME LeasesInv, UNCHANGED <<generations, current>>,
         "crashed" \in env => "crashed" \in env',
         Leased' \subseteq generations, Leased \subseteq Leased',
         (\E r \in Readers : reader[r].pc = "cleaning") => \E r \in Readers : reader'[r].pc = "cleaning"
  PROVE  LeasesInv'
<1> DEFINE L == Leased
<1>1. ASSUME NEW g \in generations \ {current}
      PROVE  \/ g \in L' \/ "crashed" \in env'
             \/ \E r \in Readers : reader'[r].pc = "cleaning"
             \/ \A h \in generations \ {current} : h <= g
  BY DEF LeasesInv
<1>2. L' \subseteq generations' OBVIOUS
<1>3. generations' \ {current'} = generations \ {current} OBVIOUS
<1> HIDE DEF L
<1> QED BY <1>1, <1>2, <1>3 DEF LeasesInv, L

\* After a deletion only the generation before the current one and what is leased are left.
LEMMA RetainedLeases ==
  ASSUME NEW kept, NEW now, Leased \subseteq kept, current' = now, generations' = Retained(kept, now),
         Leased' = Leased
  PROVE  LeasesInv'
<1>1. Leased' \subseteq generations' BY DEF Retained
<1>2. ASSUME NEW g \in generations' \ {current'}
      PROVE g \in Leased' \/ \A h \in generations' \ {current'} : h <= g
  BY DEF Retained
<1> QED BY <1>1, <1>2 DEF LeasesInv

\* A lease is granted for a generation that is there, and every deletion looks at the leases.
LEMMA LeasesOk ==
  ASSUME CatalogAssumption, Shapes, LeasesInv, [Next]_vars PROVE LeasesInv'
<1>0. Leased \subseteq generations BY DEF LeasesInv
<1>1. CASE /\ UNCHANGED <<generations, current, reader>>
           /\ "crashed" \in env => "crashed" \in env'
  <2>1. Leased' = Leased BY <1>1 DEF Leased
  <2> QED BY <1>1, <2>1, <1>0, LeasesFrame
<1>2. ASSUME NEW w \in Workers, WorkerStep(w) PROVE LeasesInv'
  <2>1. CASE Publish(w)
    <3>1. CASE ClaimHolds(w)
      <4>1. Leased' = Leased BY <2>1 DEF Publish, Leased
      <4>2. /\ current' = worker[w].claim
            /\ generations' = Retained(generations \cup {worker[w].claim}, worker[w].claim)
        BY <2>1, <3>1 DEF Publish
      <4> QED BY <4>1, <4>2, <1>0, RetainedLeases
    <3>2. CASE ~ClaimHolds(w) BY <2>1, <3>2, <1>1 DEF Publish
    <3> QED BY <3>1, <3>2
  <2>2. CASE ~Publish(w)
    BY <1>2, <2>2, <1>1
    DEF WorkerStep, Claim, Build, FailBuild, Release, RecoverAgain, Exit, catalog
  <2> QED BY <2>1, <2>2
<1>3. ASSUME NEW c \in Callers, Change(c) \/ Open(c) \/ CallerStep(c) PROVE LeasesInv'
  BY <1>3, <1>1 DEF CallerStep, Change, Open, Recover, Inspect, Register, catalog
<1>4. ASSUME NEW r \in Readers, ReaderStep(r) PROVE LeasesInv'
  <2>0. \A q \in Readers : q # r => reader'[q] = reader[q]
    BY <1>4 DEF ReaderStep, Choose, Lease, EndLease, Cleanup, Shapes
  <2>1. CASE Choose(r)
    <3>1. reader'[r].pc = "chosen" /\ reader[r].pc = "idle" BY <2>1 DEF Choose, Shapes
    <3>2. Leased' = Leased BY <2>0, <3>1 DEF Leased
    <3>3. \A q \in Readers : reader[q].pc = "cleaning" => reader'[q].pc = "cleaning"
      BY <2>0, <3>1
    <3>4. UNCHANGED <<generations, current, env>> BY <2>1 DEF Choose, catalog
    <3> QED BY <3>2, <3>3, <3>4, <1>0, LeasesFrame
  <2>2. CASE Lease(r)
    <3>1. UNCHANGED <<generations, current, env>> /\ reader[r].pc = "chosen"
      BY <2>2 DEF Lease, catalog
    <3>2. \/ reader'[r].pc = "leased" /\ reader'[r].of \in generations
          \/ reader'[r].pc = "idle"
      BY <2>2 DEF Lease, MayLease, Resting, Shapes
    <3>3. Leased' \subseteq generations
      <4>1. ASSUME NEW q \in Readers, reader'[q].pc = "leased" PROVE reader'[q].of \in generations
        <5>1. CASE q = r BY <5>1, <3>2, <4>1
        <5>2. CASE q # r BY <5>2, <2>0, <4>1, <1>0 DEF Leased
        <5> QED BY <5>1, <5>2
      <4> QED BY <4>1 DEF Leased
    <3>4. Leased \subseteq Leased' BY <2>0, <3>1 DEF Leased
    <3>5. \A q \in Readers : reader[q].pc = "cleaning" => reader'[q].pc = "cleaning"
      BY <2>0, <3>1
    <3> QED BY <3>1, <3>3, <3>4, <3>5, LeasesFrame
  <2>3. CASE EndLease(r)
    <3>1. UNCHANGED <<generations, current>> BY <2>3 DEF EndLease, catalog
    <3>2. reader'[r].pc = "cleaning" BY <2>3 DEF EndLease, Shapes
    <3>3. Leased' \subseteq Leased BY <2>0, <3>2 DEF Leased
    <3> QED BY <3>1, <3>2, <3>3, <1>0 DEF LeasesInv
  <2>4. CASE Cleanup(r)
    <3>1. reader[r].pc = "cleaning" /\ reader'[r].pc = "idle" BY <2>4 DEF Cleanup, Resting, Shapes
    <3>2. Leased' = Leased BY <2>0, <3>1 DEF Leased
    <3>3. generations' = Retained(generations, current) /\ current' = current
      BY <2>4 DEF Cleanup
    <3> QED BY <3>2, <3>3, <1>0, RetainedLeases
  <2> QED BY <1>4, <2>1, <2>2, <2>3, <2>4 DEF ReaderStep
<1>5. CASE Crash
  <2>1. "crashed" \in env' BY <1>5 DEF Crash
  <2>2. Leased' = {} BY <1>5 DEF Crash, Leased, Resting
  <2> QED BY <2>1, <2>2 DEF LeasesInv
<1>6. CASE UNCHANGED vars BY <1>6, <1>1 DEF vars
<1> QED BY <1>2, <1>3, <1>4, <1>5, <1>6 DEF Next

-----------------------------------------------------------------------------
(* One worker, and nothing queued that nobody will see.                    *)

\* What may go wrong does not change, but for the one crash.
LEMMA EnvFacts ==
  ASSUME [Next]_vars
  PROVE  /\ "slow_exit" \in env' <=> "slow_exit" \in env
         /\ Harmless' <=> Harmless
<1>1. env' = env \/ env' = env \ {"opens"} \/ env' = (env \ {"crash"}) \cup {"crashed"}
  <2>1. ASSUME NEW w \in Workers, WorkerStep(w) PROVE env' = env
    BY <2>1 DEF WorkerStep, Claim, Build, Publish, FailBuild, Release, RecoverAgain, Exit
  <2>2. ASSUME NEW c \in Callers, Change(c) \/ Open(c) \/ CallerStep(c)
        PROVE  env' = env \/ env' = env \ {"opens"}
    BY <2>2 DEF CallerStep, Change, Open, Recover, Inspect, Register
  <2>3. ASSUME NEW r \in Readers, ReaderStep(r) PROVE env' = env
    BY <2>3 DEF ReaderStep, Choose, Lease, EndLease, Cleanup
  <2> QED BY <2>1, <2>2, <2>3 DEF Next, Crash, vars
<1> QED BY <1>1 DEF Harmless

\* A worker that lives goes on, and the registration is left alone.
LEMMA OneWorkerFrame ==
  ASSUME Shapes, OneWorker, "slow_exit" \notin env, NEW w \in Workers, Lives(w),
         NEW pc \in {"claim", "build", "publish", "release", "recover"}, NEW claim,
         worker' = [worker EXCEPT ![w] = [pc |-> pc, claim |-> claim]],
         registration'.active = registration.active
  PROVE  OneWorker'
<1>1. \A v \in Workers : Lives(v)' <=> Lives(v)
  BY DEF Lives, Shapes
<1>2. \A v \in Workers : worker'[v].pc # "exit"
  BY DEF OneWorker, Shapes
<1> QED BY <1>1, <1>2 DEF OneWorker

\* Under _WORKER_LOCK a worker is started only where none is registered, and a worker that
\* leaves takes its registration with it.
LEMMA OneWorkerOk ==
  ASSUME Shapes, OneWorker, [Next]_vars PROVE OneWorker'
<1> SUFFICES ASSUME "slow_exit" \notin env PROVE OneWorker'
  BY EnvFacts DEF OneWorker
<1>0. /\ \A w \in Workers : worker[w].pc # "exit"
      /\ registration.active => \E w \in Workers : Lives(w)
      /\ \A w \in Workers : Lives(w) => registration.active
      /\ \A w, v \in Workers : Lives(w) /\ Lives(v) => w = v
  BY DEF OneWorker
<1>a. CASE UNCHANGED worker /\ registration'.active = registration.active
  BY <1>a, <1>0 DEF OneWorker, Lives
<1>1. ASSUME NEW w \in Workers, WorkerStep(w) PROVE OneWorker'
  <2>1. CASE Claim(w)
    <3>1. registration' = registration /\ Lives(w) BY <2>1 DEF Claim, Lives
    <3>2. \/ worker' = [worker EXCEPT ![w] = [pc |-> "build", claim |-> rebuild.requested]]
          \/ worker' = [worker EXCEPT ![w] = [pc |-> "release", claim |-> worker[w].claim]]
      BY <2>1, GoesTo DEF Claim
    <3> QED BY <3>1, <3>2, OneWorkerFrame
  <2>2. CASE Build(w) \/ Publish(w) \/ FailBuild(w) \/ RecoverAgain(w)
    <3>1. registration' = registration /\ Lives(w)
      BY <2>2 DEF Build, Publish, FailBuild, RecoverAgain, Lives
    <3>2. \E pc \in {"claim", "publish", "release"} : Goes(w, pc)
      BY <2>2 DEF Build, Publish, FailBuild, RecoverAgain
    <3> QED BY <3>1, <3>2, GoesTo, OneWorkerFrame
  <2>3. CASE Release(w)
    <3>1. Lives(w) /\ worker[w].pc = "release" BY <2>3 DEF Release, Lives
    <3>2. CASE Again
      <4>1. registration'.active = registration.active BY <2>3, <3>2 DEF Release, Shapes
      <4>2. \E pc \in {"claim", "recover"} : Goes(w, pc) BY <2>3, <3>2 DEF Release
      <4> QED BY <3>1, <4>1, <4>2, GoesTo, OneWorkerFrame
    <3>3. CASE ~Again
      <4>1. worker' = [worker EXCEPT ![w] = Gone] /\ registration'.active = FALSE
        BY <2>3, <3>3 DEF Release, Shapes
      <4>2. \A v \in Workers : v # w => ~Lives(v) /\ worker'[v] = worker[v]
        BY <3>1, <4>1, <1>0 DEF Shapes
      <4>3. worker'[w].pc = "gone" BY <4>1 DEF Gone, Shapes
      <4>4. \A v \in Workers : worker'[v].pc # "exit" /\ ~Lives(v)'
        BY <4>2, <4>3, <1>0 DEF Lives
      <4> QED BY <4>1, <4>4 DEF OneWorker
    <3> QED BY <3>2, <3>3
  <2>4. CASE Exit(w) BY <2>4, <1>0 DEF Exit
  <2> QED BY <1>1, <2>1, <2>2, <2>3, <2>4 DEF WorkerStep
<1>2. ASSUME NEW c \in Callers, Register(c) PROVE OneWorker'
  <2>1. CASE registration.active
    <3>1. UNCHANGED worker /\ registration'.active = registration.active
      BY <1>2, <2>1 DEF Register, AskAgain, Shapes
    <3> QED BY <3>1, <1>a
  <2>2. CASE ~registration.active
    <3>0. \A v \in Workers : ~Lives(v) BY <2>2, <1>0
    <3>1. CASE \E w \in Workers : /\ worker[w].pc = "gone"
                                  /\ worker' = [worker EXCEPT ![w].pc = "claim"]
                                  /\ registration' = [registration EXCEPT !.active = TRUE]
      <4> PICK w \in Workers : /\ Goes(w, "claim")
                               /\ registration' = [registration EXCEPT !.active = TRUE]
        BY <3>1 DEF Goes
      <4>1. worker'[w].pc = "claim" /\ \A v \in Workers : v # w => worker'[v] = worker[v]
        BY DEF Goes, Shapes
      <4>2. \A v \in Workers : worker'[v].pc # "exit" /\ (Lives(v)' <=> v = w)
        BY <4>1, <3>0, <1>0 DEF Lives
      <4>3. registration'.active = TRUE BY DEF Shapes
      <4> QED BY <4>2, <4>3 DEF OneWorker
    <3>2. CASE UNCHANGED worker /\ registration' = Forgotten
      BY <3>2, <2>2, <1>a DEF Forgotten, Shapes
    <3> QED BY <1>2, <2>2, <3>1, <3>2 DEF Register
  <2> QED BY <2>1, <2>2
<1>3. ASSUME NEW c \in Callers, Change(c) \/ Open(c) \/ Recover(c) \/ Inspect(c) PROVE OneWorker'
  <2>1. UNCHANGED worker BY <1>3 DEF Change, Open, Recover, Inspect
  <2>2. registration'.active = registration.active
    BY <1>3 DEF Change, Open, Recover, Inspect, Shapes
  <2> QED BY <2>1, <2>2, <1>a
<1>4. ASSUME NEW r \in Readers, ReaderStep(r) PROVE OneWorker'
  BY <1>4, <1>a DEF ReaderStep, Choose, Lease, EndLease, Cleanup
<1>5. CASE Crash
  <2>1. /\ \A v \in Workers : worker'[v].pc = "gone"
        /\ registration'.active = FALSE
    BY <1>5 DEF Crash, Gone, Forgotten
  <2> QED BY <2>1 DEF OneWorker, Lives
<1>6. CASE UNCHANGED vars BY <1>6, <1>a DEF vars
<1> QED BY <1>1, <1>2, <1>3, <1>4, <1>5, <1>6 DEF Next, CallerStep

\* Whoever holds or awaits the rebuild is not the one who has moved.
LEMMA WorkFrame ==
  ASSUME WorkInv, Harmless, UNCHANGED <<rebuild, caller>>,
         \A v \in Workers : worker[v].pc \in {"build", "publish"} /\ rebuild.token = v
             => worker'[v].pc \in {"build", "publish"},
         \A v \in Workers : worker[v].pc \in {"claim", "recover"}
             => worker'[v].pc \in {"claim", "recover"},
         rebuild.status = "pending" /\ registration.active /\ Again => IsAwaited'
  PROVE  WorkInv'
<1>1. rebuild.status = "running" => IsClaimed' BY DEF WorkInv, IsClaimed
<1>2. rebuild.status = "pending" => IsAwaited' BY DEF WorkInv, IsAwaited
<1> QED BY <1>1, <1>2 DEF WorkInv

\* A change leaves a caller behind, a worker that drops its claim goes round again, and the
\* one that is about to leave has looked at the requests first.
LEMMA WorkOk ==
  ASSUME Shapes, Requested, OneWorker, WorkInv, [Next]_vars PROVE WorkInv'
<1> SUFFICES ASSUME Harmless PROVE WorkInv'
  BY EnvFacts DEF WorkInv
<1>0. "slow_exit" \notin env /\ "db_error" \notin env /\ "no_thread" \notin env BY DEF Harmless
<1>b. registration.active /\ Again /\ UNCHANGED registration => IsAwaited'
  BY DEF IsAwaited, Again
<1>1. ASSUME NEW w \in Workers, WorkerStep(w) PROVE WorkInv'
  <2>0. \A pc : Goes(w, pc) =>
            worker'[w].pc = pc /\ \A v \in Workers : v # w => worker'[v] = worker[v]
    BY DEF Goes, Shapes
  <2>1. CASE Claim(w)
    <3>1. CASE rebuild.status = "pending"
      <4>1. /\ rebuild' = [rebuild EXCEPT !.status = "running", !.token = w,
                                          !.attempts = rebuild.attempts + 1]
            /\ worker' = [worker EXCEPT ![w] = [pc |-> "build", claim |-> rebuild.requested]]
        BY <2>1, <3>1 DEF Claim
      <4>2. rebuild'.status = "running" /\ rebuild'.token = w /\ worker'[w].pc = "build"
        BY <4>1 DEF Shapes
      <4> QED BY <4>2 DEF WorkInv, IsClaimed
    <3>2. CASE rebuild.status # "pending"
      <4>1. UNCHANGED <<rebuild, caller>> /\ Goes(w, "release") BY <2>1, <3>2 DEF Claim
      <4>2. worker[w].pc = "claim" BY <2>1 DEF Claim
      <4>3. \A v \in Workers : worker[v].pc \in {"build", "publish"}
                => worker'[v].pc \in {"build", "publish"}
        BY <4>1, <4>2, <2>0
      <4>4. rebuild.status = "running" => IsClaimed' BY <4>1, <4>3 DEF WorkInv, IsClaimed
      <4> QED BY <4>1, <4>4, <3>2 DEF WorkInv
    <3> QED BY <3>1, <3>2
  <2>2. CASE Build(w)
    <3>1. UNCHANGED <<rebuild, caller, registration>> /\ worker[w].pc = "build"
      BY <2>2 DEF Build
    <3>2. PICK pc \in {"publish", "claim"} :
              Goes(w, pc) /\ (pc = "claim" => revision # worker[w].claim)
      BY <2>2 DEF Build
    <3>3. rebuild.status = "running" /\ rebuild.token = w => pc = "publish"
      BY <3>1, <3>2 DEF Requested
    <3>4. CASE pc = "publish" BY <3>1, <3>2, <3>4, <2>0, <1>b, WorkFrame
    <3>5. CASE pc = "claim"
      <4>1. IsAwaited' BY <3>2, <3>5, <2>0 DEF IsAwaited
      <4>2. rebuild.status = "running" => IsClaimed'
        <5> SUFFICES ASSUME rebuild.status = "running" PROVE IsClaimed' OBVIOUS
        <5>1. rebuild.token # w BY <3>3, <3>5
        <5>2. \A v \in Workers : v # w => worker'[v] = worker[v] BY <3>2, <2>0
        <5> QED BY <5>1, <5>2, <3>1 DEF WorkInv, IsClaimed
      <4> QED BY <4>1, <4>2, <3>1 DEF WorkInv
    <3> QED BY <3>4, <3>5
  <2>3. CASE Publish(w)
    <3>0. worker[w].pc = "publish" /\ Goes(w, "claim") /\ UNCHANGED <<caller, registration>>
      BY <2>3 DEF Publish
    <3>1. CASE ClaimHolds(w)
      <4>1. rebuild'.status = "completed" BY <2>3, <3>1 DEF Publish, Shapes
      <4> QED BY <4>1 DEF WorkInv
    <3>2. CASE ~ClaimHolds(w)
      <4>1. UNCHANGED rebuild BY <2>3, <3>2 DEF Publish
      <4>2. rebuild.status = "running" => rebuild.token # w
        BY <3>0, <3>2 DEF ClaimHolds, Requested
      <4>3. IsAwaited' BY <3>0, <2>0 DEF IsAwaited
      <4>4. rebuild.status = "running" => IsClaimed'
        BY <3>0, <4>1, <4>2, <2>0 DEF WorkInv, IsClaimed
      <4> QED BY <4>1, <4>3, <4>4 DEF WorkInv
    <3> QED BY <3>1, <3>2
  <2>4. CASE FailBuild(w)
    <3>0. worker[w].pc \in {"build", "publish"} /\ UNCHANGED <<caller, registration>>
      BY <2>4 DEF FailBuild
    <3>1. CASE rebuild.status = "running" /\ rebuild.token = w
      <4>1. \/ rebuild' = [rebuild EXCEPT !.status = "pending", !.token = None] /\ Goes(w, "claim")
            \/ rebuild' = [rebuild EXCEPT !.status = "failed", !.token = None] /\ Goes(w, "release")
        BY <2>4, <3>1, <1>0 DEF FailBuild
      <4>2. CASE rebuild' = [rebuild EXCEPT !.status = "pending", !.token = None] /\ Goes(w, "claim")
        <5>1. rebuild'.status = "pending" BY <4>2 DEF Shapes
        <5>2. IsAwaited' BY <4>2, <2>0 DEF IsAwaited
        <5> QED BY <5>1, <5>2 DEF WorkInv
      <4>3. CASE rebuild' = [rebuild EXCEPT !.status = "failed", !.token = None]
        <5>1. rebuild'.status = "failed" BY <4>3 DEF Shapes
        <5> QED BY <5>1 DEF WorkInv
      <4> QED BY <4>1, <4>2, <4>3
    <3>2. CASE ~(rebuild.status = "running" /\ rebuild.token = w)
      <4>1. UNCHANGED rebuild /\ Goes(w, "release") BY <2>4, <3>2 DEF FailBuild
      <4>2. rebuild.status = "running" => IsClaimed'
        BY <3>0, <3>2, <4>1, <2>0 DEF WorkInv, IsClaimed
      <4>3. \A v \in Workers : worker[v].pc \in {"claim", "recover"} => worker'[v].pc = worker[v].pc
        BY <3>0, <4>1, <2>0
      <4>4. rebuild.status = "pending" => IsAwaited'
        BY <3>0, <4>3, <1>b DEF WorkInv, IsAwaited
      <4> QED BY <4>1, <4>2, <4>4 DEF WorkInv
    <3> QED BY <3>1, <3>2
  <2>5. CASE Release(w)
    <3>0. worker[w].pc = "release" /\ UNCHANGED <<rebuild, caller>> BY <2>5 DEF Release
    <3>1. CASE Again
      <4>1. \E pc \in {"claim", "recover"} : Goes(w, pc) BY <2>5, <3>1 DEF Release
      <4>2. IsAwaited' BY <4>1, <2>0 DEF IsAwaited
      <4>3. \A v \in Workers : v # w => worker'[v] = worker[v] BY <4>1, <2>0
      <4> QED BY <3>0, <4>2, <4>3, WorkFrame
    <3>2. CASE ~Again
      <4>1. worker' = [worker EXCEPT ![w] = Gone] BY <2>5, <3>2, <1>0 DEF Release
      <4>2. \A v \in Workers : v # w => worker'[v] = worker[v] BY <4>1 DEF Shapes
      <4> QED BY <3>0, <3>2, <4>2, WorkFrame
    <3> QED BY <3>1, <3>2
  <2>6. CASE RecoverAgain(w)
    <3>1. IsAwaited' BY <2>6, <2>0 DEF RecoverAgain, IsAwaited
    <3>2. rebuild'.status # "running" BY <2>6, RecoveredFacts DEF RecoverAgain
    <3> QED BY <3>1, <3>2 DEF WorkInv
  <2>7. CASE Exit(w) BY <2>7, <1>0 DEF Exit, OneWorker
  <2> QED BY <1>1, <2>1, <2>2, <2>3, <2>4, <2>5, <2>6, <2>7 DEF WorkerStep
<1>2. ASSUME NEW c \in Callers, Change(c) \/ Recover(c) PROVE WorkInv'
  <2>1. caller'[c] = "inspect" BY <1>2 DEF Change, Recover, Shapes
  <2>2. rebuild'.status # "running" BY <1>2, RecoveredFacts DEF Change, Recover
  <2> QED BY <2>1, <2>2 DEF WorkInv, IsAwaited
<1>3. ASSUME NEW c \in Callers, Open(c) PROVE WorkInv'
  <2>0. UNCHANGED <<rebuild, worker>> BY <1>3 DEF Open
  <2>1. CASE registration.active
    <3>1. registration'.active /\ registration'.rerun /\ UNCHANGED caller
      BY <1>3, <2>1 DEF Open, Shapes
    <3>2. IsAwaited' BY <3>1 DEF IsAwaited, Again
    <3> QED BY <2>0, <3>1, <3>2, WorkFrame
  <2>2. CASE ~registration.active
    <3>1. caller'[c] = "recover" BY <1>3, <2>2 DEF Open, Shapes
    <3> QED BY <3>1 DEF WorkInv, IsClaimed, IsAwaited
  <2> QED BY <2>1, <2>2
<1>4. ASSUME NEW c \in Callers, Inspect(c) PROVE WorkInv'
  <2>0. UNCHANGED <<rebuild, worker, registration>> /\ caller[c] = "inspect" BY <1>4 DEF Inspect
  <2>1. \A k \in Callers : k # c => caller'[k] = caller[k] BY <1>4 DEF Inspect, Shapes
  <2>2. rebuild.status = "running" => IsClaimed' BY <2>0, <2>1 DEF WorkInv, IsClaimed
  <2>3. rebuild.status = "pending" => caller'[c] = "register" BY <1>4 DEF Inspect, Shapes
  <2> QED BY <2>0, <2>2, <2>3 DEF WorkInv, IsAwaited
<1>5. ASSUME NEW c \in Callers, Register(c) PROVE WorkInv'
  <2>0. UNCHANGED rebuild /\ caller[c] = "register" BY <1>5 DEF Register
  <2>1. \A k \in Callers : k # c => caller'[k] = caller[k] BY <1>5 DEF Register, Shapes
  <2>2. \A v \in Workers : worker[v].pc # "gone" => worker'[v].pc = worker[v].pc
    BY <1>5, <1>0 DEF Register, Shapes
  <2>3. rebuild.status = "running" => IsClaimed'
    BY <2>0, <2>1, <2>2 DEF WorkInv, IsClaimed
  <2>4. IsAwaited'
    <3>1. CASE registration.active
      <4>1. registration'.active /\ registration'.rerun
        BY <1>5, <3>1 DEF Register, AskAgain, Shapes
      <4> QED BY <4>1 DEF IsAwaited, Again
    <3>2. CASE ~registration.active
      <4> PICK w \in Workers : worker' = [worker EXCEPT ![w].pc = "claim"]
        BY <1>5, <3>2, <1>0 DEF Register
      <4>1. worker'[w].pc = "claim" BY DEF Shapes
      <4> QED BY <4>1 DEF IsAwaited
    <3> QED BY <3>1, <3>2
  <2> QED BY <2>0, <2>3, <2>4 DEF WorkInv
<1>6. ASSUME NEW r \in Readers, ReaderStep(r) PROVE WorkInv'
  BY <1>6, <1>b, WorkFrame DEF ReaderStep, Choose, Lease, EndLease, Cleanup
<1>7. CASE Crash
  <2>1. \E c \in Callers : caller'[c] = "recover" BY <1>7 DEF Crash
  <2> QED BY <2>1 DEF WorkInv, IsClaimed, IsAwaited
<1>8. CASE UNCHANGED vars BY <1>8, <1>b, WorkFrame DEF vars
<1> QED BY <1>1, <1>2, <1>3, <1>4, <1>5, <1>6, <1>7, <1>8 DEF Next, CallerStep

-----------------------------------------------------------------------------
(* The theorems.                                                           *)

\* A catalogue that was never built has a pending rebuild, and a caller about to look at it.
LEMMA InitOk == CatalogAssumption /\ Init => IInv
<1> SUFFICES ASSUME CatalogAssumption, Init PROVE IInv OBVIOUS
<1> USE DEF Init
<1>1. Shapes
  BY DEF Shapes, WorkerStates, CallerStates, ReaderStates, Forgotten, Gone, Resting,
         CatalogAssumption
<1>2. Revisions BY DEF Revisions, CatalogAssumption
<1>3. Requested BY DEF Requested, Gone, CatalogAssumption
<1>4. LeasesInv BY DEF LeasesInv, Leased, Resting
<1>5. OneWorker BY DEF OneWorker, Lives, Gone, Forgotten
<1>6. WorkInv
  <2>1. \E c \in Callers : caller[c] = "inspect" OBVIOUS
  <2> QED BY <2>1 DEF WorkInv, IsAwaited
<1> QED BY <1>1, <1>2, <1>3, <1>4, <1>5, <1>6 DEF IInv

\* Every step of a worker, a caller, a reader and of the engine keeps the invariant.
LEMMA NextOk == CatalogAssumption /\ IInv /\ [Next]_vars => IInv'
<1> SUFFICES ASSUME CatalogAssumption, IInv, [Next]_vars PROVE IInv' OBVIOUS
<1> QED BY ShapesOk, RevisionsOk, RequestedOk, LeasesOk, OneWorkerOk, WorkOk DEF IInv

\* The inductive invariant holds in every state of every behaviour of the catalogue's workers.
THEOREM CatalogInvariant == ASSUME CatalogAssumption PROVE Spec => []IInv
<1>1. Init => IInv BY InitOk
<1>2. IInv /\ [Next]_vars => IInv' BY NextOk
<1> QED BY <1>1, <1>2, PTL DEF Spec

\* cleanup_catalog_generations and _delete_old_generations_in take nothing that is leased, and
\* a rebuild that is completed has published the last change.
THEOREM KeepsCatalog == ASSUME CatalogAssumption PROVE Spec => []CatalogIsKept
<1>1. IInv => CatalogIsKept
  BY DEF IInv, Shapes, Revisions, Requested, LeasesInv, CatalogIsKept
<1> QED BY <1>1, CatalogInvariant, PTL

\* A rebuild that is queued is in sight of a worker, or of a thread that is about to ask for one.
LEMMA SeenRebuild == ASSUME IInv PROVE RebuildIsWorkedOn
<1> SUFFICES ASSUME Harmless
             PROVE  /\ rebuild.status = "running" => IsClaimed
                    /\ rebuild.status = "pending" =>
                          \/ \E w \in Workers : Lives(w) /\ (worker[w].pc = "release" => Again)
                          \/ \E c \in Callers : caller[c] # "idle"
  BY DEF RebuildIsWorkedOn, Harmless, IsClaimed
<1>1. rebuild.status = "running" => IsClaimed BY DEF IInv, WorkInv
<1>2. ASSUME rebuild.status = "pending"
      PROVE \/ \E w \in Workers : Lives(w) /\ (worker[w].pc = "release" => Again)
            \/ \E c \in Callers : caller[c] # "idle"
  <2>1. IsAwaited BY <1>2 DEF IInv, WorkInv
  <2>2. ASSUME NEW w \in Workers, worker[w].pc \in {"claim", "recover"}
        PROVE Lives(w) /\ worker[w].pc # "release"
    BY <2>2 DEF Lives
  <2>3. registration.active => \E w \in Workers : Lives(w)
    BY DEF IInv, OneWorker, Harmless
  <2> QED BY <2>1, <2>2, <2>3 DEF IsAwaited
<1> QED BY <1>1, <1>2

\* start_catalog_rebuilds and _run_catalog_worker: a rebuild that is queued is always in
\* sight of a worker, or of a thread that is about to ask for one.
THEOREM WorksOnRebuild == ASSUME CatalogAssumption PROVE Spec => []RebuildIsWorkedOn
<1>1. IInv => RebuildIsWorkedOn BY SeenRebuild
<1> QED BY <1>1, CatalogInvariant, PTL

\* One worker is alive while one is registered.
LEMMA OneIsAlive == ASSUME IInv PROVE TypeOK
<1>1. ASSUME "slow_exit" \notin env
      PROVE  Cardinality({w \in Workers : Lives(w)}) = IF registration.active THEN 1 ELSE 0
  <2>1. CASE registration.active
    <3> PICK w \in Workers : Lives(w) BY <1>1, <2>1 DEF IInv, OneWorker
    <3>1. {v \in Workers : Lives(v)} = {w} BY <1>1 DEF IInv, OneWorker
    <3> QED BY <2>1, <3>1, FS_Singleton
  <2>2. CASE ~registration.active
    <3>1. {v \in Workers : Lives(v)} = {} BY <1>1, <2>2 DEF IInv, OneWorker
    <3> QED BY <2>2, <3>1, FS_EmptySet
  <2> QED BY <2>1, <2>2
<1>2. /\ rebuild.status \in {"pending", "running", "completed", "failed"}
      /\ current \in generations \cup {None}
      /\ \A w \in Workers : worker[w].claim \in 0..MaxRevision
  BY DEF IInv, Shapes, Revisions, Requested
<1> QED BY <1>1, <1>2 DEF TypeOK

\* _WORKER_LOCK and _ACTIVE_WORKERS: one worker is alive while one is registered, and none
\* otherwise (as long as no worker is slow to leave).
THEOREM OneCatalogWorker == ASSUME CatalogAssumption PROVE Spec => []TypeOK
<1>1. IInv => TypeOK BY OneIsAlive
<1> QED BY <1>1, CatalogInvariant, PTL

\* _publish_claim_snapshot: what becomes current is made of the last change, and is newer
\* than what was current.
THEOREM PublishesTheLast == ASSUME CatalogAssumption PROVE Spec => PublishesLast
<1>1. IInv /\ [Next]_vars =>
        [current' # current =>
           /\ current' = revision /\ ~stale'
           /\ current # None => current' > current]_vars
  <2> SUFFICES ASSUME IInv, Next, current' # current
               PROVE  /\ current' = revision /\ ~stale'
                      /\ current # None => current' > current
    BY DEF vars
  <2>1. PICK w \in Workers : Publish(w)
    <3>1. ASSUME NEW w \in Workers, WorkerStep(w), ~Publish(w) PROVE FALSE
      BY <3>1 DEF WorkerStep, Claim, Build, FailBuild, Release, RecoverAgain, Exit, catalog
    <3>2. ASSUME NEW c \in Callers, Change(c) \/ Open(c) \/ CallerStep(c) PROVE FALSE
      BY <3>2 DEF CallerStep, Change, Open, Recover, Inspect, Register, catalog
    <3>3. ASSUME NEW r \in Readers, ReaderStep(r) PROVE FALSE
      BY <3>3 DEF ReaderStep, Choose, Lease, EndLease, Cleanup, catalog
    <3> QED BY <3>1, <3>2, <3>3 DEF Next, Crash, catalog
  <2>2. ClaimHolds(w) /\ current' = worker[w].claim /\ stale' = FALSE
    BY <2>1 DEF Publish
  <2>3. current' = revision BY <2>2 DEF ClaimHolds
  <2>4. current # None => current \in 1..revision BY DEF IInv, Revisions
  <2>5. current # None => current' > current BY <2>3, <2>4 DEF IInv, Revisions, CatalogAssumption
  <2> QED BY <2>2, <2>3, <2>5
<1> QED BY <1>1, CatalogInvariant, PTL DEF Spec, PublishesLast

-----------------------------------------------------------------------------
(* The parts together.                                                     *)

\* The invariant of the part that the behaviour is of.
PartInv ==
    /\ part = "enrichment" => Summaries!IInv
    /\ part = "graph" => Graph!IInv
    /\ part = "one node" => OneNode!IInv
    /\ part = "two levels" => TwoLevels!IInv
    /\ part = "catalog" => IInv

\* Every part begins as its component does.
LEMMA PartInit == ASSUME MCInit PROVE PartInv
<1>1. ASSUME part = "enrichment" PROVE Summaries!IInv
  BY <1>1, BackgroundAssumption, Summaries!InvariantInit DEF MCInit
<1>2. ASSUME part = "graph" PROVE Graph!IInv
  BY <1>2, BackgroundAssumption, Graph!InvariantInit DEF MCInit
<1>3. ASSUME part = "one node" PROVE OneNode!IInv
  BY <1>3, BackgroundAssumption, OneNode!InvariantInit DEF MCInit
<1>4. ASSUME part = "two levels" PROVE TwoLevels!IInv
  BY <1>4, BackgroundAssumption, TwoLevels!InvariantInit DEF MCInit
<1>5. ASSUME part = "catalog" PROVE IInv
  BY <1>5, BackgroundAssumption, InitOk DEF MCInit
<1> QED BY <1>1, <1>2, <1>3, <1>4, <1>5 DEF PartInv

\* No step is of another part than the one the behaviour is of, or it changes nothing.
LEMMA PartStep ==
    ASSUME [MCNext]_all
    PROVE  /\ UNCHANGED part
           /\ part = "enrichment" => [Summaries!NextState]_(Summaries!vars)
           /\ part = "graph" => [Graph!Next]_(Graph!vars)
           /\ part = "one node" => [OneNode!Next]_(OneNode!vars)
           /\ part = "two levels" => [TwoLevels!Next]_(TwoLevels!vars)
           /\ part = "catalog" => [Next]_vars
<1>1. CASE MCNext
  BY <1>1 DEF MCNext, OfEnrichment, OfGraph, OfImports, OfBatches, OfCatalog
<1>2. CASE UNCHANGED all
  <2>1. UNCHANGED part BY <1>2 DEF all
  <2>2. UNCHANGED Summaries!vars
    BY <1>2 DEF all, common, workers, treeOnly, Summaries!vars, Summaries!database, Summaries!memory
  <2>3. UNCHANGED Graph!vars
    BY <1>2 DEF all, common, workers, graphOnly, Graph!vars, Graph!aside, Graph!documents,
                Graph!models, Graph!memory, Graph!requests, Graph!quiet, Graph!store
  <2>4. UNCHANGED OneNode!vars
    BY <1>2 DEF all, common, imports, shared, batchOnly, OneNode!vars, OneNode!jobs, OneNode!saved,
                OneNode!quiet
  <2>5. UNCHANGED TwoLevels!vars
    BY <1>2 DEF all, common, imports, shared, batchOnly, TwoLevels!vars, TwoLevels!jobs,
                TwoLevels!saved, TwoLevels!quiet
  <2>6. UNCHANGED vars BY <1>2 DEF all, catalogOnly, vars
  <2> QED BY <2>1, <2>2, <2>3, <2>4, <2>5, <2>6
<1> QED BY <1>1, <1>2

\* What each part promises of its steps follows from its own invariant.
LEMMA PartKeeps ==
    ASSUME PartInv, [MCNext]_all
    PROVE  /\ PartInv'
           /\ part = "enrichment" => Summaries!PublishedInTurn /\ Summaries!LiftedByRetry
           /\ part = "graph" => Graph!PublishedInTurn /\ Graph!LiftedByRetry
           /\ part = "one node" => OneNode!InTurn
           /\ part = "two levels" => TwoLevels!InTurn
<1>1. UNCHANGED part BY PartStep
<1>2. ASSUME part = "enrichment"
      PROVE  Summaries!IInv' /\ Summaries!PublishedInTurn /\ Summaries!LiftedByRetry
  <2>1. [Summaries!NextState]_(Summaries!vars) BY <1>2, PartStep
  <2> QED BY <1>2, <2>1, BackgroundAssumption, Summaries!InvariantStep DEF PartInv
<1>3. ASSUME part = "graph" PROVE Graph!IInv' /\ Graph!PublishedInTurn /\ Graph!LiftedByRetry
  <2>1. [Graph!Next]_(Graph!vars) BY <1>3, PartStep
  <2> QED BY <1>3, <2>1, BackgroundAssumption, Graph!InvariantStep DEF PartInv
<1>4. ASSUME part = "one node" PROVE OneNode!IInv' /\ OneNode!InTurn
  <2>1. [OneNode!Next]_(OneNode!vars) BY <1>4, PartStep
  <2> QED BY <1>4, <2>1, BackgroundAssumption, OneNode!InvariantStep DEF PartInv
<1>5. ASSUME part = "two levels" PROVE TwoLevels!IInv' /\ TwoLevels!InTurn
  <2>1. [TwoLevels!Next]_(TwoLevels!vars) BY <1>5, PartStep
  <2> QED BY <1>5, <2>1, BackgroundAssumption, TwoLevels!InvariantStep DEF PartInv
<1>6. ASSUME part = "catalog" PROVE IInv'
  <2>1. [Next]_vars BY <1>6, PartStep
  <2> QED BY <1>6, <2>1, BackgroundAssumption, NextOk DEF PartInv
<1> QED BY <1>1, <1>2, <1>3, <1>4, <1>5, <1>6 DEF PartInv

\* What each part promises of its states follows from its own invariant.
LEMMA PartMeans ==
    ASSUME PartInv
    PROVE  BackgroundTypeOK /\ BackgroundPermitsHaveOwner /\ BackgroundRunningIsWorkedOn /\ CompletedHasResult
<1>1. ASSUME part = "enrichment"
      PROVE  /\ Summaries!TypeOK /\ Summaries!PermitsHaveOwner /\ Summaries!RunningIsWorkedOn
             /\ Summaries!CompletedHasSummaries
  BY <1>1, Summaries!InvariantMeans DEF PartInv
<1>2. ASSUME part = "graph"
      PROVE  Graph!TypeOK /\ Graph!PermitsHaveOwner /\ Graph!RunningIsWorkedOn /\ Graph!CompletedHasGraph
  BY <1>2, Graph!InvariantMeans DEF PartInv
<1>3. ASSUME part = "one node"
      PROVE  /\ OneNode!TypeOK /\ OneNode!PermitsHaveOwner /\ OneNode!RunningIsWorkedOn
             /\ OneNode!CompletedHasResult
  BY <1>3, BackgroundAssumption, OneNode!InvariantMeans DEF PartInv
<1>4. ASSUME part = "two levels"
      PROVE  /\ TwoLevels!TypeOK /\ TwoLevels!PermitsHaveOwner /\ TwoLevels!RunningIsWorkedOn
             /\ TwoLevels!CompletedHasResult
  BY <1>4, BackgroundAssumption, TwoLevels!InvariantMeans DEF PartInv
<1>5. ASSUME part = "catalog" PROVE TypeOK /\ RebuildIsWorkedOn
  BY <1>5, OneIsAlive, SeenRebuild DEF PartInv
<1>6. BackgroundTypeOK BY <1>1, <1>2, <1>3, <1>4, <1>5 DEF BackgroundTypeOK
<1>7. BackgroundPermitsHaveOwner BY <1>1, <1>2, <1>3, <1>4 DEF BackgroundPermitsHaveOwner
<1>8. BackgroundRunningIsWorkedOn BY <1>1, <1>2, <1>3, <1>4, <1>5 DEF BackgroundRunningIsWorkedOn
<1>9. CompletedHasResult BY <1>1, <1>2, <1>3, <1>4 DEF CompletedHasResult
<1> QED BY <1>6, <1>7, <1>8, <1>9

\* Every part keeps the invariant that its own theorems rest on.
THEOREM BackgroundInvariant == MCSpec => []PartInv
<1>1. MCInit => PartInv BY PartInit
<1>2. PartInv /\ [MCNext]_all => PartInv' BY PartKeeps
<1> QED BY <1>1, <1>2, PTL DEF MCSpec

\* One worker at a time, exactly while it is registered (the registries of page tree, graph and
\* catalogue), and as many batches as a document may have at once (parallel_map_ordered).
THEOREM BackgroundTypes == MCSpec => []BackgroundTypeOK
<1>1. PartInv => BackgroundTypeOK BY PartMeans
<1> QED BY <1>1, BackgroundInvariant, PTL

\* No path leaves a permit behind that no task, and no recovery, will use or revoke
\* (retry_document, retry, end_recovery and the transactions that take a scope from a row).
THEOREM NoPermitIsLeftBehind == MCSpec => []BackgroundPermitsHaveOwner
<1>1. PartInv => BackgroundPermitsHaveOwner BY PartMeans
<1> QED BY <1>1, BackgroundInvariant, PTL

\* What counts as running or queued is in the hands, or in sight, of a thread: a claim of a
\* task, a batch of an analysis, a rebuild of the catalogue.
THEOREM WhatRunsIsWorkedOn == MCSpec => []BackgroundRunningIsWorkedOn
<1>1. PartInv => BackgroundRunningIsWorkedOn BY PartMeans
<1> QED BY <1>1, BackgroundInvariant, PTL

\* A completed task has its result, and a completed analysis is made of all its batches
\* (_publish, _publish_and_complete, complete_merge).
THEOREM WhatCompletesHasResult == MCSpec => []CompletedHasResult
<1>1. PartInv => CompletedHasResult BY PartMeans
<1> QED BY <1>1, BackgroundInvariant, PTL

\* Results are published for the tree and for the candidates that are current, and a node is
\* merged after its children (_publish, persist_semantic_graph_interpretation_in,
\* complete_merge_node).
THEOREM PublishesInTurn == MCSpec => ResultsArePublishedInTurn
<1>1. PartInv /\ [MCNext]_all =>
        [CASE part = "enrichment" -> Summaries!PublishedInTurn
           [] part = "graph" -> Graph!PublishedInTurn
           [] part = "one node" -> OneNode!InTurn
           [] part = "two levels" -> TwoLevels!InTurn
           [] OTHER -> TRUE]_all
  BY PartKeeps
<1> QED BY <1>1, BackgroundInvariant, PTL DEF MCSpec, ResultsArePublishedInTurn

\* A suspension is lifted by the valid answer of a retry that was granted for it, in the
\* enrichment and in the graph alike (mark_structured_output_operations_ready).
THEOREM RetriesLiftSuspensions == MCSpec => SuspensionsAreLiftedByRetries
<1>1. PartInv /\ [MCNext]_all =>
        [CASE part = "enrichment" -> Summaries!LiftedByRetry
           [] part = "graph" -> Graph!LiftedByRetry
           [] OTHER -> TRUE]_all
  BY PartKeeps
<1> QED BY <1>1, BackgroundInvariant, PTL DEF MCSpec, SuspensionsAreLiftedByRetries

=============================================================================
