-------------------------- MODULE RetrievalCatalog --------------------------
(***************************************************************************)
(* openkb/retrieval/catalog_store.py and catalog_lease.py: the generations *)
(* of the knowledge catalogue of one knowledge base.                       *)
(*                                                                         *)
(* A transaction that changes what the catalogue is made of raises the     *)
(* revision and queues one rebuild; its thread then asks for the worker, a *)
(* daemon that claims the rebuild, builds a generation without a lock, and *)
(* publishes it.  Retrieval chooses a generation, thinks, and leases it    *)
(* later.  The worker is registered in memory, by _WORKER_LOCK; the rest   *)
(* is in the database, each transaction under the ingest lock.             *)
(*                                                                         *)
(* A generation is named by its revision: its identity is made of revision *)
(* and contents, and a revision is built from one state of them.           *)
(***************************************************************************)
EXTENDS Integers, FiniteSets

CONSTANTS
    Workers,      \* worker threads
    Callers,      \* threads that change knowledge or open the knowledge base
    Readers,      \* retrievals
    MaxRevision,  \* how many changes are made at most
    Envs,         \* what may happen, a set for each behaviour
    None

\* Questions, another opening of the knowledge base, and what may go wrong.
Events == {"reads", "opens", "fails", "db_error", "crash", "no_thread", "slow_exit"}

CatalogAssumption ==
    /\ MaxRevision \in Nat \ {0}
    /\ None \notin Nat /\ None \notin Workers
    /\ Envs \subseteq SUBSET Events

VARIABLES
    env,         \* what may still happen, at first one member of Envs
    revision,    \* knowledge_catalog_state.source_revision
    current,     \* the current generation
    stale,       \* is_stale
    generations, \* the generations that are stored
    rebuild,     \* the row of knowledge_catalog_rebuild_tasks
    registration,      \* _ACTIVE_WORKERS, _RERUN_REQUESTS, _RECOVERY_REQUESTS
    worker,      \* worker[w]: how far the thread is, and the revision it has claimed
    caller,      \* caller[c]: how far the start of the worker is
    reader       \* reader[r]: how far the retrieval is, and its generation

vars == <<env, revision, current, stale, generations, rebuild, registration, worker, caller,
          reader>>

catalog == <<revision, current, stale, generations>>
threads == <<worker, caller, reader>>

MaxAttempts == 2  \* _MAX_CATALOG_BUILD_ATTEMPTS

Forgotten == [active |-> FALSE, rerun |-> FALSE, recover |-> FALSE]
Gone == [pc |-> "gone", claim |-> 0]
Resting == [pc |-> "idle", of |-> None]

\* The first change is committed.
Init ==
    /\ env \in Envs
    /\ revision = 1 /\ current = None /\ stale = TRUE /\ generations = {}
    /\ rebuild = [status |-> "pending", requested |-> 1, token |-> None, attempts |-> 0]
    /\ registration = Forgotten
    /\ worker = [w \in Workers |-> Gone]
    /\ \E c \in Callers : caller = [k \in Callers |-> IF k = c THEN "inspect" ELSE "idle"]
    /\ reader = [r \in Readers |-> Resting]

-----------------------------------------------------------------------------
(* Asking for the worker.                                                  *)

\* queue_catalog_rebuild_in, and the commit around it.
Change(c) ==
    /\ caller[c] = "idle" /\ revision < MaxRevision
    /\ revision' = revision + 1 /\ stale' = TRUE
    /\ rebuild' = [status |-> "pending", requested |-> revision + 1, token |-> None, attempts |-> 0]
    /\ caller' = [caller EXCEPT ![c] = "inspect"]
    /\ UNCHANGED <<env, current, generations, registration, worker, reader>>

\* start_catalog_rebuilds with recover, once: a worker that is there does it itself.
Open(c) ==
    /\ caller[c] = "idle" /\ "opens" \in env
    /\ env' = env \ {"opens"}
    /\ IF registration.active
       THEN /\ registration' = [registration EXCEPT !.recover = TRUE, !.rerun = TRUE]
            /\ UNCHANGED caller
       ELSE caller' = [caller EXCEPT ![c] = "recover"] /\ UNCHANGED registration
    /\ UNCHANGED <<catalog, rebuild, worker, reader>>

\* recover_catalog_rebuilds; the attempts are not forgotten.
recovered ==
    IF rebuild.status \in {"running", "failed"}
    THEN [rebuild EXCEPT !.status = "pending", !.token = None] ELSE rebuild

Recover(c) ==
    /\ caller[c] = "recover"
    /\ rebuild' = recovered
    /\ caller' = [caller EXCEPT ![c] = "inspect"]
    /\ UNCHANGED <<env, catalog, registration, worker, reader>>

\* _has_pending_work, before the lock is taken.
Inspect(c) ==
    /\ caller[c] = "inspect"
    /\ caller' = [caller EXCEPT ![c] = IF rebuild.status = "pending" THEN "register" ELSE "idle"]
    /\ UNCHANGED <<env, catalog, rebuild, registration, worker, reader>>

\* Near miss: a worker that is there is taken to see the new work by itself.
AskAgainNot == registration

AskAgain == [registration EXCEPT !.rerun = TRUE]

\* One worker is started, or the one that is there is asked to go round again.
Register(c) ==
    /\ caller[c] = "register"
    /\ caller' = [caller EXCEPT ![c] = "idle"]
    /\ IF registration.active THEN registration' = AskAgain /\ UNCHANGED worker
       ELSE \/ \E w \in Workers :
                   /\ worker[w].pc = "gone"
                   /\ worker' = [worker EXCEPT ![w].pc = "claim"]
                   /\ registration' = [registration EXCEPT !.active = TRUE]
            \/ "no_thread" \in env /\ registration' = Forgotten /\ UNCHANGED worker
    /\ UNCHANGED <<env, catalog, rebuild, reader>>

-----------------------------------------------------------------------------
(* The worker.                                                             *)

Goes(w, pc) == worker' = [worker EXCEPT ![w].pc = pc]

\* _claim_catalog_rebuild
Claim(w) ==
    /\ worker[w].pc = "claim"
    /\ IF rebuild.status = "pending"
       THEN /\ rebuild' = [rebuild EXCEPT !.status = "running", !.token = w, !.attempts = @ + 1]
            /\ worker' = [worker EXCEPT ![w] = [pc |-> "build", claim |-> rebuild.requested]]
       ELSE Goes(w, "release") /\ UNCHANGED rebuild
    /\ UNCHANGED <<env, catalog, registration, caller, reader>>

\* _build_claim_snapshot reads one state of the database.
Build(w) ==
    /\ worker[w].pc = "build"
    /\ Goes(w, IF revision = worker[w].claim THEN "publish" ELSE "claim")
    /\ UNCHANGED <<env, catalog, rebuild, registration, caller, reader>>

Leased == {reader[r].of : r \in {r \in Readers : reader[r].pc = "leased"}}

\* Near miss: leases are not looked at.
RetainedUnleased(all, now) ==
    {now} \cup {g \in all : \A h \in all \ {now} : h <= g}

\* _delete_old_generations_in keeps the current generation, the newest of the others, and
\* what is leased.
Retained(all, now) ==
    {g \in all : g = now \/ g \in Leased \/ \A h \in all \ {now} : h <= g}

\* Near miss: only the state of the task is compared.
ClaimRuns(w) == rebuild.status = "running"

\* What was claimed is still what is asked for.
ClaimHolds(w) ==
    /\ rebuild.status = "running" /\ rebuild.token = w
    /\ rebuild.requested = worker[w].claim /\ revision = worker[w].claim

\* _publish_claim_snapshot and _persist_snapshot_in; a claim that is obsolete is dropped.
Publish(w) ==
    /\ worker[w].pc = "publish"
    /\ IF ClaimHolds(w)
       THEN LET built == worker[w].claim IN
            /\ current' = built /\ stale' = FALSE
            /\ generations' = Retained(generations \cup {built}, built)
            /\ rebuild' = [rebuild EXCEPT !.status = "completed", !.token = None]
       ELSE UNCHANGED <<current, stale, generations, rebuild>>
    /\ Goes(w, "claim")
    /\ UNCHANGED <<env, revision, registration, caller, reader>>

\* _mark_catalog_rebuild_failed: the second failure is final, until the next opening.  A
\* claim that was lost meanwhile, or a failure that cannot be stored, ends the round too.
FailBuild(w) ==
    /\ "fails" \in env
    /\ worker[w].pc \in {"build", "publish"}
    /\ \/ /\ rebuild.status = "running" /\ rebuild.token = w
          /\ LET retry == rebuild.attempts < MaxAttempts IN
             /\ rebuild' = [rebuild EXCEPT !.status = IF retry THEN "pending" ELSE "failed",
                                           !.token = None]
             /\ Goes(w, IF retry THEN "claim" ELSE "release")
       \/ /\ ~(rebuild.status = "running" /\ rebuild.token = w) \/ "db_error" \in env
          /\ Goes(w, "release") /\ UNCHANGED rebuild
    /\ UNCHANGED <<env, catalog, registration, caller, reader>>

\* Near miss: the round that was asked for is forgotten with the recovery.
AgainUnlessRecovering == registration.rerun /\ ~registration.recover

Again == registration.rerun \/ registration.recover

\* _run_catalog_worker, under _WORKER_LOCK: another round, or the end.  The finally clause
\* that follows takes the lock once more.
Release(w) ==
    /\ worker[w].pc = "release"
    /\ IF Again
       THEN /\ registration' = [registration EXCEPT !.rerun = FALSE, !.recover = FALSE]
            /\ Goes(w, IF registration.recover THEN "recover" ELSE "claim")
       ELSE /\ registration' = [registration EXCEPT !.active = FALSE]
            /\ worker' = [worker EXCEPT ![w] =
                             IF "slow_exit" \in env THEN [@ EXCEPT !.pc = "exit"] ELSE Gone]
    /\ UNCHANGED <<env, catalog, rebuild, caller, reader>>

RecoverAgain(w) ==
    /\ worker[w].pc = "recover"
    /\ rebuild' = recovered
    /\ Goes(w, "claim")
    /\ UNCHANGED <<env, catalog, registration, caller, reader>>

\* The finally clause, late: it forgets whoever is registered by now.
Exit(w) ==
    /\ worker[w].pc = "exit"
    /\ registration' = Forgotten
    /\ worker' = [worker EXCEPT ![w] = Gone]
    /\ UNCHANGED <<env, catalog, rebuild, caller, reader>>

-----------------------------------------------------------------------------
(* Retrieval.                                                              *)

\* The snapshot of a question names a generation; planning by a model follows.
Choose(r) ==
    /\ "reads" \in env /\ reader[r].pc = "idle" /\ current # None
    /\ reader' = [reader EXCEPT ![r] = [pc |-> "chosen", of |-> current]]
    /\ UNCHANGED <<env, catalog, rebuild, registration, worker, caller>>

\* Near miss: what was chosen is taken to be there.
MayLeaseAnyway(g) == TRUE

MayLease(g) == g \in generations

\* _lease_catalog_generation; without a lease the retrieval does without the catalogue.
Lease(r) ==
    /\ reader[r].pc = "chosen"
    /\ reader' = [reader EXCEPT ![r] =
                     IF MayLease(@.of) THEN [@ EXCEPT !.pc = "leased"] ELSE Resting]
    /\ UNCHANGED <<env, catalog, rebuild, registration, worker, caller>>

EndLease(r) ==
    /\ reader[r].pc = "leased"
    /\ reader' = [reader EXCEPT ![r].pc = "cleaning"]
    /\ UNCHANGED <<env, catalog, rebuild, registration, worker, caller>>

\* cleanup_catalog_generations, in a transaction of its own.
Cleanup(r) ==
    /\ reader[r].pc = "cleaning"
    /\ reader' = [reader EXCEPT ![r] = Resting]
    /\ generations' = Retained(generations, current)
    /\ UNCHANGED <<env, revision, current, stale, rebuild, registration, worker, caller>>

\* The engine is gone, and is started again (once in a behaviour): the knowledge base is
\* opened at once.
Crash ==
    /\ "crash" \in env
    /\ env' = (env \ {"crash"}) \cup {"crashed"}
    /\ registration' = Forgotten
    /\ worker' = [w \in Workers |-> Gone]
    /\ \E c \in Callers : caller' = [k \in Callers |-> IF k = c THEN "recover" ELSE "idle"]
    /\ reader' = [r \in Readers |-> Resting]
    /\ UNCHANGED <<catalog, rebuild>>

WorkerStep(w) ==
    Claim(w) \/ Build(w) \/ Publish(w) \/ FailBuild(w) \/ Release(w) \/ RecoverAgain(w) \/ Exit(w)

CallerStep(c) == Recover(c) \/ Inspect(c) \/ Register(c)

ReaderStep(r) == Choose(r) \/ Lease(r) \/ EndLease(r) \/ Cleanup(r)

Next ==
    \/ \E w \in Workers : WorkerStep(w)
    \/ \E c \in Callers : Change(c) \/ Open(c) \/ CallerStep(c)
    \/ \E r \in Readers : ReaderStep(r)
    \/ Crash

Spec == Init /\ [][Next]_vars

-----------------------------------------------------------------------------
Lives(w) == worker[w].pc \in {"claim", "build", "publish", "release", "recover"}

TypeOK ==
    /\ rebuild.status \in {"pending", "running", "completed", "failed"}
    /\ current \in generations \cup {None}
    /\ \A w \in Workers : worker[w].claim \in 0..MaxRevision
    /\ "slow_exit" \notin env =>
           Cardinality({w \in Workers : Lives(w)}) = IF registration.active THEN 1 ELSE 0

\* A rebuild that is claimed is in the hands of a worker, one that is queued is seen by a
\* worker or by a thread that is about to start one.  (Unless a failure could not be stored, a
\* thread could not be started, or a worker forgets the registration of the next.)
RebuildIsWorkedOn ==
    LET harmless == env \cap {"db_error", "no_thread", "slow_exit"} = {} IN
    /\ rebuild.status = "running" /\ harmless =>
           \/ \E w \in Workers : rebuild.token = w /\ worker[w].pc \in {"build", "publish"}
           \/ \E c \in Callers : caller[c] = "recover"
    /\ rebuild.status = "pending" /\ harmless =>
           \/ \E w \in Workers : Lives(w) /\ (worker[w].pc = "release" => Again)
           \/ \E c \in Callers : caller[c] # "idle"

\* A rebuild that is completed has made the catalogue of the last change; what is leased is
\* there, and nothing older is kept than the generation before the current one, but for
\* what was leased when the engine died.
CatalogIsKept ==
    /\ rebuild.status = "completed" => ~stale
    /\ ~stale => current = revision
    /\ Leased \subseteq generations
    /\ \A g \in generations \ {current} :
           \/ g \in Leased \/ "crashed" \in env
           \/ \E r \in Readers : reader[r].pc = "cleaning"
           \/ \A h \in generations \ {current} : h <= g

\* A generation becomes current for the changes that are known then, and never gives way to
\* an older one.
PublishesLast ==
    [][current' # current =>
        /\ current' = revision /\ ~stale'
        /\ current # None => current' > current]_vars

\* No rebuild is left, and the worker has gone.
AtRest ==
    \/ env \cap {"db_error", "no_thread", "slow_exit"} # {}
    \/ /\ rebuild.status \in {"completed", "failed"}
       /\ \A w \in Workers : worker[w].pc = "gone"

=============================================================================
