------------------------- MODULE PageTreeEnrichment -------------------------
(***************************************************************************)
(* Optional summaries of page trees, written by a background worker:       *)
(*   - openkb/page_tree/enrichment*.py: one task row per document and the  *)
(*     overlay that is current for it, in the database;                    *)
(*   - openkb/engine/page_tree_enrichment.py: at most one worker thread    *)
(*     per knowledge base, the gateway it may use, a flag that asks for    *)
(*     another round, and the documents the user has cancelled, in memory. *)
(* Every statement on the database is a transaction under the ingest lock; *)
(* the engine's variables are read and written under _workers_lock.        *)
(* Requests of the user are served one at a time (_workspace_requests_lock)*)
(* and a start of the worker takes the same lock.                          *)
(***************************************************************************)
EXTENDS FiniteSets, Integers

CONSTANTS
    Docs,      \* source documents, each with a page tree
    Models,    \* analysis models that may be configured
    Workers,   \* worker threads: old ones may outlive their lease
    Scopes,    \* scopes of retries (uuid4, used again when nothing holds them)
    MaxTree,   \* how many page trees a document gets
    Envs,      \* what may happen besides imports: one of these sets of events
    MaxEvents, \* how many events there are in a behaviour
    None

Events ==
    {"retry", "cancel", "settings", "open", "other", "rebuild", "availability", "db_error",
     "crash", "invalid", "configuration", "result", "transport"}

EnrichmentAssumption ==
    /\ Envs \subseteq SUBSET Events /\ Envs # {}
    /\ Models # {}
    /\ MaxTree \in Nat \ {0}
    /\ None \notin Models \cup Scopes \cup Workers \cup Docs

\* The two contracts of the operation under a model.
Summaries(m) ==
    [operation |-> "page_tree_enrichment", identity |-> m, digest |-> "summaries"]
Repair(m) ==
    [operation |-> "structured_output_repair", identity |-> m, digest |-> "summaries"]

TaskContracts == {Summaries(m) : m \in Models} \cup {Repair(m) : m \in Models}

Ledger == INSTANCE OperationLedger WITH Contracts <- TaskContracts

VARIABLES
    tree,        \* tree[d]: the current page tree of d
    available,   \* the documents that are available
    rebuilding,  \* the documents whose page tree is being rebuilt
    task,        \* task[d]: the task row of d
    overlay,     \* overlay[d]: the tree and the model of the current summaries, or None
    ledger,      \* the operation contracts and retry permits
    settings,    \* the configured model
    verified,    \* the models whose capability check has passed
    active,      \* the knowledge base is open
    gateway,     \* the gateway installed for the worker, or None
    rerun,       \* the worker is asked for another round
    registered,  \* a worker is registered
    cancelled,   \* the documents cancelled since the engine started
    thread,      \* thread[w]: a worker thread
    importer,    \* the gateway of an import that has just finished, or None
    retrying,    \* the retry request between its transaction and its start, or None
    env,         \* what may happen in this behaviour
    events       \* how many events have happened

database == <<tree, available, rebuilding, task, overlay, ledger, settings, verified>>
memory == <<gateway, rerun, registered, cancelled, importer, retrying>>
aside == <<tree, available, rebuilding, settings, verified, memory, active, env, events>>
vars == <<database, memory, active, thread, env, events>>

\* One of the things that need not happen does.
quiet == <<env, events>>
Event == events < MaxEvents /\ events' = events + 1 /\ UNCHANGED env

NoTask ==
    [status |-> "none", tree |-> 0, model |-> None, reason |-> "none", error |-> "none",
     scope |-> None, token |-> None]

Idle == [pc |-> "idle", stale |-> FALSE, gw |-> None, todo |-> {}, doc |-> None,
         scope |-> None, repaired |-> FALSE]

Pending(d, m, reason, scope) ==
    [status |-> "pending", tree |-> tree[d], model |-> m, reason |-> reason,
     error |-> "none", scope |-> scope, token |-> None]

\* The scopes that the current tasks of D hold.
ScopesOf(tasks, D) == {tasks[d].scope : d \in D} \ {None}

----------------------------------------------------------------------------
(* The task store.                                                          *)

Target(d, m) == [tree |-> tree[d], model |-> m]

\* _queue_target_in leaves a task alone that is under way, or has failed for good.
Settled(t, target) ==
    /\ t.tree = target.tree /\ t.model = target.model
    /\ \/ t.status \in {"pending", "running"}
       \/ t.status = "failed" /\ t.error # "unavailable"

Closed(t, status, error) ==
    [t EXCEPT !.status = status, !.error = error, !.scope = None, !.token = None]

Completed(t, target) ==
    [t EXCEPT !.status = "completed", !.tree = target.tree, !.model = target.model,
              !.reason = "current", !.error = "none", !.scope = None, !.token = None]

\* _complete_repaired_task_in: nothing is written over a row that is right already.
CompletedFor(t, target) ==
    t.status = "completed" /\ t.tree = target.tree /\ t.model = target.model

\* queue_eligible: the row of d afterwards.
Queued(d, m) ==
    LET t == task[d]  target == Target(d, m)
    IN  CASE d \notin available -> t
          [] d \in available /\ overlay[d] = target ->
                IF CompletedFor(t, target) THEN t ELSE Completed(t, target)
          [] OTHER -> IF Settled(t, target) THEN t ELSE Pending(d, m, "target", None)

\* Near miss: the permits of a row that is written over are forgotten, not revoked.
QueueEligibleKeeping(m) ==
    /\ task' = [d \in Docs |-> Queued(d, m)]
    /\ UNCHANGED ledger

QueueEligible(m) ==
    /\ task' = [d \in Docs |-> Queued(d, m)]
    /\ ledger' = Ledger!RevokeAll(ledger, ScopesOf(task, {d \in Docs : task'[d] # task[d]}))

\* pending_document_ids fails the tasks of documents that are gone ...
Withdrawn == {d \in Docs \ available : task[d].status \in {"pending", "running"}}

FailUnavailable ==
    /\ task' = [d \in Docs |->
                  IF d \in Withdrawn
                  THEN Closed(task[d], "failed", "unavailable")
                  ELSE task[d]]
    /\ ledger' = Ledger!RevokeAll(ledger, ScopesOf(task, Withdrawn))

Runnable(d, m) ==
    /\ d \in available
    /\ task[d].status = "pending" /\ task[d].error = "none" /\ task[d].model = m
    /\ task[d].reason = "retry" => task[d].scope # None

\* ... and lists the others whose contract may be called.
PendingIds(m) ==
    {d \in Docs :
        Runnable(d, m) /\ Ledger!DispatchAdmitted(ledger, Summaries(m), task[d].scope)}

Claimable(d, m) == Runnable(d, m) /\ task[d].tree = tree[d] /\ rebuilding = {}

Held(d, w) == task[d].status = "running" /\ task[d].token = w

\* recover_interrupted_in and request_cancel_in.
Interrupted(t) ==
    [t EXCEPT !.status = "pending", !.reason = "retry", !.error = "interrupted",
              !.scope = None, !.token = None]

Recoverable(t) ==
    \/ t.status = "running"
    \/ t.scope # None
    \/ t.status = "pending" /\ t.reason = "retry" /\ t.error = "none"

Recovered(t) == IF Recoverable(t) THEN Interrupted(t) ELSE t

----------------------------------------------------------------------------
(* The worker thread.                                                       *)

Goto(w, pc) == thread' = [thread EXCEPT ![w].pc = pc]

\* A gateway is a new object for every start: no holder uses this number.
Gateways ==
    {gateway, importer} \cup {thread[w].gw : w \in Workers}
    \cup (IF retrying = None THEN {} ELSE {retrying.gw})
NewGateway(m) ==
    LET taken == {g.id : g \in Gateways \ {None}}
    IN  [id |-> CHOOSE i \in 1..Cardinality(taken) + 1 : i \notin taken, model |-> m]

IsCurrent(g) == gateway = g /\ g.model \in verified

\* start_page_tree_enrichments: one worker; a second start asks for another round.
Start(g, threads) ==
    IF ~active \/ g.model \notin verified
    THEN /\ thread' = threads
         /\ UNCHANGED <<gateway, rerun, registered>>
    ELSE /\ gateway' = g
         /\ registered' = TRUE
         /\ rerun' = (rerun \/ registered)
         /\ IF registered THEN thread' = threads
            ELSE LET idle == {w \in Workers : threads[w].pc = "idle"}
                 IN  /\ idle # {}
                     /\ thread' = [threads EXCEPT ![CHOOSE w \in idle : TRUE] =
                                      [Idle EXCEPT !.pc = "top"]]

\* The head of the loop; while a tree is rebuilt the worker only waits.
Top(w) ==
    /\ thread[w].pc = "top"
    /\ IF thread[w].stale \/ gateway = None
       THEN /\ Goto(w, "final")
            /\ UNCHANGED rerun
       ELSE /\ rerun' = FALSE
            /\ thread' = [thread EXCEPT ![w].pc = IF rebuilding = {} THEN "queue" ELSE "top",
                                        ![w].gw = gateway]
    /\ UNCHANGED <<database, gateway, registered, cancelled, importer, retrying, active, quiet>>

Queue(w) ==
    /\ thread[w].pc = "queue"
    /\ QueueEligible(thread[w].gw.model)
    /\ Goto(w, "list")
    /\ UNCHANGED <<aside, overlay>>

List(w) ==
    /\ thread[w].pc = "list"
    /\ FailUnavailable
    /\ thread' = [thread EXCEPT ![w].pc = "next", ![w].todo = PendingIds(thread[w].gw.model)]
    /\ UNCHANGED <<aside, overlay>>

MayGoOn(w) == ~thread[w].stale /\ IsCurrent(thread[w].gw) /\ rebuilding = {}

\* The next document of the list, in any order; a cancelled one is passed over.
Next(w) ==
    /\ thread[w].pc = "next"
    /\ IF thread[w].todo = {} \/ ~MayGoOn(w)
       THEN thread' = [thread EXCEPT ![w].pc = "after", ![w].todo = {}]
       ELSE \E d \in thread[w].todo :
               thread' = [thread EXCEPT ![w].pc = IF d \in cancelled THEN "next" ELSE "claim",
                                        ![w].doc = IF d \in cancelled THEN None ELSE d,
                                        ![w].todo = @ \ {d}]
    /\ UNCHANGED <<database, memory, active, quiet>>

\* The document is done with, and so is the claim.
Leave(w) ==
    thread' = [thread EXCEPT ![w].pc = "next", ![w].doc = None, ![w].scope = None,
                             ![w].repaired = FALSE]

Claim(w) ==
    LET d == thread[w].doc  m == thread[w].gw.model
    IN  /\ thread[w].pc = "claim"
        /\ IF m \in verified /\ Claimable(d, m)
           THEN /\ task' = [task EXCEPT ![d].status = "running", ![d].token = w]
                /\ thread' = [thread EXCEPT
                      ![w].pc = "dispatch",
                      ![w].scope = IF task[d].reason = "retry" THEN task[d].scope ELSE None]
           ELSE /\ Leave(w)
                /\ UNCHANGED task
        /\ UNCHANGED <<aside, overlay, ledger>>

ShouldStop(w) == thread[w].stale \/ thread[w].doc \in cancelled

\* _finish_task: the row is written only by the claim that owns it; the permits of
\* the claim are revoked in any case.
Finish(w, status, error) ==
    LET d == thread[w].doc
    IN  /\ task' = IF Held(d, w)
                   THEN [task EXCEPT ![d] = Closed(@, status, error)] ELSE task
        /\ ledger' = Ledger!Revoke(ledger, thread[w].scope)
        /\ Leave(w)

InterruptClaim(w) == Finish(w, "pending", "interrupted")

\* _finish_task gives up when the database does.
FinishLost(w) ==
    /\ "db_error" \in env
    /\ Leave(w)
    /\ UNCHANGED <<task, ledger>>

\* Before the provider is called, for the answer or for its repair.
Dispatch(w) ==
    LET contract == IF thread[w].repaired THEN Repair(thread[w].gw.model)
                                          ELSE Summaries(thread[w].gw.model)
    IN  /\ thread[w].pc = "dispatch"
        /\ IF ~ShouldStop(w) /\ Ledger!DispatchAdmitted(ledger, contract, thread[w].scope)
           THEN /\ Goto(w, "calling")
                /\ UNCHANGED <<task, ledger>>
           ELSE InterruptClaim(w) \/ FinishLost(w)
        /\ UNCHANGED <<aside, overlay>>

\* The provider answers and the answer is valid ...
Answer(w) ==
    /\ thread[w].pc = "calling"
    /\ Goto(w, "ready")
    /\ UNCHANGED <<database, memory, active, quiet>>

\* ... or it is not: one repair is asked for, and no more ...
Invalid(w) ==
    LET m == thread[w].gw.model
    IN  /\ thread[w].pc = "calling"
        /\ "invalid" \in env
        /\ IF thread[w].repaired
           THEN /\ ledger' = Ledger!SuspendInvalidAnswer(ledger, Summaries(m), Repair(m))
                /\ Goto(w, "failing")
           ELSE /\ thread' = [thread EXCEPT ![w].pc = "dispatch", ![w].repaired = TRUE]
                /\ UNCHANGED ledger
        /\ UNCHANGED <<aside, task, overlay>>

\* ... or the call fails: its contract is suspended, and the failure may be one of the
\* model itself ...
CallFails(w) ==
    LET m == thread[w].gw.model
        contract == IF thread[w].repaired THEN Repair(m) ELSE Summaries(m)
        parent == IF thread[w].repaired THEN Summaries(m) ELSE None
    IN  /\ thread[w].pc = "calling"
        /\ \E failure \in env \cap Ledger!CallFailures :
              /\ ledger' = Ledger!SuspendFailedCall(ledger, contract, parent, failure)
              /\ verified' = IF Ledger!InvalidatesModel(ledger, contract, failure)
                             THEN verified \ {m} ELSE verified
        /\ Goto(w, "failing")
        /\ UNCHANGED <<tree, available, rebuilding, task, overlay, settings, memory, active, quiet>>

\* ... or it is given up, because the worker or the document is to stop.
CallCancelled(w) ==
    /\ thread[w].pc = "calling"
    /\ ShouldStop(w)
    /\ InterruptClaim(w) \/ FinishLost(w)
    /\ UNCHANGED <<aside, overlay>>

Fail(w) ==
    /\ thread[w].pc = "failing"
    /\ Finish(w, "failed", "failed") \/ FinishLost(w)
    /\ UNCHANGED <<aside, overlay>>

\* mark_structured_output_operations_ready: the answer and, when used, its repair.
MarkOperationsReady(w) ==
    LET m == thread[w].gw.model
        parent == Ledger!MarkResultReady(ledger, Summaries(m), thread[w].scope)
    IN  /\ thread[w].pc = "ready"
        /\ ledger' = IF thread[w].repaired
                     THEN Ledger!MarkResultReady(parent, Repair(m), thread[w].scope)
                     ELSE parent
        /\ Goto(w, "publish")
        /\ UNCHANGED <<aside, task, overlay>>

\* _publish: the claim still holds the row, and the row is still about the current tree.
StillCurrent(w) ==
    LET d == thread[w].doc IN Held(d, w) /\ task[d].tree = tree[d]

Published(w) ==
    LET d == thread[w].doc
    IN  IF ~StillCurrent(w) THEN UNCHANGED <<task, overlay, ledger>>
        ELSE IF d \notin available
        THEN /\ task' = [task EXCEPT ![d] = Closed(@, "failed", "unavailable")]
             /\ ledger' = Ledger!Revoke(ledger, task[d].scope)
             /\ UNCHANGED overlay
        ELSE /\ overlay' = [overlay EXCEPT ![d] = Target(d, task[d].model)]
             /\ task' = [task EXCEPT ![d] = Closed(@, "completed", "none")]
             /\ ledger' = Ledger!Revoke(ledger, thread[w].scope)

Publish(w) ==
    /\ thread[w].pc = "publish"
    /\ IF ShouldStop(w)
       THEN /\ InterruptClaim(w) \/ FinishLost(w)
            /\ UNCHANGED overlay
       ELSE Published(w) /\ Leave(w)
    /\ UNCHANGED <<tree, available, rebuilding, settings, verified, memory, active, quiet>>

\* After the list: another round if anything can still be run, ...
After(w) ==
    /\ thread[w].pc = "after"
    /\ IF MayGoOn(w)
       THEN QueueEligible(thread[w].gw.model) /\ Goto(w, "remaining")
       ELSE /\ Goto(w, IF thread[w].stale \/ ~IsCurrent(thread[w].gw) THEN "final" ELSE "top")
            /\ UNCHANGED <<task, ledger>>
    /\ UNCHANGED <<aside, overlay>>

Remaining(w) ==
    /\ thread[w].pc = "remaining"
    /\ FailUnavailable
    /\ Goto(w, IF PendingIds(thread[w].gw.model) \subseteq cancelled THEN "release" ELSE "top")
    /\ UNCHANGED <<aside, overlay>>

\* ... or if one was asked for.
Release(w) ==
    /\ thread[w].pc = "release"
    /\ IF rerun
       THEN /\ Goto(w, "top")
            /\ UNCHANGED <<gateway, registered>>
       ELSE /\ registered' = FALSE
            /\ gateway' = None
            /\ thread' = [thread EXCEPT ![w] = Idle]
    /\ UNCHANGED <<database, rerun, cancelled, importer, retrying, active, quiet>>

\* The finally clause of a worker that did not end its work: a round that was asked for
\* is left to a worker started anew, with the gateway that is installed.
Final(w) ==
    /\ thread[w].pc = "final"
    /\ rerun' = FALSE
    /\ registered' = FALSE
    /\ gateway' = None
    /\ thread' = [thread EXCEPT ![w] =
                    IF rerun /\ gateway # None
                    THEN [Idle EXCEPT !.pc = "restart", !.gw = gateway] ELSE Idle]
    /\ UNCHANGED <<database, cancelled, importer, retrying, active, quiet>>

Restart(w) ==
    /\ thread[w].pc = "restart"
    /\ retrying = None
    /\ Start(thread[w].gw, [thread EXCEPT ![w] = Idle])
    /\ UNCHANGED <<database, cancelled, importer, retrying, active, quiet>>

\* A statement on the database fails.  Where the answer is handled the task is failed;
\* anywhere else the exception ends the worker, and its task row stays as it is.
DatabaseError(w) ==
    /\ "db_error" \in env /\ Event
    /\ \/ thread[w].pc \in {"queue", "list", "claim", "after", "remaining"} /\ Goto(w, "final")
       \/ thread[w].pc \in {"dispatch", "calling"} /\ Goto(w, "final")
       \/ thread[w].pc \in {"dispatch", "ready", "publish"} /\ Goto(w, "failing")
    /\ UNCHANGED <<database, memory, active>>

WorkerStep(w) ==
    \/ Top(w) \/ Queue(w) \/ List(w) \/ Next(w) \/ Claim(w) \/ Dispatch(w)
    \/ Answer(w) \/ Invalid(w) \/ CallFails(w) \/ CallCancelled(w) \/ Fail(w)
    \/ MarkOperationsReady(w) \/ Publish(w) \/ After(w) \/ Remaining(w) \/ Release(w)
    \/ Final(w) \/ Restart(w) \/ DatabaseError(w)

----------------------------------------------------------------------------
(* The user and the engine.                                                 *)

\* An import that has ended makes a gateway, and then starts the worker with it.
BuildGateway ==
    /\ Event
    /\ active /\ importer = None
    /\ importer' = NewGateway(settings)
    /\ UNCHANGED <<database, gateway, rerun, registered, cancelled, retrying, active, thread>>

StartAfterImport ==
    /\ importer # None /\ retrying = None
    /\ Start(importer, thread)
    /\ importer' = None
    /\ UNCHANGED <<database, cancelled, retrying, active, quiet>>

FreeScopes ==
    Scopes \ (ScopesOf(task, Docs) \cup {thread[w].scope : w \in Workers}
                 \cup {p[2] : p \in ledger.permits \cup ledger.spent})

\* retry_document: one transaction for the task row and the permits of its retry; then
\* the engine forgets the cancellation and starts the worker.
RetryTask(d) ==
    LET g == NewGateway(settings)  t == task[d]
    IN  /\ "retry" \in env /\ Event
        /\ active /\ retrying = None
        /\ t.status \in {"pending", "failed"} /\ t.model = settings /\ d \in available
        /\ FreeScopes # {}
        /\ LET scope == CHOOSE s \in FreeScopes : TRUE
               granted == Ledger!Authorize(ledger, {Summaries(settings), Repair(settings)}, scope)
           IN  /\ task' = [task EXCEPT ![d] =
                              [t EXCEPT !.status = "pending", !.reason = "retry", !.error = "none",
                                        !.scope = scope, !.token = None]]
               /\ ledger' = Ledger!Revoke(granted, t.scope)
        /\ retrying' = [doc |-> d, gw |-> g]
        /\ UNCHANGED <<tree, available, rebuilding, overlay, settings, verified>>
        /\ UNCHANGED <<gateway, rerun, registered, cancelled, importer, active, thread>>

RetryStart ==
    /\ retrying # None
    /\ cancelled' = cancelled \ {retrying.doc}
    /\ Start(retrying.gw, thread)
    /\ retrying' = None
    /\ UNCHANGED <<database, importer, active, quiet>>

Cancel(d) ==
    /\ "cancel" \in env /\ Event
    /\ active /\ retrying = None
    /\ task[d].status \in {"pending", "running"}
    /\ task' = [task EXCEPT ![d] = Interrupted(@)]
    /\ ledger' = Ledger!Revoke(ledger, task[d].scope)
    /\ cancelled' = cancelled \cup {d}
    /\ UNCHANGED <<tree, available, rebuilding, overlay, settings, verified>>
    /\ UNCHANGED <<gateway, rerun, registered, importer, retrying, active, thread>>

\* Another model is configured: its predecessor has to be checked again, and the
\* worker's gateway is retired.
SaveSettings(m) ==
    /\ "settings" \in env /\ Event
    /\ active /\ retrying = None /\ m # settings
    /\ settings' = m
    /\ verified' = verified \ {settings}
    /\ gateway' = None
    /\ rerun' = FALSE
    /\ UNCHANGED <<tree, available, rebuilding, task, overlay, ledger>>
    /\ UNCHANGED <<registered, cancelled, importer, retrying, active, thread>>

VerifySettings ==
    /\ Event
    /\ active /\ retrying = None
    /\ verified' = verified \cup {settings}
    /\ UNCHANGED <<tree, available, rebuilding, task, overlay, ledger, settings>>
    /\ UNCHANGED <<memory, active, thread>>

\* invalidate_page_tree_enrichment_workers: the lease of every worker has passed.
Outdated ==
    [w \in Workers |->
        [thread[w] EXCEPT !.stale = @ \/ thread[w].pc \notin {"idle", "restart"}]]

\* The knowledge base is opened, perhaps once more, when no import is under way.
\* The restoration of what was running is part of it; no worker is started.
Open ==
    /\ "open" \in env /\ Event
    /\ importer = None /\ retrying = None
    /\ active' = TRUE
    /\ thread' = Outdated
    /\ task' = [d \in Docs |-> Recovered(task[d])]
    /\ ledger' = Ledger!DiscardPermits(ledger)
    /\ UNCHANGED <<tree, available, rebuilding, overlay, settings, verified, memory>>

\* Another knowledge base is opened in its place.
OpenOther ==
    /\ "other" \in env /\ Event
    /\ active /\ importer = None /\ retrying = None
    /\ active' = FALSE
    /\ thread' = Outdated
    /\ task' = [d \in Docs |-> Recovered(task[d])]
    /\ ledger' = Ledger!RevokeAll(ledger, ScopesOf(task, Docs))
    /\ UNCHANGED <<tree, available, rebuilding, overlay, settings, verified, memory>>

StartRebuild(d) ==
    /\ "rebuild" \in env /\ Event
    /\ tree[d] < MaxTree /\ d \notin rebuilding
    /\ rebuilding' = rebuilding \cup {d}
    /\ UNCHANGED <<tree, available, task, overlay, ledger, settings, verified>>
    /\ UNCHANGED <<memory, active, thread>>

EndRebuild(d) ==
    /\ d \in rebuilding
    /\ rebuilding' = rebuilding \ {d}
    /\ tree' = [tree EXCEPT ![d] = @ + 1]
    /\ UNCHANGED <<available, task, overlay, ledger, settings, verified, memory, active, thread, quiet>>

\* The raw asset of a document is missing or damaged, or there again.
ChangeAvailability(d) ==
    /\ "availability" \in env /\ Event
    /\ available' = IF d \in available THEN available \ {d} ELSE available \cup {d}
    /\ UNCHANGED <<tree, rebuilding, task, overlay, ledger, settings, verified>>
    /\ UNCHANGED <<memory, active, thread>>

Crash ==
    /\ "crash" \in env /\ Event
    /\ active' = FALSE
    /\ thread' = [w \in Workers |-> Idle]
    /\ gateway' = None /\ importer' = None /\ retrying' = None
    /\ rerun' = FALSE /\ registered' = FALSE
    /\ cancelled' = {}
    /\ UNCHANGED <<database>>

----------------------------------------------------------------------------
Init ==
    /\ env \in Envs /\ events = 0
    /\ tree = [d \in Docs |-> 1]
    /\ available = Docs
    /\ rebuilding = {}
    /\ task = [d \in Docs |-> NoTask]
    /\ overlay = [d \in Docs |-> None]
    /\ ledger = Ledger!EmptyLedger
    /\ settings = (CHOOSE m \in Models : TRUE) /\ verified = {settings}
    /\ active = TRUE
    /\ gateway = None /\ importer = None /\ retrying = None
    /\ rerun = FALSE /\ registered = FALSE
    /\ cancelled = {}
    /\ thread = [w \in Workers |-> Idle]

DocumentStep(d) ==
    \/ RetryTask(d) \/ Cancel(d) \/ StartRebuild(d) \/ EndRebuild(d) \/ ChangeAvailability(d)

EngineStep ==
    \/ BuildGateway \/ StartAfterImport \/ RetryStart \/ VerifySettings
    \/ Open \/ OpenOther \/ Crash
    \/ \E m \in Models : SaveSettings(m)

NextState ==
    \/ \E w \in Workers : WorkerStep(w)
    \/ \E d \in Docs : DocumentStep(d)
    \/ EngineStep

Spec == Init /\ [][NextState]_vars

\* A thread that runs is scheduled, a provider answers or times out, requests that were
\* begun are ended, and so is the rebuilding of a tree.
FairSpec ==
    /\ Spec
    /\ \A w \in Workers : WF_vars(WorkerStep(w))
    /\ \A d \in Docs : WF_vars(EndRebuild(d))
    /\ WF_vars(StartAfterImport) /\ WF_vars(RetryStart)

----------------------------------------------------------------------------
(* Properties.                                                              *)

Claiming == {"dispatch", "calling", "failing", "ready", "publish"}
Working == Claiming \cup {"top", "queue", "list", "next", "claim", "after", "remaining",
                          "release", "final"}

TaskRows ==
    [status : {"none", "pending", "running", "completed", "failed"}, tree : 0..MaxTree,
     model : Models \cup {None}, reason : {"none", "target", "retry", "current"},
     error : {"none", "interrupted", "failed", "unavailable"},
     scope : Scopes \cup {None}, token : Workers \cup {None}]

TypeOK ==
    /\ task \in [Docs -> TaskRows]
    /\ ledger \in Ledger!Ledgers
    /\ \A w \in Workers :
          /\ thread[w].pc \in Working \cup {"idle", "restart"}
          /\ thread[w].doc \in Docs \cup {None}
          /\ thread[w].scope \in Scopes \cup {None}
          /\ thread[w].todo \subseteq Docs
    /\ Cardinality({w \in Workers : thread[w].pc \in Working}) = IF registered THEN 1 ELSE 0

\* A permit to call a suspended contract belongs to a task that may still use it: no
\* path (cancel, recovery, another target, withdrawal, failure) leaves one behind.
PermitsHaveOwner ==
    \A p \in ledger.permits \cup ledger.spent :
        p[2] \in ScopesOf(task, Docs) \cup {thread[w].scope : w \in Workers}

\* While the knowledge base is open, a task that counts as running, and is not about an
\* earlier tree, is in the hands of a worker; nobody else would take it up.  (After a
\* statement that failed it may be in nobody's.)
RunningIsWorkedOn ==
    active /\ "db_error" \notin env =>
        \A d \in Docs : task[d].status = "running" /\ task[d].tree = tree[d] =>
            \E w \in Workers :
                task[d].token = w /\ thread[w].doc = d /\ thread[w].pc \in Claiming

\* A completed task has the summaries of its tree and its model.
CompletedHasSummaries ==
    \A d \in Docs : task[d].status = "completed" =>
        overlay[d] = [tree |-> task[d].tree, model |-> task[d].model]

\* Summaries are published for the tree that is current, however long they took.
PublishedInTurn ==
    \A d \in Docs : overlay'[d] # overlay[d] => overlay'[d].tree = tree[d]

\* A suspension is lifted by the valid answer of a retry that was granted for it, and
\* by nothing else: an answer that was under way when the contract was suspended does not.
LiftedByRetry ==
    \A c \in ledger.suspended \ ledger'.suspended :
        \E w \in Workers : thread[w].pc = "ready" /\ <<c, thread[w].scope>> \in ledger.permits

\* A retry that was accepted is taken up, whatever the worker was doing at the time.  Its
\* scope is held on only if a call that was under way has suspended the contract after
\* the retry was granted.  (Without a checked model, and after a statement that failed,
\* a retry waits for the next start of the worker.)
Refused(d) == ~Ledger!DispatchAdmitted(ledger, Summaries(task[d].model), task[d].scope)
Undisturbed == env \cap {"settings", "configuration", "result", "db_error"} = {}

RetryIsPending(d) == Undisturbed /\ task[d].scope # None
RetryIsTaken(d) == task[d].scope = None \/ Refused(d) \/ ~active

=============================================================================
