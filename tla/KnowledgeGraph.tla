--------------------------- MODULE KnowledgeGraph ---------------------------
(***************************************************************************)
(* The optional knowledge graph, extracted by a background worker:         *)
(*   - openkb/knowledge/graph: one task row per document, for a generation *)
(*     of its candidates, and the graph result that is current for it;     *)
(*   - openkb/engine/knowledge_graph.py: at most one worker thread per     *)
(*     knowledge base, its gateway, the flag that asks for another round   *)
(*     and the documents the user has cancelled.                           *)
(* It resembles PageTreeEnrichment where the code does, and differs where  *)
(* the code does: a task is queued by the import of its document alone, a  *)
(* suspended task stays pending, a claim ends when the candidates change,  *)
(* and the claim, the graph and the permits of a retry are settled in one  *)
(* transaction, before the contracts are marked ready.                     *)
(***************************************************************************)
EXTENDS FiniteSets, Integers

CONSTANTS
    Docs,          \* source documents
    Models,        \* analysis models that may be configured
    Workers,       \* worker threads: old ones may outlive their lease
    Scopes,        \* scopes of retries (uuid4, used again when nothing holds them)
    MaxCandidates, \* how often a document is analysed
    Envs,          \* what may happen besides: one of these sets of events
    MaxEvents,     \* how many events there are in a behaviour
    None

Events ==
    {"others", "reanalysis", "empty", "retry", "cancel", "settings", "open", "other", "availability",
     "db_error", "crash", "invalid", "degraded", "batches", "configuration", "result",
     "transport"}

\* The results of an extraction.
Graphs == [gen : 0..MaxCandidates, quality : {"full", "degraded"}]

\* What is assumed of the constants; an instance states it for its own.
GraphAssumption ==
    /\ Envs \subseteq SUBSET Events /\ Envs # {}
    /\ Models # {}
    /\ MaxCandidates \in Nat \ {0}
    /\ None \notin Models \cup Scopes \cup Workers \cup Docs
    /\ None \notin Graphs

\* The two contracts of the operation under a model.
Relations(m) ==
    [operation |-> "knowledge_relation_analysis", identity |-> m, digest |-> "relations"]
Repair(m) ==
    [operation |-> "structured_output_repair", identity |-> m, digest |-> "relations"]

TaskContracts == {Relations(m) : m \in Models} \cup {Repair(m) : m \in Models}

Ledger == INSTANCE OperationLedger WITH Contracts <- TaskContracts

VARIABLES
    registry,    \* registry[d]: the generation of d's candidates, and whether it is empty
    available,   \* the documents that are available
    task,        \* task[d]: the task row of d
    graph,       \* graph[d]: the current graph of d, or None
    latest,      \* latest[d]: the quality of the last result of d
    ledger,      \* the operation contracts and retry permits
    settings,    \* the configured model
    verified,    \* the models whose capability check has passed
    active,      \* the knowledge base is open
    gateway,     \* the gateway installed for the worker, or None
    rerun,       \* the worker is asked for another round
    registered,  \* a worker is registered
    cancelled,   \* the documents cancelled since the engine started
    thread,      \* thread[w]: a worker thread
    importer,    \* an analysis that has published candidates, until it starts the worker
    retrying,    \* the retry request between its transaction and its start, or None
    env,         \* what may happen in this behaviour
    events       \* how many events have happened

documents == <<registry, available>>
models == <<settings, verified>>
memory == <<gateway, rerun, registered>>
requests == <<cancelled, importer, retrying>>
quiet == <<env, events>>
store == <<task, graph, latest, ledger>>
aside == <<documents, models, memory, requests, active, quiet>>
vars == <<aside, store, thread>>

Event == events < MaxEvents /\ events' = events + 1 /\ UNCHANGED env

NoTask ==
    [status |-> "none", gen |-> 0, model |-> None, reason |-> "none", error |-> "none",
     scope |-> None, token |-> None]

Idle == [pc |-> "idle", stale |-> FALSE, gw |-> None, todo |-> {}, doc |-> None,
         scope |-> None, repaired |-> FALSE, used |-> FALSE, again |-> FALSE,
         error |-> "none"]

TaskRows ==
    [status : {"none", "pending", "running", "completed", "failed"}, gen : 0..MaxCandidates,
     model : Models \cup {None}, reason : {"none", "initial", "explicit_retry"},
     error : {"none", "interrupted", "suspended", "failed"},
     scope : Scopes \cup {None}, token : Workers \cup {None}]

ScopesOf(tasks, D) == {tasks[d].scope : d \in D} \ {None}

----------------------------------------------------------------------------
(* The task store.                                                          *)

\* queue: a row about these candidates is left alone; another is written over.
Queued(d, m) ==
    IF d \notin available \/ (task[d].status # "none" /\ task[d].gen = registry[d].gen)
    THEN task[d]
    ELSE [NoTask EXCEPT !.status = "pending", !.gen = registry[d].gen, !.model = m,
                        !.reason = "initial"]

Runnable(d, m) ==
    /\ d \in available
    /\ task[d].status = "pending" /\ task[d].error \in {"none", "suspended"}
    /\ task[d].model = m /\ task[d].gen = registry[d].gen
    /\ task[d].reason = "explicit_retry" => task[d].scope # None

MayDispatch(d, m, scope) ==
    registry[d].empty \/ Ledger!DispatchAdmitted(ledger, Relations(m), scope)

\* Near miss: a document is listed although its contract is suspended.
ListedIds(m) == {d \in Docs : Runnable(d, m)}

\* pending_document_ids
PendingIds(m) == {d \in Docs : Runnable(d, m) /\ MayDispatch(d, m, task[d].scope)}

\* Near miss: a claim outlives the candidates that it was made for.
HeldForAnyCandidates(d, w) == task[d].status = "running" /\ task[d].token = w

\* _claim_is_active
Held(d, w) ==
    task[d].status = "running" /\ task[d].token = w /\ task[d].gen = registry[d].gen

Closed(t, status, error) ==
    [t EXCEPT !.status = status, !.error = error, !.scope = None, !.token = None]

Interrupted(t) == Closed(t, "pending", "interrupted")

Unfinished == {d \in Docs : task[d].status \in {"pending", "running"}}

\* Near miss: only the tasks that wait are made to wait for the user.
RecoveredButRunning ==
    [d \in Docs |-> IF task[d].status = "pending" THEN Interrupted(task[d]) ELSE task[d]]

\* recover_interrupted
Recovered == [d \in Docs |-> IF d \in Unfinished THEN Interrupted(task[d]) ELSE task[d]]

----------------------------------------------------------------------------
(* The worker thread.                                                       *)

Goto(w, pc) == thread' = [thread EXCEPT ![w].pc = pc]

\* A gateway is a new object for every start: no holder uses this number.
Gateways ==
    {gateway} \cup {thread[w].gw : w \in Workers}
    \cup {r.gw : r \in {importer, retrying} \ {None}}
NewGateway(m) ==
    LET taken == {g.id : g \in Gateways \ {None}}
    IN  [id |-> CHOOSE i \in 1..Cardinality(taken) + 1 : i \notin taken, model |-> m]

IsCurrent(g) == gateway = g /\ g.model \in verified

\* start_knowledge_graph_extractions: a second start asks for another round.
Start(g, threads) ==
    IF ~active \/ g.model \notin verified
    THEN /\ thread' = threads
         /\ UNCHANGED memory
    ELSE /\ gateway' = g
         /\ registered' = TRUE
         /\ rerun' = (rerun \/ registered)
         /\ IF registered THEN thread' = threads
            ELSE LET idle == {w \in Workers : threads[w].pc = "idle"}
                 IN  /\ idle # {}
                     /\ thread' = [threads EXCEPT ![CHOOSE w \in idle : TRUE] =
                                      [Idle EXCEPT !.pc = "top"]]

Top(w) ==
    /\ thread[w].pc = "top"
    /\ IF thread[w].stale \/ gateway = None
       THEN Goto(w, "final") /\ UNCHANGED rerun
       ELSE rerun' = FALSE /\ thread' = [thread EXCEPT ![w].pc = "list", ![w].gw = gateway]
    /\ UNCHANGED <<documents, store, models, gateway, registered>>
    /\ UNCHANGED <<requests, active, quiet>>

List(w) ==
    /\ thread[w].pc = "list"
    /\ thread' = [thread EXCEPT ![w].pc = "next", ![w].todo = PendingIds(thread[w].gw.model)]
    /\ UNCHANGED <<aside, store>>

\* The next document of the list, in any order; a cancelled one is passed over.
NextDocument(w) ==
    /\ thread[w].pc = "next"
    /\ IF thread[w].todo = {} \/ thread[w].stale \/ ~IsCurrent(thread[w].gw)
       THEN thread' = [thread EXCEPT ![w].pc = "after", ![w].todo = {}]
       ELSE \E d \in thread[w].todo :
               thread' = [thread EXCEPT ![w].pc = IF d \in cancelled THEN "next" ELSE "claim",
                                        ![w].doc = IF d \in cancelled THEN None ELSE d,
                                        ![w].todo = @ \ {d}]
    /\ UNCHANGED <<aside, store>>

Leave(w) ==
    thread' = [thread EXCEPT ![w] = [Idle EXCEPT !.pc = "next", !.stale = thread[w].stale,
                                                 !.gw = thread[w].gw, !.todo = thread[w].todo]]

Claim(w) ==
    LET d == thread[w].doc
    IN  /\ thread[w].pc = "claim"
        /\ IF Runnable(d, thread[w].gw.model)
           THEN /\ task' = [task EXCEPT ![d] = [@ EXCEPT !.status = "running", !.error = "none",
                                                         !.token = w]]
                /\ thread' = [thread EXCEPT
                      ![w].pc = "check",
                      ![w].scope = IF task[d].reason = "explicit_retry" THEN task[d].scope
                                                                        ELSE None]
           ELSE Leave(w) /\ UNCHANGED task
        /\ UNCHANGED <<aside, graph, latest, ledger>>

Admitted(w) == MayDispatch(thread[w].doc, thread[w].gw.model, thread[w].scope)

\* claim_stopped
ShouldStop(w) ==
    thread[w].stale \/ thread[w].doc \in cancelled \/ ~Held(thread[w].doc, w)

\* _finish: the row is written by the claim that owns it, and its permits are revoked.
\* It gives up when the database does.
Finish(w, status, error) ==
    LET d == thread[w].doc  owned == task[d].status = "running" /\ task[d].token = w
    IN  /\ IF owned
           THEN \/ /\ task' = [task EXCEPT ![d] = Closed(@, status, error)]
                   /\ ledger' = Ledger!Revoke(ledger, task[d].scope)
                \/ "db_error" \in env /\ UNCHANGED <<task, ledger>>
           ELSE UNCHANGED <<task, ledger>>
        /\ Leave(w)

\* Near miss: a contract that was suspended since the list was read is not noticed.
CheckStopOnly(w) ==
    /\ thread[w].pc = "check"
    /\ IF ShouldStop(w) THEN Finish(w, "pending", "interrupted")
                        ELSE Goto(w, "extract") /\ UNCHANGED <<task, ledger>>
    /\ UNCHANGED <<aside, graph, latest>>

\* Before the extraction begins.
Check(w) ==
    /\ thread[w].pc = "check"
    /\ CASE ShouldStop(w) -> Finish(w, "pending", "interrupted")
         [] ~ShouldStop(w) /\ ~Admitted(w) -> Finish(w, "pending", "suspended")
         [] OTHER -> Goto(w, "extract") /\ UNCHANGED <<task, ledger>>
    /\ UNCHANGED <<aside, graph, latest>>

\* extract_document: it ends at once, and reports no failure, when the model is not
\* verified any more, when it is to stop, or when the contract is suspended by now.
Extract(w) ==
    /\ thread[w].pc = "extract"
    /\ Goto(w, IF thread[w].gw.model \notin verified \/ ShouldStop(w) \/ ~Admitted(w) THEN "ended"
               ELSE IF registry[thread[w].doc].empty THEN "publish"
               ELSE "dispatch")
    /\ UNCHANGED <<aside, store>>

Contract(w) ==
    IF thread[w].repaired THEN Repair(thread[w].gw.model) ELSE Relations(thread[w].gw.model)

\* The extraction ends in a failure.
Failed(w) == thread' = [thread EXCEPT ![w].pc = "ended", ![w].error = "failed"]

\* require_model_operation_dispatch, before every call.
Dispatch(w) ==
    /\ thread[w].pc = "dispatch"
    /\ CASE ShouldStop(w) -> Goto(w, "ended")
         [] ~ShouldStop(w) /\ Ledger!DispatchAdmitted(ledger, Contract(w), thread[w].scope) ->
                Goto(w, "calling")
         [] OTHER -> Failed(w)
    /\ UNCHANGED <<aside, store>>

\* A valid answer; a long document, or an answer that was cut off, takes another call.
Answer(w) ==
    /\ thread[w].pc = "calling"
    /\ LET used == thread[w].used \/ thread[w].repaired
       IN  \/ thread' = [thread EXCEPT ![w].pc = "publish", ![w].used = used]
           \/ /\ "batches" \in env /\ ~thread[w].again
              /\ thread' = [thread EXCEPT ![w].pc = "dispatch", ![w].used = used,
                                          ![w].repaired = FALSE, ![w].again = TRUE]
    /\ UNCHANGED <<aside, store>>

\* An invalid one is repaired once; then the contracts are suspended.
Invalid(w) ==
    LET m == thread[w].gw.model
    IN  /\ thread[w].pc = "calling" /\ "invalid" \in env
        /\ IF thread[w].repaired
           THEN /\ ledger' = Ledger!SuspendInvalidAnswer(ledger, Relations(m), Repair(m))
                /\ Failed(w)
           ELSE /\ thread' = [thread EXCEPT ![w].pc = "dispatch", ![w].repaired = TRUE]
                /\ UNCHANGED ledger
        /\ UNCHANGED <<aside, task, graph, latest>>

\* The call fails, and its contract is suspended; the model may have to be checked again.
CallFails(w) ==
    LET m == thread[w].gw.model
        parent == IF thread[w].repaired THEN Relations(m) ELSE None
    IN  /\ thread[w].pc = "calling"
        /\ \E failure \in env \cap Ledger!CallFailures :
              /\ ledger' = Ledger!SuspendFailedCall(ledger, Contract(w), parent, failure)
              /\ verified' = IF Ledger!InvalidatesModel(ledger, Contract(w), failure)
                             THEN verified \ {m} ELSE verified
        /\ Failed(w)
        /\ UNCHANGED <<documents, task, graph, latest, settings, memory, requests, active, quiet>>

CallCancelled(w) ==
    /\ thread[w].pc = "calling"
    /\ ShouldStop(w)
    /\ Goto(w, "ended")
    /\ UNCHANGED <<aside, store>>

\* persist_semantic_graph_interpretation_in: a degraded result does not replace a full one
\* of the same candidates.
CurrentResult(d, quality) ==
    IF graph[d] = [gen |-> task[d].gen, quality |-> "full"]
    THEN graph[d] ELSE [gen |-> task[d].gen, quality |-> quality]

\* _publish_and_complete
Publish(w) ==
    LET d == thread[w].doc
    IN  /\ thread[w].pc = "publish"
        /\ IF Held(d, w)
           THEN /\ \E quality \in {"full"} \cup (env \cap {"degraded"}) :
                      /\ graph' = [graph EXCEPT ![d] = CurrentResult(d, quality)]
                      /\ latest' = [latest EXCEPT ![d] = quality]
                /\ task' = [task EXCEPT ![d] = Closed(@, "completed", "none")]
                /\ ledger' = Ledger!Revoke(ledger, task[d].scope)
                /\ Goto(w, IF registry[d].empty THEN "done" ELSE "ready")
           ELSE Goto(w, "ended") /\ UNCHANGED <<task, graph, latest, ledger>>
        /\ UNCHANGED <<documents, models, memory, requests, active, quiet>>

\* mark_structured_output_operations_ready, after the transaction.
MarkOperationsReady(w) ==
    LET m == thread[w].gw.model
        parent == Ledger!MarkResultReady(ledger, Relations(m), thread[w].scope)
    IN  /\ thread[w].pc = "ready"
        /\ ledger' = IF thread[w].used
                     THEN Ledger!MarkResultReady(parent, Repair(m), thread[w].scope) ELSE parent
        /\ Goto(w, "done")
        /\ UNCHANGED <<aside, task, graph, latest>>

Done(w) ==
    /\ thread[w].pc = "done"
    /\ Leave(w)
    /\ UNCHANGED <<aside, store>>

\* An extraction that published nothing: interrupted, failed, or else completed.
Ended(w) ==
    /\ thread[w].pc = "ended"
    /\ CASE ShouldStop(w) -> Finish(w, "pending", "interrupted")
         [] ~ShouldStop(w) /\ thread[w].error = "failed" -> Finish(w, "failed", "failed")
         [] OTHER -> Finish(w, "completed", "none")
    /\ UNCHANGED <<aside, graph, latest>>

After(w) ==
    /\ thread[w].pc = "after"
    /\ CASE thread[w].stale \/ ~IsCurrent(thread[w].gw) -> Goto(w, "final")
         [] OTHER -> Goto(w, IF PendingIds(thread[w].gw.model) \subseteq cancelled
                             THEN "release" ELSE "top")
    /\ UNCHANGED <<aside, store>>

\* Near miss: the round that was asked for since the list was read is not run.
ReleaseAnyway(w) ==
    /\ thread[w].pc = "release"
    /\ registered' = FALSE /\ gateway' = None /\ thread' = [thread EXCEPT ![w] = Idle]
    /\ UNCHANGED <<documents, store, models, rerun, requests, active, quiet>>

Release(w) ==
    /\ thread[w].pc = "release"
    /\ IF rerun
       THEN Goto(w, "top") /\ UNCHANGED <<gateway, registered>>
       ELSE registered' = FALSE /\ gateway' = None /\ thread' = [thread EXCEPT ![w] = Idle]
    /\ UNCHANGED <<documents, store, models, rerun, requests, active, quiet>>

\* Near miss: the thread stays registered until it is started anew.
FinalStillRegistered(w) ==
    /\ thread[w].pc = "final"
    /\ rerun' = FALSE /\ gateway' = None
    /\ registered' = (rerun /\ gateway # None)
    /\ thread' = [thread EXCEPT ![w] =
                    IF rerun /\ gateway # None
                    THEN [Idle EXCEPT !.pc = "restart", !.gw = gateway] ELSE Idle]
    /\ UNCHANGED <<documents, store, models, requests, active, quiet>>

\* The finally clause of a worker that did not end its work.
Final(w) ==
    /\ thread[w].pc = "final"
    /\ rerun' = FALSE /\ registered' = FALSE /\ gateway' = None
    /\ thread' = [thread EXCEPT ![w] =
                    IF rerun /\ gateway # None
                    THEN [Idle EXCEPT !.pc = "restart", !.gw = gateway] ELSE Idle]
    /\ UNCHANGED <<documents, store, models, requests, active, quiet>>

Restart(w) ==
    /\ thread[w].pc = "restart"
    /\ retrying = None
    /\ Start(thread[w].gw, [thread EXCEPT ![w] = Idle])
    /\ UNCHANGED <<documents, store, models, requests, active, quiet>>

\* A statement on the database fails.  Inside the extraction the task is failed; anywhere
\* else the exception ends the worker, and its task row stays as it is.
DatabaseError(w) ==
    /\ "db_error" \in env /\ Event
    /\ \/ thread[w].pc \in {"list", "claim", "check", "after"} /\ Goto(w, "final")
       \/ /\ thread[w].pc \in {"extract", "dispatch", "calling", "publish"}
          /\ Failed(w)
    /\ UNCHANGED <<documents, store, models, memory, requests, active>>

WorkerStep(w) ==
    \/ Top(w) \/ List(w) \/ NextDocument(w) \/ Claim(w) \/ Check(w) \/ Extract(w)
    \/ Dispatch(w) \/ Answer(w) \/ Invalid(w) \/ CallFails(w) \/ CallCancelled(w)
    \/ Publish(w) \/ MarkOperationsReady(w) \/ Done(w) \/ Ended(w) \/ After(w)
    \/ Release(w) \/ Final(w) \/ Restart(w) \/ DatabaseError(w)

----------------------------------------------------------------------------
(* The user and the engine.                                                 *)

\* In an environment without "others" there is this document only.
Main == CHOOSE d \in Docs : TRUE

\* An analysis publishes new candidates of a document; an import, or a reanalysis.
Analysed(d, empty) ==
    /\ Event
    /\ active /\ importer = None /\ d \in available
    /\ registry[d].gen < MaxCandidates
    /\ d # Main => "others" \in env
    /\ registry[d].gen > 0 => "reanalysis" \in env
    /\ empty => "empty" \in env
    /\ registry' = [registry EXCEPT ![d] = [gen |-> @.gen + 1, empty |-> empty]]
    /\ importer' = [doc |-> d, gw |-> NewGateway(settings), queued |-> FALSE,
                    again |-> registry[d].gen > 0]
    /\ UNCHANGED <<available, task, graph, latest, ledger, models, memory, cancelled, retrying>>
    /\ UNCHANGED <<active, thread>>

\* It queues the task of the document ...
QueueTask ==
    /\ importer # None /\ ~importer.queued
    /\ task' = [task EXCEPT ![importer.doc] = Queued(importer.doc, importer.gw.model)]
    /\ importer' = [importer EXCEPT !.queued = TRUE]
    /\ UNCHANGED <<documents, graph, latest, ledger, models, memory, cancelled, retrying>>
    /\ UNCHANGED <<active, thread, quiet>>

\* ... and starts the worker; a reanalysis lifts the cancellation of the document too.
StartAfterAnalysis ==
    /\ importer # None /\ importer.queued /\ retrying = None
    /\ Start(importer.gw, thread)
    /\ cancelled' = IF importer.again THEN cancelled \ {importer.doc} ELSE cancelled
    /\ importer' = None
    /\ UNCHANGED <<documents, store, models, retrying, active, quiet>>

FreeScopes ==
    Scopes \ (ScopesOf(task, Docs) \cup {thread[w].scope : w \in Workers}
                 \cup {p[2] : p \in ledger.permits \cup ledger.spent})

\* A completed task may be retried if its last result was degraded.
Retryable(d) ==
    \/ task[d].status \in {"pending", "failed"}
    \/ task[d].status = "completed" /\ latest[d] = "degraded"

\* retry: one transaction for the task row and its permits.
Retry(d) ==
    /\ "retry" \in env /\ Event
    /\ active /\ retrying = None
    /\ registry[d].gen # 0 /\ d \in available /\ Retryable(d)
    /\ FreeScopes # {}
    /\ LET scope == CHOOSE s \in FreeScopes : TRUE
           granted == Ledger!Authorize(ledger, {Relations(settings), Repair(settings)}, scope)
       IN  /\ task' = [task EXCEPT ![d] =
                          [NoTask EXCEPT !.status = "pending", !.gen = registry[d].gen,
                                         !.model = settings, !.reason = "explicit_retry",
                                         !.scope = scope]]
           /\ ledger' = Ledger!Revoke(granted, task[d].scope)
    /\ retrying' = [doc |-> d, gw |-> NewGateway(settings)]
    /\ UNCHANGED <<documents, graph, latest, models, memory, cancelled, importer, active, thread>>

RetryStart ==
    /\ retrying # None
    /\ cancelled' = cancelled \ {retrying.doc}
    /\ Start(retrying.gw, thread)
    /\ retrying' = None
    /\ UNCHANGED <<documents, store, models, importer, active, quiet>>

\* request_cancel
Cancel(d) ==
    /\ "cancel" \in env /\ Event
    /\ active /\ retrying = None
    /\ d \in Unfinished
    /\ task' = [task EXCEPT ![d] = Interrupted(@)]
    /\ ledger' = Ledger!Revoke(ledger, task[d].scope)
    /\ cancelled' = cancelled \cup {d}
    /\ UNCHANGED <<documents, graph, latest, models, memory, importer, retrying, active, thread>>

\* Another model is configured; the gateway of the worker is retired.
SaveSettings(m) ==
    /\ "settings" \in env /\ Event
    /\ active /\ retrying = None /\ m # settings
    /\ settings' = m
    /\ verified' = verified \ {settings}
    /\ gateway' = None /\ rerun' = FALSE
    /\ UNCHANGED <<documents, store, registered, requests, active, thread>>

VerifySettings ==
    /\ Event
    /\ active /\ retrying = None /\ settings \notin verified
    /\ verified' = verified \cup {settings}
    /\ UNCHANGED <<documents, store, settings, memory, requests, active, thread>>

\* invalidate_knowledge_graph_workers: the lease of every worker has passed.
Outdated ==
    [w \in Workers |->
        [thread[w] EXCEPT !.stale = @ \/ thread[w].pc \notin {"idle", "restart"}]]

\* The knowledge base is opened, perhaps once more; or another one in its place.
Open(opened) ==
    /\ (IF opened THEN "open" ELSE "other") \in env /\ Event
    /\ opened \/ active
    /\ importer = None /\ retrying = None
    /\ active' = opened
    /\ thread' = Outdated
    /\ task' = Recovered
    /\ ledger' = IF opened THEN Ledger!DiscardPermits(ledger)
                           ELSE Ledger!RevokeAll(ledger, ScopesOf(task, Unfinished))
    /\ UNCHANGED <<documents, graph, latest, models, memory, requests>>

ChangeAvailability(d) ==
    /\ "availability" \in env /\ Event
    /\ available' = IF d \in available THEN available \ {d} ELSE available \cup {d}
    /\ UNCHANGED <<registry, task, graph, latest, ledger, models, memory, requests, active, thread>>

Crash ==
    /\ "crash" \in env /\ Event
    /\ active' = FALSE
    /\ thread' = [w \in Workers |-> Idle]
    /\ gateway' = None /\ importer' = None /\ retrying' = None
    /\ rerun' = FALSE /\ registered' = FALSE
    /\ cancelled' = {}
    /\ UNCHANGED <<documents, store, models>>

----------------------------------------------------------------------------
Init ==
    /\ env \in Envs /\ events = 0
    /\ registry = [d \in Docs |-> [gen |-> 0, empty |-> FALSE]]
    /\ available = Docs
    /\ task = [d \in Docs |-> NoTask]
    /\ graph = [d \in Docs |-> None]
    /\ latest = [d \in Docs |-> "none"]
    /\ ledger = Ledger!EmptyLedger
    /\ settings = (CHOOSE m \in Models : TRUE) /\ verified = {settings}
    /\ active = TRUE
    /\ gateway = None /\ importer = None /\ retrying = None
    /\ rerun = FALSE /\ registered = FALSE
    /\ cancelled = {}
    /\ thread = [w \in Workers |-> Idle]

DocumentStep(d) ==
    \/ \E empty \in BOOLEAN : Analysed(d, empty)
    \/ Retry(d) \/ Cancel(d) \/ ChangeAvailability(d)

EngineStep ==
    \/ QueueTask \/ StartAfterAnalysis \/ RetryStart \/ VerifySettings \/ Crash
    \/ \E opened \in BOOLEAN : Open(opened)
    \/ \E m \in Models : SaveSettings(m)

Next ==
    \/ \E w \in Workers : WorkerStep(w)
    \/ \E d \in Docs : DocumentStep(d)
    \/ EngineStep

Spec == Init /\ [][Next]_vars

\* Threads are scheduled, a provider answers or times out, and what a request or an
\* analysis has begun is ended.
FairSpec ==
    /\ Spec
    /\ \A w \in Workers : WF_vars(WorkerStep(w))
    /\ WF_vars(QueueTask) /\ WF_vars(StartAfterAnalysis) /\ WF_vars(RetryStart)

----------------------------------------------------------------------------
(* Properties.                                                              *)

Claiming == {"check", "extract", "dispatch", "calling", "publish", "ended"}
Working ==
    Claiming \cup {"top", "list", "next", "claim", "ready", "done", "after", "release", "final"}

TypeOK ==
    /\ task \in [Docs -> TaskRows]
    /\ ledger \in Ledger!Ledgers
    /\ \A d \in Docs : task[d].status = "running" <=> task[d].token # None
    /\ \A w \in Workers : thread[w].pc \in Working \cup {"idle", "restart"}
    /\ Cardinality({w \in Workers : thread[w].pc \in Working}) = IF registered THEN 1 ELSE 0

\* A permit belongs to a task that may still use it: no path leaves one behind.  (But the
\* task of a document that is analysed once more is written over and its permits are not
\* revoked; they last until the knowledge base is opened again.)
PermitsHaveOwner ==
    "reanalysis" \notin env =>
        \A p \in ledger.permits \cup ledger.spent : p[2] \in ScopesOf(task, Docs)

\* While the knowledge base is open, a task that counts as running for the candidates that
\* are current is in the hands of a worker; nobody else would take it up.
RunningIsWorkedOn ==
    active /\ "db_error" \notin env =>
        \A d \in Docs : task[d].status = "running" /\ task[d].gen = registry[d].gen =>
            \E w \in Workers :
                task[d].token = w /\ thread[w].doc = d /\ thread[w].pc \in Claiming

\* A completed task has the graph of its candidates, unless the model lost its verification
\* while the worker took the document up: then the task is completed with no graph, and may
\* not be retried.
CompletedHasGraph ==
    env \cap {"settings", "configuration", "result"} = {} =>
        \A d \in Docs : task[d].status = "completed" =>
            graph[d] # None /\ graph[d].gen = task[d].gen

\* A graph is published for the candidates that are current, by the claim that is, and a
\* full one is never replaced by a degraded one of the same candidates.
PublishedInTurn ==
    \A d \in Docs : graph'[d] # graph[d] =>
        /\ graph'[d].gen = registry[d].gen
        /\ graph[d] # None /\ graph[d].gen = graph'[d].gen => graph'[d].quality = "full"

\* A suspension is lifted by the valid answer of a retry that was granted for it, and
\* by nothing else: an answer that was under way when the contract was suspended does not.
LiftedByRetry ==
    \A c \in ledger.suspended \ ledger'.suspended :
        \E w \in Workers : thread[w].pc = "ready" /\ <<c, thread[w].scope>> \in ledger.permits

\* A retry that was accepted is taken up, whatever the worker was doing at the time,
\* unless the contract was suspended again after the retry was granted.
Refused(d) == ~Ledger!DispatchAdmitted(ledger, Relations(task[d].model), task[d].scope)
Undisturbed ==
    env \cap {"settings", "configuration", "result", "db_error", "availability"} = {}

RetryIsPending(d) == Undisturbed /\ task[d].scope # None
RetryIsTaken(d) == task[d].scope = None \/ Refused(d) \/ ~active

\* "A successful retry may clear only that revision": a retry of the one document there is,
\* with no other suspension since, leaves the contract ready after its answer was valid.
SuccessfulRetryClears ==
    [][\A w \in Workers :
          thread[w].pc = "ready" /\ thread[w].scope # None /\ thread'[w].pc = "done" =>
              Relations(thread[w].gw.model) \notin ledger'.suspended]_vars

=============================================================================
