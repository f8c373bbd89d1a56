---------------------------- MODULE EngineServer ----------------------------
(***************************************************************************)
(* The requests of one engine process, and the knowledge base it is bound  *)
(* to:                                                                     *)
(*   - openkb/engine/server.py, request_workers.py: a thread that reads    *)
(*     frames and answers cancellations itself, and a bounded pool that    *)
(*     answers the other requests;                                         *)
(*   - openkb/workspace/transition.py: an import holds a lease on the      *)
(*     active knowledge base, which an activation of another one drains;   *)
(*   - openkb/engine/workspace_activation.py, imports.py and               *)
(*     knowledge_pages.py: the handlers that change something.             *)
(* What the stages of an import do is ImportJobs; here an import is a      *)
(* number of stages, and between them it honours its control.              *)
(***************************************************************************)
EXTENDS FiniteSets, Integers, Sequences

CONSTANTS
    Requests,       \* the requests that the shell sends, each with its identifier
    Method,         \* Method[r]: "import", "resume", "open", "page", "pause" or "cancel"
    Param,          \* Param[r]: the knowledge base to open, or the import whose job is meant
    KnowledgeBases,
    First,          \* the knowledge base that is open at first
    PoolSize,       \* DEFAULT_MAX_REQUEST_WORKERS
    MaxStages,      \* how many stages an import has
    Plans,          \* which requests come, and what else may happen: one of these
    None

Imports == {r \in Requests : Method[r] = "import"}
Importing == {r \in Requests : Method[r] \in {"import", "resume"}}
Opening == {r \in Requests : Method[r] = "open"}

EngineAssumption ==
    /\ \A r \in Requests :
        /\ Method[r] \in {"import", "resume", "open", "page", "pause", "cancel"}
        /\ r \in Opening => Param[r] \in KnowledgeBases
        /\ Method[r] \in {"resume", "pause", "cancel"} => Param[r] \in Imports
    /\ None \notin Requests \cup KnowledgeBases
    /\ First \in KnowledgeBases /\ PoolSize \in Nat \ {0} /\ MaxStages \in Nat \ {0}
    /\ \A p \in Plans : /\ p.requests \subseteq Requests
                        /\ p.env \subseteq {"cancel", "shutdown", "eof", "fail"}

VARIABLES
    reader,         \* where the thread that reads frames is
    target,         \* the request it is about to cancel, or None
    told,           \* the requests that it has reported as cancelled
    active,         \* _active_requests
    cancelled,      \* the requests whose cancel event is set
    nonCancelable,  \* _non_cancelable_mutations
    queue,          \* what waits for a worker of the pool
    pc,             \* pc[r]: where the handler of r is
    bound,          \* bound[r]: the knowledge base that the handler works on, or None
    found,          \* found[r]: the control that a pause or a cancellation has found
    reply,          \* reply[r]: what r ends with
    transitioning,  \* an activation is under way: no lease is given
    leases,         \* the imports that hold a lease
    paused, stopped,\* the imports whose control asks for a pause, for a cancellation
    controls,       \* controls[j]: the import that runs job j, as far as the engine knows
    lock,           \* the holder of _workspace_requests_lock, or None
    activity,       \* the imports that hold the import lock of their knowledge base
    kb,             \* the active knowledge base, or None
    job,            \* job[j]: the job that import j has created
    changed,        \* the requests that have changed something durable
    plan            \* the plan of this behaviour

frames == <<reader, target, told>>
requests == <<active, cancelled, nonCancelable, queue>>
transition == <<transitioning, leases, paused, stopped>>
handlers == <<pc, bound, found, reply>>
workspace == <<lock, activity, kb>>
vars == <<frames, requests, handlers, transition, controls, workspace, job, changed, plan>>

NoJob == [status |-> "none", kb |-> None, stage |-> 0]

\* The job that an import, a pause or a cancellation is about.
JobOf(r) == IF Method[r] = "import" THEN r ELSE Param[r]

Waiting == {"unsent", "queued", "ended"}
Working == {r \in Requests : pc[r] \notin Waiting}

TypeOK ==
    /\ reader \in {"reading", "cancelling", "closing", "joining", "ended"}
    /\ target \in Requests \cup {None}
    /\ told \subseteq cancelled /\ nonCancelable \subseteq active
    /\ active \subseteq plan.requests
    /\ pc \in [Requests -> Waiting \cup {"admit", "bind", "start", "first", "stage", "services", "release",
                 "leave", "drain", "lock", "begin", "load", "recover", "unlock", "commit",
                 "readmit", "find", "ask", "reply"}]
    /\ bound \in [Requests -> KnowledgeBases \cup {None}]
    /\ found \in [Requests -> Importing \cup {None}]
    /\ reply \in [Requests -> {"none", "ok", "error", "cancelled"}]
    /\ transitioning \in BOOLEAN /\ leases \subseteq Importing
    /\ controls \in [Imports -> Importing \cup {None}]
    /\ lock \in Requests \cup {None} /\ kb \in KnowledgeBases \cup {None}
    /\ activity \subseteq Importing /\ changed \subseteq Requests
    /\ \A j \in Imports :
        job[j].status \in {"none", "running", "paused", "recoverable", "cancelled",
                           "failed", "completed"}

Init ==
    /\ reader = "reading" /\ target = None /\ told = {}
    /\ active = {} /\ cancelled = {} /\ nonCancelable = {} /\ queue = <<>>
    /\ pc = [r \in Requests |-> "unsent"]
    /\ bound = [r \in Requests |-> None] /\ found = [r \in Requests |-> None]
    /\ reply = [r \in Requests |-> "none"]
    /\ transitioning = FALSE /\ leases = {} /\ paused = {} /\ stopped = {}
    /\ controls = [j \in Imports |-> None]
    /\ lock = None /\ activity = {} /\ kb = First
    /\ job = [j \in Imports |-> NoJob] /\ changed = {}
    /\ plan \in Plans

Goes(r, to) == pc' = [pc EXCEPT ![r] = to]
Ends(r, to, as) == Goes(r, to) /\ reply' = [reply EXCEPT ![r] = as]

----------------------------------------------------------------------------
(* The thread that reads frames.                                            *)

Registered == {controls[j] : j \in Imports} \ {None}

\* _start_request: a request is registered, and waits for a worker.
Send(r) ==
    /\ reader = "reading" /\ r \in plan.requests /\ pc[r] = "unsent"
    /\ active' = active \cup {r} /\ queue' = Append(queue, r) /\ Goes(r, "queued")
    /\ UNCHANGED <<frames, cancelled, nonCancelable, bound, found, reply, transition,
                   controls, workspace, job, changed, plan>>

\* engine.cancel: whether the request can be cancelled is found out under _active_lock.
\* (A second cancellation of a request changes nothing.)
FindCancellable(r) ==
    /\ reader = "reading" /\ "cancel" \in plan.env
    /\ r \in active \ (nonCancelable \cup told)
    /\ reader' = "cancelling" /\ target' = r
    /\ UNCHANGED <<told, requests, handlers, transition, controls, workspace, job, changed, plan>>

\* engine.cancel: the event is set, and the answer given, when the lock has been left.
ReportCancelled ==
    /\ reader = "cancelling"
    /\ cancelled' = cancelled \cup {target} /\ told' = told \cup {target}
    /\ reader' = "reading" /\ target' = None
    /\ UNCHANGED <<active, nonCancelable, queue, handlers, transition, controls, workspace, job,
                   changed, plan>>

\* engine.shutdown, or the end of the input, which pauses nothing yet.
StopReading ==
    /\ reader = "reading" /\ reader' = "closing"
    /\ \/ "shutdown" \in plan.env /\ paused' = paused \cup Registered
       \/ "eof" \in plan.env /\ UNCHANGED paused
    /\ UNCHANGED <<target, told, requests, handlers, transitioning, leases, stopped, controls,
                   workspace, job, changed, plan>>

\* The end of serve: whatever is registered is told to stop.
Close ==
    /\ reader = "closing" /\ reader' = "joining"
    /\ cancelled' = cancelled \cup active /\ paused' = paused \cup Registered
    /\ UNCHANGED <<target, told, active, nonCancelable, queue, handlers, transitioning, leases,
                   stopped, controls, workspace, job, changed, plan>>

\* _join_workers: what waits for a worker is answered too.
Joined ==
    /\ reader = "joining" /\ active = {} /\ reader' = "ended"
    /\ UNCHANGED <<target, told, requests, handlers, transition, controls, workspace, job,
                   changed, plan>>

----------------------------------------------------------------------------
(* Workers.                                                                 *)

\* _run_request and the head of _dispatch.
Take ==
    /\ queue # <<>> /\ Cardinality(Working) < PoolSize
    /\ queue' = Tail(queue)
    /\ LET r == Head(queue)
       IN IF r \in cancelled THEN Ends(r, "reply", "cancelled")
          ELSE /\ Goes(r, CASE Method[r] \in {"import", "resume", "open"} -> "admit"
                            [] Method[r] = "page" -> "lock"
                            [] OTHER -> "find")
               /\ UNCHANGED reply
    /\ UNCHANGED <<frames, active, cancelled, nonCancelable, bound, found, transition, controls,
                   workspace, job, changed, plan>>

\* The end of _run_request: a request that was cancelled is answered so, unless its method
\* is one of NON_CANCELABLE_MUTATION_METHODS; then it is no longer active.
Reply(r) ==
    /\ pc[r] = "reply"
    /\ Ends(r, "ended", IF /\ reply[r] = "ok" /\ r \in cancelled
                           /\ Method[r] \notin {"import", "open", "page"}
                        THEN "cancelled" ELSE reply[r])
    /\ active' = active \ {r} /\ nonCancelable' = nonCancelable \ {r}
    /\ UNCHANGED <<frames, cancelled, queue, bound, found, transition, controls, workspace, job,
                   changed, plan>>

\* pause_import_job and cancel_import_job: the control of the job is looked up.  A job
\* without one is cancelled in the database (in two transactions: see ImportJobs).
Find(r) ==
    /\ pc[r] = "find"
    /\ LET j == JobOf(r)
           stopsThere == /\ Method[r] = "cancel" /\ kb # None /\ job[j].kb = kb
                         /\ job[j].status \in {"paused", "recoverable"}
       IN \/ /\ controls[j] # None /\ found' = [found EXCEPT ![r] = controls[j]]
             /\ Goes(r, "ask") /\ UNCHANGED <<reply, job>>
          \/ /\ controls[j] = None /\ stopsThere
             /\ job' = [job EXCEPT ![j].status = "cancelled"]
             /\ Ends(r, "reply", "ok") /\ UNCHANGED found
          \/ /\ controls[j] = None /\ ~stopsThere
             /\ Ends(r, "reply", "error") /\ UNCHANGED <<found, job>>
    /\ UNCHANGED <<frames, requests, bound, transition, controls, workspace, changed, plan>>

\* request_pause, request_cancel: outside the lock.
Ask(r) ==
    /\ pc[r] = "ask" /\ Ends(r, "reply", "ok")
    /\ IF Method[r] = "pause" THEN paused' = paused \cup {found[r]} /\ UNCHANGED stopped
       ELSE stopped' = stopped \cup {found[r]} /\ UNCHANGED paused
    /\ UNCHANGED <<frames, requests, bound, found, transitioning, leases, controls, workspace,
                   job, changed, plan>>

----------------------------------------------------------------------------
(* Imports.                                                                 *)

\* import_job: a lease is given for the knowledge base that is active.
Admit(r) ==
    /\ pc[r] = "admit" /\ r \in Importing /\ ~transitioning
    /\ IF kb = None
       THEN Ends(r, "reply", "error") /\ UNCHANGED <<bound, leases>>
       ELSE /\ Goes(r, "bind") /\ leases' = leases \cup {r}
            /\ bound' = [bound EXCEPT ![r] = kb] /\ UNCHANGED reply
    /\ UNCHANGED <<frames, requests, found, transitioning, paused, stopped, controls,
                   workspace, job, changed, plan>>

\* dispatch_import_request under the lock, with _begin_workspace_mutation.
Bind(r) ==
    /\ pc[r] = "bind" /\ lock = None
    /\ \/ r \in cancelled /\ Ends(r, "leave", "cancelled") /\ UNCHANGED nonCancelable
       \/ r \notin cancelled /\ kb # bound[r]
          /\ Ends(r, "leave", "error") /\ UNCHANGED nonCancelable
       \/ /\ r \notin cancelled /\ kb = bound[r]
          /\ nonCancelable' = nonCancelable \cup {r} /\ Goes(r, "start") /\ UNCHANGED reply
    /\ UNCHANGED <<frames, active, cancelled, queue, bound, found, transition, controls, workspace,
                   job, changed, plan>>

\* A reopening of this knowledge base waits for its imports: nobody joins them.
Awaited(k) == \E o \in Opening : pc[o] = "load" /\ Param[o] = k

\* import_text, resume_text: the import lock is taken, and the job is created or claimed.
Start(r) ==
    /\ pc[r] = "start" /\ ~Awaited(bound[r])
    /\ LET j == JobOf(r)
           claims == \/ Method[r] = "import"
                     \/ job[j].kb = bound[r] /\ job[j].status \in {"paused", "recoverable"}
       IN IF claims
          THEN /\ job' = [job EXCEPT ![j] = [status |-> "running", kb |-> bound[r],
                                             stage |-> @.stage]]
               /\ activity' = activity \cup {r} /\ changed' = changed \cup {r}
               /\ Goes(r, "first") /\ UNCHANGED reply
          ELSE Ends(r, "release", "error") /\ UNCHANGED <<job, activity, changed>>
    /\ UNCHANGED <<frames, requests, bound, found, transition, controls, lock, kb, plan>>

\* An import is at work from the creation of its job on, and known from its first stage on.
AtWork == {"first", "stage"}

\* _record_import_stage
Recorded(r) == controls' = [controls EXCEPT ![JobOf(r)] = r]

\* A stage is run and recorded.
Stage(r) ==
    /\ pc[r] \in AtWork /\ r \notin paused \cup stopped
    /\ LET j == JobOf(r)
           last == job[j].stage + 1 = MaxStages
       IN /\ job[j].stage < MaxStages
          /\ job' = [job EXCEPT ![j] = [status |-> IF last THEN "completed" ELSE @.status,
                                        kb |-> @.kb, stage |-> @.stage + 1]]
          /\ IF last THEN Ends(r, "services", "ok") /\ activity' = activity \ {r}
             ELSE Goes(r, "stage") /\ UNCHANGED <<reply, activity>>
    /\ Recorded(r)
    /\ UNCHANGED <<frames, requests, bound, found, transition, lock, kb, changed, plan>>

\* _honor_control: a cancellation goes before a pause.
HonorControl(r) ==
    /\ pc[r] \in AtWork /\ r \in paused \cup stopped
    /\ job' = [job EXCEPT ![JobOf(r)].status = IF r \in stopped THEN "cancelled" ELSE "paused"]
    /\ activity' = activity \ {r} /\ Recorded(r) /\ Ends(r, "release", "error")
    /\ UNCHANGED <<frames, requests, bound, found, transition, lock, kb, changed, plan>>

\* A stage fails, and its document is quarantined.
FailStage(r) ==
    /\ pc[r] \in AtWork /\ "fail" \in plan.env
    /\ job' = [job EXCEPT ![JobOf(r)].status = "failed"]
    /\ activity' = activity \ {r} /\ Recorded(r) /\ Ends(r, "release", "error")
    /\ UNCHANGED <<frames, requests, bound, found, transition, lock, kb, changed, plan>>

\* The workers of the knowledge base are told of the document, under the lock.
StartServices(r) ==
    /\ pc[r] = "services" /\ lock = None /\ Goes(r, "release")
    /\ UNCHANGED <<frames, requests, bound, found, reply, transition, controls, workspace, job,
                   changed, plan>>

\* Near miss: whoever leaves a job takes the entry of the job with it.
ReleaseEntry(r) ==
    /\ pc[r] = "release" /\ Goes(r, "leave")
    /\ controls' = [controls EXCEPT ![JobOf(r)] = None]
    /\ UNCHANGED <<frames, requests, bound, found, reply, transition, workspace, job, changed, plan>>

\* _release_import_control: only the entries of this control are removed.
ReleaseControl(r) ==
    /\ pc[r] = "release" /\ Goes(r, "leave")
    /\ controls' = [j \in Imports |-> IF controls[j] = r THEN None ELSE controls[j]]
    /\ UNCHANGED <<frames, requests, bound, found, reply, transition, workspace, job, changed, plan>>

\* The end of import_job.
ReturnLease(r) ==
    /\ pc[r] = "leave" /\ Goes(r, "reply") /\ leases' = leases \ {r}
    /\ UNCHANGED <<frames, requests, bound, found, reply, transitioning, paused, stopped, controls,
                   workspace, job, changed, plan>>

----------------------------------------------------------------------------
(* Activations.                                                             *)

LeasesOf(k) == {r \in leases : bound[r] = k}

\* Near miss: admission stays open while the leases are drained.
LeaveAdmissionOpen(r) ==
    /\ pc[r] = "admit" /\ r \in Opening /\ ~transitioning
    /\ paused' = IF kb # Param[r] THEN paused \cup LeasesOf(kb) ELSE paused
    /\ Goes(r, "drain") /\ UNCHANGED transitioning
    /\ UNCHANGED <<frames, requests, bound, found, reply, leases, stopped, controls, workspace, job,
                   changed, plan>>

\* Near miss: the lock of the workspace is taken first.
CloseAdmissionLocked(r) ==
    /\ pc[r] = "admit" /\ r \in Opening /\ ~transitioning /\ lock = None
    /\ transitioning' = TRUE /\ lock' = r
    /\ paused' = IF kb # Param[r] THEN paused \cup LeasesOf(kb) ELSE paused
    /\ Goes(r, "drain")
    /\ UNCHANGED <<frames, requests, bound, found, reply, leases, stopped, controls, activity,
                   kb, job, changed, plan>>

\* activation: one at a time; the imports of another knowledge base are asked to pause.
CloseAdmission(r) ==
    /\ pc[r] = "admit" /\ r \in Opening /\ ~transitioning
    /\ transitioning' = TRUE
    /\ paused' = IF kb # Param[r] THEN paused \cup LeasesOf(kb) ELSE paused
    /\ Goes(r, "drain")
    /\ UNCHANGED <<frames, requests, bound, found, reply, leases, stopped, controls, workspace, job,
                   changed, plan>>

\* activation: their leases are returned; then the lock is taken.
Drain(r) ==
    /\ pc[r] = "drain" /\ (kb # Param[r] => LeasesOf(kb) = {})
    /\ Goes(r, "lock")
    /\ UNCHANGED <<frames, requests, bound, found, reply, transition, controls, workspace, job,
                   changed, plan>>

TakeLock(r) ==
    /\ pc[r] = "lock" /\ lock \in {None, r}
    /\ lock' = r /\ bound' = [bound EXCEPT ![r] = kb] /\ Goes(r, "begin")
    /\ UNCHANGED <<frames, requests, found, reply, transition, controls, activity, kb, job,
                   changed, plan>>

\* _begin_workspace_mutation: from here on a cancellation is refused.
Begin(r) ==
    /\ pc[r] = "begin"
    /\ IF r \in cancelled
       THEN Ends(r, "unlock", "cancelled") /\ UNCHANGED nonCancelable
       ELSE /\ Goes(r, IF r \in Opening THEN "load" ELSE "commit")
            /\ nonCancelable' = nonCancelable \cup {r} /\ UNCHANGED reply
    /\ UNCHANGED <<frames, active, cancelled, queue, bound, found, transition, controls, workspace,
                   job, changed, plan>>

Recoverable(k) ==
    [j \in Imports |-> IF job[j].kb = k /\ job[j].status = "running"
                       THEN [job[j] EXCEPT !.status = "recoverable"] ELSE job[j]]

\* _load_desktop_knowledge_base and _activate: the import lock of the knowledge base is had
\* when no import holds it; what was running is then recoverable.
Load(r) ==
    /\ pc[r] = "load" /\ \A i \in activity : bound[i] # Param[r]
    /\ kb' = Param[r] /\ job' = Recoverable(Param[r]) /\ changed' = changed \cup {r}
    /\ Goes(r, "recover")
    /\ UNCHANGED <<frames, requests, bound, found, reply, transition, controls, lock, activity, plan>>

\* The knowledge base cannot be loaded: the binding is as it was.
LoadFails(r) ==
    /\ pc[r] = "load" /\ "fail" \in plan.env /\ Ends(r, "unlock", "error")
    /\ UNCHANGED <<frames, requests, bound, found, transition, controls, workspace, job, changed, plan>>

\* What the old engine left is recovered; if that fails, the old binding is restored.
Recover(r) ==
    /\ pc[r] = "recover"
    /\ \/ Ends(r, "unlock", "ok") /\ UNCHANGED kb
       \/ "fail" \in plan.env /\ kb' = bound[r] /\ Ends(r, "unlock", "error")
    /\ UNCHANGED <<frames, requests, bound, found, transition, controls, lock, activity, job, changed,
                   plan>>

\* A request on the workspace changes the knowledge base that it found active.
Commit(r) ==
    /\ pc[r] = "commit" /\ Ends(r, "unlock", "ok") /\ changed' = changed \cup {r}
    /\ UNCHANGED <<frames, requests, bound, found, transition, controls, workspace, job, plan>>

Unlock(r) ==
    /\ pc[r] = "unlock" /\ lock' = None
    /\ Goes(r, IF r \in Opening THEN "readmit" ELSE "reply")
    /\ UNCHANGED <<frames, requests, bound, found, reply, transition, controls, activity, kb, job,
                   changed, plan>>

\* The end of activation.
Readmit(r) ==
    /\ pc[r] = "readmit" /\ transitioning' = FALSE /\ Goes(r, "reply")
    /\ UNCHANGED <<frames, requests, bound, found, reply, leases, paused, stopped, controls,
                   workspace, job, changed, plan>>

----------------------------------------------------------------------------
Handle(r) ==
    \/ Reply(r) \/ Find(r) \/ Ask(r)
    \/ Admit(r) \/ Bind(r) \/ Start(r) \/ Stage(r) \/ HonorControl(r) \/ FailStage(r)
    \/ StartServices(r) \/ ReleaseControl(r) \/ ReturnLease(r)
    \/ CloseAdmission(r) \/ Drain(r) \/ TakeLock(r) \/ Begin(r) \/ Load(r) \/ LoadFails(r)
    \/ Recover(r) \/ Commit(r) \/ Unlock(r) \/ Readmit(r)

Reading == ReportCancelled \/ Close \/ Joined

Next ==
    \/ \E r \in Requests : Send(r) \/ FindCancellable(r) \/ Handle(r)
    \/ StopReading \/ Reading \/ Take

Spec == Init /\ [][Next]_vars

\* What goes on by itself: threads run, and a stage ends.  (Nothing bounds how long a model
\* may take; it is the user who pauses an import that waits for ever.)
Serve == Reading \/ Take \/ \E r \in Requests : Handle(r)

----------------------------------------------------------------------------
\* Whoever works on a knowledge base finds it bound until the work is done: an import from
\* its lease on, a change of the workspace from its lock on; and no job of another one is
\* shown as running (workspace/transition.py: "pause admitted imports before rebinding").
BindingIsStable ==
    /\ \A r \in leases : bound[r] = kb
    /\ \A r \in Requests : pc[r] = "commit" => bound[r] = kb
    /\ \A j \in Imports : job[j].status = "running" => job[j].kb = kb

\* A running job has one thread; and once that thread has recorded a stage, the control that
\* the engine finds for the job is the one that the thread honours, although the thread that
\* had the job before may release its own control late.
RunningImportHasItsControl ==
    /\ \A j \in Imports :
        job[j].status = "running" <=>
            Cardinality({r \in Importing : JobOf(r) = j /\ pc[r] \in AtWork}) = 1
    /\ \A r \in Importing : pc[r] = "stage" => controls[JobOf(r)] = r

\* What is reported as cancelled has not changed anything
\* ("Make cancellation truthful before a workspace mutation can commit").
CancellationIsTruthful == told \cap changed = {}

\* Every request is answered, whatever is switched, paused or shut down meanwhile, and an
\* engine whose shell has gone ends: locks, leases and the workers of the pool never wait
\* for each other in a circle.
AllAreAnswered ==
    /\ \A r \in Requests : pc[r] \in {"unsent", "ended"}
    /\ reader \in {"reading", "ended"}

=============================================================================
