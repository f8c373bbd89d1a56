--------------------------- MODULE AnalysisBatches ---------------------------
(***************************************************************************)
(* The analysis of an imported document in batches:                        *)
(*   - openkb/knowledge/analysis/batches.py, batch_store.py and            *)
(*     output_recovery.py: batches, then the merge nodes of a topology     *)
(*     level by level, each kept as a checkpoint when it is complete;      *)
(*   - openkb/shared/parallel.py: at most so many of them at once, and     *)
(*     none begun after one has failed;                                    *)
(*   - openkb/importing/model_dispatch.py and the handlers of runner.py:   *)
(*     which calls a suspended contract admits, and what an error does to  *)
(*     the job.                                                            *)
(* ImportJobs takes all this as one step of a job.  Here the job has two   *)
(* other steps only: it begins with its plan, and ends with publication.   *)
(*                                                                         *)
(* A batch or a node that is pending, running or failed is treated alike   *)
(* when the analysis is resumed, so that a row is its answer, or None.     *)
(* An answer is known by the worker that got it.                           *)
(***************************************************************************)
EXTENDS FiniteSets, Integers

CONSTANTS
    Jobs, Workers,
    Batches,     \* how many batches a plan has
    Children,    \* Children[n]: the batches and nodes that node n merges
    Level,       \* Level[n]: the level of node n
    Maximum,     \* how many calls a document may have at once
    Envs,        \* what may happen in a behaviour: one of these sets of events
    MaxEvents,   \* how many events there are in a behaviour
    None

Nodes == DOMAIN Children
Tasks == 1..Batches \cup Nodes
Rank(t) == IF t \in Nodes THEN Level[t] ELSE 0
LastRank == CHOOSE r \in {Rank(t) : t \in Tasks} : \A t \in Tasks : Rank(t) <= r

Events == {"pause", "cancel", "resume", "recover", "crash", "invalid", "limit", "fails"}

AnalysisAssumption ==
    /\ Batches \in Nat \ {0, 1} /\ Maximum \in Nat \ {0}
    /\ \A n \in Nodes : n \in Nat /\ n > Batches /\ Level[n] \in Nat \ {0}
    /\ \A n \in Nodes : Children[n] \subseteq Tasks /\ \A c \in Children[n] : Rank(c) < Level[n]
    /\ IsFiniteSet(Nodes)
    /\ \E r \in {Rank(t) : t \in Tasks} : \A t \in Tasks : Rank(t) <= r
    /\ \A r \in 1..LastRank : \E n \in Nodes : Level[n] = r
    /\ None \notin Jobs \cup Workers \cup [Tasks -> Workers \cup {None}]
    /\ Envs \subseteq SUBSET Events /\ Envs # {}

Contract(operation, parent) == [operation |-> operation, identity |-> "model", digest |-> parent]
Harvest == Contract("knowledge_fact_harvest", "document")
Merge == Contract("knowledge_analysis_merge", "document")

\* The contract of a repair is bound to what it repairs.
RepairOf(c) == Contract("structured_output_repair", c.operation)
Contracts == {Harvest, Merge, RepairOf(Harvest), RepairOf(Merge)}

VARIABLES
    job,          \* job[j]: the status of an import
    quarantined,  \* the imports that are isolated, and may be recovered
    answer,       \* answer[j][t]: the checkpoint of a batch or of a node
    merged,       \* merged[j]: the answers in the checkpoint of the merge, or None
    analysis,     \* analysis[j]: those in the checkpoint of the stage, or None
    run,          \* run[w]: what a worker does
    ledger,       \* the operation contracts
    env, events

saved == <<answer, merged, analysis>>
jobs == <<job, quarantined>>
quiet == <<env, events>>
vars == <<jobs, saved, run, ledger, quiet>>

Ledger == INSTANCE OperationLedger WITH Scopes <- Jobs

Event == events < MaxEvents /\ events' = events + 1 /\ UNCHANGED env

Statuses == {"new", "running", "paused", "recoverable", "cancelled", "failed", "completed"}
Controls == {"none", "paused", "cancelled"}

NoAnswers == [t \in Tasks |-> None]

Idle ==
    [pc |-> "idle", job |-> None, scope |-> None, authorized |-> {}, control |-> "none",
     rank |-> 0, at |-> [t \in Tasks |-> "none"], half |-> [t \in Tasks |-> 0], repairs |-> {},
     errors |-> [t \in Tasks |-> "none"], got |-> NoAnswers, culprit |-> None]

\* A task in these phases is in the hands of a thread of the pool.
Active == {"honor", "starting", "dispatch", "call", "answered", "failing"}
Finished == {"ok", "error"}
At(w, phases) == {t \in Tasks : run[w].at[t] \in phases}

Of(w) == run[w].job
Controlled(w) == run[w].control # "none"

\* _honor_control: the job takes the status that the user has asked for.
Honored(w) == [job EXCEPT ![Of(w)] = run[w].control]

Goto(w, pc) == run' = [run EXCEPT ![w].pc = pc]
Move(w, t, phase) == run' = [run EXCEPT ![w].at[t] = phase]
Fails(w, t, phase, error) ==
    run' = [run EXCEPT ![w].at[t] = phase, ![w].errors[t] = error]

----------------------------------------------------------------------------
(* A thread of the pool: execute_batch and execute_node.                    *)

Parent(t) == IF t \in Nodes THEN Merge ELSE Harvest
Request(w, t) == IF t \in run[w].repairs THEN RepairOf(Parent(t)) ELSE Parent(t)

\* The request, and the one that it repairs.
Dispatched(w, t) == {Parent(t), Request(w, t)}

\* start_batch and start_merge_node: a row that is complete is not begun again.  Nodes
\* honor a control before that, batches after it.
Start(w, t) ==
    /\ run[w].at[t] = IF t \in Nodes THEN "starting" ELSE "queued"
    /\ IF answer[Of(w)][t] # None THEN Fails(w, t, "error", "state")
       ELSE Move(w, t, IF t \in Nodes THEN "dispatch" ELSE "honor")
    /\ UNCHANGED <<jobs, saved, ledger, quiet>>

Honor(w, t) ==
    /\ run[w].at[t] = IF t \in Nodes THEN "queued" ELSE "honor"
    /\ IF Controlled(w)
       THEN /\ job' = Honored(w)
            /\ Fails(w, t, IF t \in Nodes THEN "error" ELSE "failing", "control")
       ELSE /\ Move(w, t, IF t \in Nodes THEN "starting" ELSE "dispatch")
            /\ UNCHANGED job
    /\ UNCHANGED <<quarantined, saved, ledger, quiet>>

\* _authorize_retry: a recovery is granted each contract once, if it is suspended then.
Authorize(w, t) ==
    LET c == Request(w, t)
    IN  /\ run[w].at[t] = "dispatch" /\ run[w].scope # None /\ c \notin run[w].authorized
        /\ ledger' = Ledger!Authorize(ledger, {c}, run[w].scope)
        /\ run' = [run EXCEPT ![w].authorized = @ \cup {c}]
        /\ UNCHANGED <<jobs, saved, quiet>>

\* DesktopImportAnalysisDispatcher.run
Dispatch(w, t) ==
    LET c == Request(w, t)
    IN  /\ run[w].at[t] = "dispatch" /\ (run[w].scope = None \/ c \in run[w].authorized)
        /\ IF Ledger!DispatchAdmitted(ledger, c, run[w].scope) THEN Move(w, t, "call")
           ELSE Fails(w, t, "failing", "suspended")
        /\ UNCHANGED <<jobs, saved, ledger, quiet>>

\* A validated answer: each contract that was used is ready, whoever suspended it.  The
\* second half of a batch comes after the first.
Valid(w, t) ==
    LET repaired == Ledger!Ready(ledger, Request(w, t))
    IN  /\ run[w].at[t] = "call"
        /\ ledger' = Ledger!Ready(repaired, Parent(t))
        /\ run' = [run EXCEPT ![w].at[t] = IF run[w].half[t] = 1 THEN "honor" ELSE "answered",
                              ![w].half[t] = IF @ = 1 THEN 2 ELSE 0,
                              ![w].repairs = @ \ {t}]
        /\ UNCHANGED <<jobs, saved, quiet>>

\* Only the output limit makes two calls of a batch; a half has one piece of evidence.
Limit(w, t) ==
    /\ "limit" \in env
    /\ run[w].at[t] = "call" /\ t \notin Nodes /\ run[w].half[t] = 0
    /\ run' = [run EXCEPT ![w].at[t] = "honor", ![w].half[t] = 1, ![w].repairs = @ \ {t}]
    /\ UNCHANGED <<jobs, saved, ledger, quiet>>

\* run_structured_output: an answer that is not valid is repaired once.
Invalid(w, t) ==
    /\ "invalid" \in env
    /\ run[w].at[t] = "call"
    /\ IF t \in run[w].repairs THEN Fails(w, t, "failing", "invalid")
       ELSE run' = [run EXCEPT ![w].at[t] = "dispatch", ![w].repairs = @ \cup {t}]
    /\ UNCHANGED <<jobs, saved, ledger, quiet>>

CallFails(w, t) ==
    /\ "fails" \in env
    /\ run[w].at[t] = "call"
    /\ Fails(w, t, "failing", "failed")
    /\ UNCHANGED <<jobs, saved, ledger, quiet>>

\* DesktopModelCancelledError passes both except clauses: the row is left as it is.
Interrupted(w, t) ==
    /\ run[w].at[t] = "call" /\ Controlled(w)
    /\ Fails(w, t, "error", "interrupted")
    /\ UNCHANGED <<jobs, saved, ledger, quiet>>

\* Near miss: the row is written whatever it holds.
SaveAnyway(w, t) ==
    /\ run[w].at[t] = "answered"
    /\ answer' = [answer EXCEPT ![Of(w)][t] = w]
    /\ Move(w, t, "ok")
    /\ UNCHANGED <<jobs, merged, analysis, ledger, quiet>>

\* complete_batch and complete_merge_node
Save(w, t) ==
    /\ run[w].at[t] = "answered"
    /\ IF answer[Of(w)][t] # None
       THEN Fails(w, t, "error", "state") /\ UNCHANGED answer
       ELSE answer' = [answer EXCEPT ![Of(w)][t] = w] /\ Move(w, t, "ok")
    /\ UNCHANGED <<jobs, merged, analysis, ledger, quiet>>

\* fail_batch and fail_merge_node
FailRow(w, t) ==
    /\ run[w].at[t] = "failing"
    /\ Fails(w, t, "error", IF answer[Of(w)][t] # None THEN "state" ELSE run[w].errors[t])
    /\ UNCHANGED <<jobs, saved, ledger, quiet>>

Task(w, t) ==
    \/ Start(w, t) \/ Honor(w, t) \/ Authorize(w, t) \/ Dispatch(w, t)
    \/ Valid(w, t) \/ Limit(w, t) \/ Invalid(w, t) \/ CallFails(w, t) \/ Interrupted(w, t)
    \/ Save(w, t) \/ FailRow(w, t)

----------------------------------------------------------------------------
(* The thread of the import: run_knowledge_analysis, parallel_map_ordered.  *)

InFlight(w) == At(w, {"queued"} \cup Active \cup Finished)

\* submit_next: the next one in order, unless a failure was seen.
CanSubmit(w) ==
    /\ run[w].pc = "map"
    /\ At(w, {"owed"}) # {} /\ At(w, {"error"}) = {}
    /\ Cardinality(InFlight(w)) < Maximum

\* The stage begins, or the checkpoint it has left is used again.
Enter(w) ==
    /\ run[w].pc = "enter"
    /\ CASE Controlled(w) -> job' = Honored(w) /\ Goto(w, "ending")
         [] ~Controlled(w) /\ analysis[Of(w)] # None ->
                Goto(w, "publish") /\ UNCHANGED job
         [] OTHER ->
                /\ job' = [job EXCEPT ![Of(w)] = "running"]
                /\ Goto(w, "load")
    /\ UNCHANGED <<quarantined, saved, ledger, quiet>>

\* The answers there are, and the tasks of a rank that are owed.
Fetched(w, r) ==
    LET rows == answer[Of(w)]
        rank == {t \in Tasks : Rank(t) = r}
        got  == [t \in Tasks |-> IF t \in rank THEN rows[t] ELSE run[w].got[t]]
        at   == [t \in Tasks |-> IF t \in rank /\ rows[t] = None THEN "owed" ELSE run[w].at[t]]
    IN  [run[w] EXCEPT !.pc = "map", !.rank = r, !.got = got, !.at = at]

\* load_or_create: what is complete is not asked for again.
Load(w) ==
    /\ run[w].pc = "load"
    /\ run' = [run EXCEPT ![w] = Fetched(w, 0)]
    /\ UNCHANGED <<jobs, saved, ledger, quiet>>

Submit(w) ==
    /\ CanSubmit(w)
    /\ \E t \in At(w, {"owed"}) : (\A u \in At(w, {"owed"}) : t <= u) /\ Move(w, t, "queued")
    /\ UNCHANGED <<jobs, saved, ledger, quiet>>

\* Near miss: the error is raised without waiting for the calls under way.
CollectAndLeave(w) ==
    LET done == At(w, Finished)
        failed == At(w, {"error"})
        rest == [t \in Tasks |-> IF t \in done THEN "none" ELSE run[w].at[t]]
    IN  /\ run[w].pc = "map" /\ ~CanSubmit(w) /\ done # {}
        /\ \/ /\ failed = {}
              /\ run' = [run EXCEPT ![w].at = rest,
                                    ![w].got = [t \in Tasks |-> IF t \in done THEN w ELSE @[t]]]
           \/ \E t \in failed : run' = [run EXCEPT ![w].at = rest, ![w].culprit = t, ![w].pc = "raised"]
        /\ UNCHANGED <<jobs, saved, ledger, quiet>>

\* All that have finished are taken at once; the error of any of them is raised.
Collect(w) ==
    LET done == At(w, Finished)
        failed == At(w, {"error"})
        rest == [t \in Tasks |-> IF t \in done THEN "none" ELSE run[w].at[t]]
    IN  /\ run[w].pc = "map" /\ ~CanSubmit(w) /\ done # {}
        /\ \/ /\ failed = {}
              /\ run' = [run EXCEPT ![w].at = rest,
                                    ![w].got = [t \in Tasks |-> IF t \in done THEN w ELSE @[t]]]
           \/ \E t \in failed : run' = [run EXCEPT ![w].at = rest, ![w].culprit = t, ![w].pc = "closing"]
        /\ UNCHANGED <<jobs, saved, ledger, quiet>>

\* The except clause: what has not begun is cancelled, what has begun is waited for.
CancelQueued(w, t) ==
    /\ run[w].pc = "closing" /\ run[w].at[t] = "queued"
    /\ Move(w, t, "none")
    /\ UNCHANGED <<jobs, saved, ledger, quiet>>

Closed(w) ==
    /\ run[w].pc = "closing" /\ At(w, {"queued"} \cup Active) = {}
    /\ Goto(w, "raised")
    /\ UNCHANGED <<jobs, saved, ledger, quiet>>

MapDone(w) ==
    /\ run[w].pc = "map" /\ At(w, {"owed"}) \cup InFlight(w) = {}
    /\ Goto(w, CASE run[w].rank = 0 -> "merge"
                 [] run[w].rank = LastRank /\ LastRank > 0 -> "merged"
                 [] OTHER -> "level")
    /\ UNCHANGED <<jobs, saved, ledger, quiet>>

\* merge_checkpoint, and start_merge otherwise.
BeginMerge(w) ==
    /\ run[w].pc = "merge"
    /\ CASE merged[Of(w)] # None ->
                run' = [run EXCEPT ![w].pc = "finish", ![w].got = merged[Of(w)]] /\ UNCHANGED job
         [] merged[Of(w)] = None /\ Controlled(w) -> job' = Honored(w) /\ Goto(w, "ending")
         [] OTHER -> Goto(w, IF LastRank = 0 THEN "merged" ELSE "level") /\ UNCHANGED job
    /\ UNCHANGED <<quarantined, saved, ledger, quiet>>

\* merge_node_checkpoint, for each node of the next level.
NextLevel(w) ==
    /\ run[w].pc = "level"
    /\ run' = [run EXCEPT ![w] = Fetched(w, run[w].rank + 1)]
    /\ UNCHANGED <<jobs, saved, ledger, quiet>>

\* complete_merge
CompleteMerge(w) ==
    /\ run[w].pc = "merged"
    /\ IF merged[Of(w)] # None
       THEN Goto(w, "failed") /\ UNCHANGED merged
       ELSE merged' = [merged EXCEPT ![Of(w)] = run[w].got] /\ Goto(w, "finish")
    /\ UNCHANGED <<jobs, answer, analysis, ledger, quiet>>

\* The stage is completed with its checkpoint; set_stage sets the job running, too.
Finish(w) ==
    /\ run[w].pc = "finish"
    /\ analysis' = [analysis EXCEPT ![Of(w)] = run[w].got]
    /\ job' = [job EXCEPT ![Of(w)] = "running"]
    /\ Goto(w, "publish")
    /\ UNCHANGED <<quarantined, answer, merged, ledger, quiet>>

Publish(w) ==
    /\ run[w].pc = "publish"
    /\ job' = IF Controlled(w) THEN Honored(w) ELSE [job EXCEPT ![Of(w)] = "completed"]
    /\ quarantined' = IF Controlled(w) THEN quarantined ELSE quarantined \ {Of(w)}
    /\ Goto(w, "ending")
    /\ UNCHANGED <<saved, ledger, quiet>>

\* The handlers of _run, by the error of the task that was taken first.
Raised(w) ==
    LET t == run[w].culprit
        error == run[w].errors[t]
        parent == IF t \in run[w].repairs THEN Parent(t) ELSE None
    IN  /\ run[w].pc = "raised"
        /\ CASE error = "control" -> Goto(w, "ending") /\ UNCHANGED <<job, ledger>>
             [] error = "interrupted" ->
                    /\ job' = [job EXCEPT ![Of(w)] = "paused"]
                    /\ Goto(w, "ending") /\ UNCHANGED ledger
             [] error \in {"suspended", "state"} -> Goto(w, "failed") /\ UNCHANGED <<job, ledger>>
             [] error = "invalid" ->
                    /\ ledger' = Ledger!Suspend(ledger, Parent(t), None)
                    /\ Goto(w, "quarantine") /\ UNCHANGED job
             [] error = "failed" ->
                    /\ ledger' = Ledger!SuspendFailedCall(ledger, Request(w, t), parent, "transport")
                    /\ Goto(w, "quarantine") /\ UNCHANGED job
        /\ UNCHANGED <<quarantined, saved, quiet>>

\* fail_job
Failed(w) ==
    /\ run[w].pc = "failed"
    /\ job' = [job EXCEPT ![Of(w)] = "failed"]
    /\ Goto(w, "ending")
    /\ UNCHANGED <<quarantined, saved, ledger, quiet>>

\* quarantine_import_model_call
Quarantine(w) ==
    /\ run[w].pc = "quarantine"
    /\ job' = [job EXCEPT ![Of(w)] = "failed"]
    /\ quarantined' = quarantined \cup {Of(w)}
    /\ Goto(w, "ending")
    /\ UNCHANGED <<saved, ledger, quiet>>

\* Near miss: the permits of a recovery outlive it.
EndForgetful(w) ==
    /\ run[w].pc = "ending"
    /\ run' = [run EXCEPT ![w] = Idle]
    /\ UNCHANGED <<jobs, saved, ledger, quiet>>

\* end_recovery, and the end of the request.
End(w) ==
    /\ run[w].pc = "ending"
    /\ ledger' = IF run[w].scope = None THEN ledger ELSE Ledger!Revoke(ledger, run[w].scope)
    /\ run' = [run EXCEPT ![w] = Idle]
    /\ UNCHANGED <<jobs, saved, quiet>>

Main(w) ==
    \/ Enter(w) \/ Load(w) \/ Submit(w) \/ Collect(w) \/ Closed(w) \/ MapDone(w)
    \/ BeginMerge(w) \/ NextLevel(w) \/ CompleteMerge(w) \/ Finish(w) \/ Publish(w)
    \/ Raised(w) \/ Failed(w) \/ Quarantine(w) \/ End(w)
    \/ \E t \in Tasks : CancelQueued(w, t)

----------------------------------------------------------------------------
(* Requests.                                                                *)

\* A request has a thread of its own; which one makes no difference.
Free == CHOOSE w \in Workers : run[w].pc = "idle"

Begun(w, j, scope) ==
    /\ run[w].pc = "idle" /\ w = Free
    /\ run' = [run EXCEPT ![w] = [Idle EXCEPT !.pc = "enter", !.job = j, !.scope = scope]]
    /\ job' = [job EXCEPT ![j] = "running"]

\* An import gets as far as its analysis.
Import(w, j) ==
    /\ job[j] = "new"
    /\ Begun(w, j, None)
    /\ UNCHANGED <<quarantined, saved, ledger, quiet>>

\* resume_job: only the status is tested, not whether the last run has ended.
Resume(w, j) ==
    /\ "resume" \in env /\ Event
    /\ job[j] \in {"paused", "recoverable"}
    /\ Begun(w, j, None)
    /\ UNCHANGED <<quarantined, saved, ledger>>

\* begin_recovery: the run has the scope of the job.
Recover(w, j) ==
    /\ "recover" \in env /\ Event
    /\ j \in quarantined /\ job[j] \in {"cancelled", "failed", "paused", "recoverable"}
    /\ Begun(w, j, j)
    /\ UNCHANGED <<quarantined, saved, ledger>>

\* request_pause and request_cancel; a cancellation is not taken back.
Control(w) ==
    /\ Event
    /\ run[w].pc \notin {"idle", "ending"}
    /\ \/ "pause" \in env /\ run[w].control = "none" /\ run' = [run EXCEPT ![w].control = "paused"]
       \/ "cancel" \in env /\ run[w].control # "cancelled"
          /\ run' = [run EXCEPT ![w].control = "cancelled"]
    /\ UNCHANGED <<jobs, saved, ledger>>

\* The engine dies, and the knowledge base is opened again.
Crash ==
    /\ "crash" \in env /\ Event
    /\ \E w \in Workers : run[w].pc # "idle"
    /\ run' = [w \in Workers |-> Idle]
    /\ job' = [j \in Jobs |-> IF job[j] = "running" THEN "recoverable" ELSE job[j]]
    /\ ledger' = Ledger!DiscardPermits(ledger)
    /\ UNCHANGED <<quarantined, saved>>

Init ==
    /\ job = [j \in Jobs |-> "new"]
    /\ quarantined = {}
    /\ answer = [j \in Jobs |-> NoAnswers]
    /\ merged = [j \in Jobs |-> None]
    /\ analysis = [j \in Jobs |-> None]
    /\ run = [w \in Workers |-> Idle]
    /\ ledger = Ledger!EmptyLedger
    /\ env \in Envs
    /\ events = 0

Work(w) == Main(w) \/ \E t \in Tasks : Task(w, t)

Next ==
    \/ \E w \in Workers, j \in Jobs : Import(w, j) \/ Resume(w, j) \/ Recover(w, j)
    \/ \E w \in Workers : Control(w) \/ Work(w)
    \/ Crash

\* The threads of a run are scheduled, and the provider ends each call.
Spec ==
    /\ Init /\ [][Next]_vars
    /\ \A w \in Workers : WF_vars(Main(w)) /\ \A t \in Tasks : WF_vars(Task(w, t))

----------------------------------------------------------------------------
(* Properties.                                                              *)

\* A run has at most Maximum tasks in flight.
TypeOK ==
    /\ job \in [Jobs -> Statuses]
    /\ quarantined \subseteq Jobs
    /\ answer \in [Jobs -> [Tasks -> Workers \cup {None}]]
    /\ ledger \in Ledger!Ledgers
    /\ \A w \in Workers :
          /\ run[w].control \in Controls
          /\ run[w].pc = "idle" \/ run[w].job \in Jobs
          /\ Cardinality(InFlight(w)) <= Maximum

\* A permit is good for a recovery of its import that is at work.
PermitsHaveOwner ==
    \A p \in ledger.permits : \E w \in Workers : run[w].scope = p[2]

\* A task is at work only as long as its run waits for it, and an import that counts as
\* running has a worker.
RunningIsWorkedOn ==
    /\ \A w \in Workers : At(w, Active) # {} => run[w].pc \in {"map", "closing"}
    /\ \A j \in Jobs : job[j] = "running" => \E w \in Workers : run[w].job = j

\* The result of the stage is made of the saved answers, each of them complete.
CompletedHasResult ==
    \A j \in Jobs :
        /\ job[j] = "completed" => analysis[j] # None
        /\ analysis[j] # None => analysis[j] = answer[j] /\ \A t \in Tasks : answer[j][t] # None

\* A node is merged after its children, and what is complete stays: it is paid for once.
InTurn ==
    \A j \in Jobs, t \in Tasks :
        /\ answer[j][t] # None => answer'[j][t] = answer[j][t]
        /\ answer[j][t] = None /\ answer'[j][t] # None /\ t \in Nodes =>
               \A c \in Children[t] : answer[j][c] # None

=============================================================================
