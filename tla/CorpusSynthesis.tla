--------------------------- MODULE CorpusSynthesis ---------------------------
(***************************************************************************)
(* Generated knowledge pages, and the generations they are published in:   *)
(*   - openkb/knowledge/corpus: a queue of documents whose candidates or   *)
(*     relations have changed, and a pipeline that prepares a generation   *)
(*     in one transaction, asks a model for its pages without any lock,    *)
(*     and completes it in another one;                                    *)
(*   - openkb/knowledge/pages/generations.py and store.py: a generation    *)
(*     copies its parent, and becomes the current one at its completion;   *)
(*   - openkb/engine/corpus_synthesis.py: one worker per knowledge base.   *)
(* The end of a reanalysis runs the pipeline too, in a thread of its own.  *)
(* An import publishes candidates, and a generation without new pages, in  *)
(* one transaction; an import without a model, and the user's decisions on *)
(* conflicts, publish items at once.                                       *)
(***************************************************************************)
EXTENDS FiniteSets, Integers

CONSTANTS
    Docs,           \* source documents
    Identities,     \* concepts, entities and procedures
    Mentions,       \* Mentions[d]: the identities d has admitted candidates for
    Items,          \* items that are published without the pipeline
    MaxCandidates,  \* how often a document is analysed
    MaxGenerations, \* how many generations there are
    Envs,           \* what may happen besides imports: one of these sets of events
    MaxEvents,      \* how many events there are in a behaviour
    None

Events ==
    {"reanalysis", "direct", "graph", "availability", "open", "other", "retire", "crash",
     "db_error", "invalid", "call_fails", "unqualified"}

CorpusAssumption ==
    /\ Mentions \in [Docs -> SUBSET Identities]
    /\ Envs \subseteq SUBSET Events /\ Envs # {}
    /\ MaxCandidates \in Nat \ {0} /\ MaxGenerations \in Nat \ {0}
    /\ None \notin {"worker", "reanalysis"}

VARIABLES
    registry,    \* registry[d]: the current generation of d's candidates, or 0
    available,   \* the documents that are available
    graph,       \* graph[d]: the current graph result, or None
    work,        \* work[d]: the queued work of d
    generation,  \* generation[n]: the n-th generation
    count,       \* how many generations there are
    current,     \* the current generation, or 0
    suspended,   \* the contract of page planning is suspended
    active,      \* the knowledge base is open
    gateway,     \* the gateway installed for the worker, or 0
    rerun,       \* the worker is asked for another round
    running,     \* a worker is registered
    pipe,        \* pipe[p]: a thread that runs the pipeline
    env,         \* what may happen in this behaviour
    events       \* how many events have happened

knowledge == <<registry, available, graph>>
published == <<generation, count, current>>
engine == <<active, gateway, rerun, running>>
vars == <<knowledge, work, published, suspended, engine, pipe, env, events>>

Pipes == {"worker", "reanalysis"}
Generations == 1..MaxGenerations

quiet == <<env, events>>
Event == events < MaxEvents /\ events' = events + 1 /\ UNCHANGED env

NoWork == [status |-> "none", revision |-> 0]

\* A page is the set of the candidates whose claims it renders.
NoPages == [i \in Identities |-> {}]

NoGeneration ==
    [parent |-> 0, inputs |-> [d \in Docs |-> 0], graphs |-> [d \in Docs |-> "none"],
     identities |-> {}, pages |-> NoPages, items |-> {}, state |-> "none", owner |-> None]

Idle == [pc |-> "idle", stale |-> FALSE, gw |-> 0, revisions |-> [d \in Docs |-> 0],
         gen |-> 0, asks |-> FALSE, planned |-> {}, outcome |-> "none"]

----------------------------------------------------------------------------
(* The work queue.                                                          *)

\* enqueue_corpus_work_in
Enqueued(w, d) == [w EXCEPT ![d] = [status |-> "pending", revision |-> @.revision + 1]]

\* CorpusWorkQueue.pending
PendingRevisions ==
    [d \in Docs |-> IF work[d].status = "pending" THEN work[d].revision ELSE 0]

Held(revisions, d) == revisions[d] # 0 /\ work[d].revision = revisions[d]

\* Near miss: a late completion consumes whatever is queued.
FinishedBlindly(revisions, done) ==
    [d \in Docs |-> IF revisions[d] # 0
                    THEN IF done THEN NoWork ELSE [work[d] EXCEPT !.status = "failed"]
                    ELSE work[d]]

\* CorpusWorkQueue.finish
Finished(revisions, done) ==
    [d \in Docs |-> IF Held(revisions, d)
                    THEN IF done THEN NoWork ELSE [work[d] EXCEPT !.status = "failed"]
                    ELSE work[d]]

----------------------------------------------------------------------------
(* Generations.                                                             *)

\* capture_corpus_candidate_inputs_in
Captured(reg) == [d \in Docs |-> IF d \in available THEN reg[d] ELSE 0]

InputDocs(inputs) == {d \in Docs : inputs[d] # 0}
IdentitiesOf(inputs, D) == UNION {Mentions[d] : d \in InputDocs(inputs) \cap D}

\* bind_generation_graph_inputs_in: what is pinned first stays.
GraphInputs(inputs) ==
    [d \in Docs |-> IF inputs[d] = 0 THEN "none"
                    ELSE IF graph[d] # None /\ graph[d].gen = inputs[d] THEN graph[d].quality
                    ELSE "unavailable_optional"]

Parent == IF current = 0 THEN NoGeneration ELSE generation[current]

\* publish_incremental_corpus_generation_in: everything in the parent and what D affects.
Incremental(inputs, D) ==
    [NoGeneration EXCEPT !.parent = current, !.inputs = inputs, !.graphs = GraphInputs(inputs),
                         !.identities = Parent.identities \cup IdentitiesOf(inputs, D),
                         !.items = Parent.items, !.state = "identity_ready"]

\* publish_corpus_generation_in: the whole corpus.
Full(inputs) ==
    [NoGeneration EXCEPT !.parent = current, !.inputs = inputs, !.graphs = GraphInputs(inputs),
                         !.identities = IdentitiesOf(inputs, Docs), !.state = "identity_ready"]

Claims(inputs, i) == {<<d, inputs[d]>> : d \in {e \in InputDocs(inputs) : i \in Mentions[e]}}

\* _persist_deferred_page_in: the page of the parent, if its sources are available.
Carried(g, i) ==
    LET page == IF g.parent = 0 THEN {} ELSE generation[g.parent].pages[i]
    IN  IF \A c \in page : c[1] \in available THEN page ELSE {}

\* build_generation_knowledge_pages_in: an identity without a page is left out.
Built(g, planned) ==
    LET pages == [i \in Identities |->
                    IF i \notin g.identities THEN {}
                    ELSE IF i \in planned /\ Claims(g.inputs, i) # {} THEN Claims(g.inputs, i)
                    ELSE Carried(g, i)]
    IN  [g EXCEPT !.pages = pages, !.identities = {i \in @ : pages[i] # {}}]

\* Near miss: the inputs are not looked at again.
CompatibleOnce(g, reg) == InputDocs(g.inputs) # {}

\* corpus_manifest_compatibility_issues_in
Compatible(g, reg) ==
    /\ InputDocs(g.inputs) # {}
    /\ \A d \in InputDocs(g.inputs) : d \in available /\ g.inputs[d] = reg[d]

\* activate_qualified_corpus_generation_in: the generation that was active is superseded.
Activated(gens, n, g) ==
    [m \in Generations |->
        CASE m = n -> [g EXCEPT !.state = "active", !.owner = None]
          [] m = current /\ m # n /\ gens[m].state = "active" -> [gens[m] EXCEPT !.state = "superseded"]
          [] OTHER -> gens[m]]

Closed(g, state) == [g EXCEPT !.state = state, !.owner = None]

\* A generation of an import or of a reanalysis is complete in its transaction.  It has
\* no page of its own: every page is carried on, or left out.
PublishAtOnce(g) ==
    /\ count < MaxGenerations
    /\ count' = count + 1
    /\ generation' = Activated(generation, count + 1, Built(g, {}))
    /\ current' = count + 1

----------------------------------------------------------------------------
(* The pipeline.                                                            *)

Goto(p, pc) == pipe' = [pipe EXCEPT ![p].pc = pc]

\* Near miss: whoever has prepared a generation may complete it.
OwnAnyway(p) == pipe[p].gen # 0
Own(p) == pipe[p].gen # 0 /\ generation[pipe[p].gen].owner = p

\* Only the worker is stopped, and only its gateway may be replaced.
ShouldStop(p) == p = "worker" /\ pipe[p].stale
CanDispatch(p) == p = "worker" => gateway = pipe[p].gw

\* The thread goes on with the outcome of the generation it has prepared.
Outcome(p, outcome) ==
    pipe' = [pipe EXCEPT ![p] = [@ EXCEPT !.pc = IF p = "worker" THEN "finish" ELSE "idle",
                                          !.outcome = outcome, !.gen = 0, !.planned = {}]]

\* _outcome_in: a generation that is not active has failed, been cancelled or superseded.
LateOutcome(p) ==
    LET state == generation[pipe[p].gen].state
    IN  Outcome(p, IF state \in {"cancelled", "superseded"} THEN state ELSE "failed")

\* An exception ends the worker; a reanalysis only logs it.
Raise(p) ==
    pipe' = [pipe EXCEPT ![p] = [@ EXCEPT !.pc = IF p = "worker" THEN "raised" ELSE "idle",
                                          !.gen = 0, !.planned = {}]]

\* run_generation: when the planner is suspended no page is asked for.  The reviews that
\* come first are given up when the gateway has been replaced.
Begin(p) ==
    /\ pipe[p].pc = "begin"
    /\ \/ (ShouldStop(p) \/ ~CanDispatch(p)) /\ Outcome(p, "cancelled")
       \/ /\ ~ShouldStop(p)
          /\ pipe' = [pipe EXCEPT ![p] = [@ EXCEPT !.pc = "prepare", !.asks = ~suspended]]
    /\ UNCHANGED <<knowledge, work, published, suspended, engine, quiet>>

\* _prepare_generation
Prepare(p) ==
    LET inputs == Captured(registry)
        D == {d \in Docs : pipe[p].revisions[d] # 0}
        affected == IF p = "worker" THEN IdentitiesOf(inputs, D) ELSE IdentitiesOf(inputs, Docs)
        g == IF p = "worker" THEN Incremental(inputs, D) ELSE Full(inputs)
    IN  /\ pipe[p].pc = "prepare"
        /\ CASE InputDocs(inputs) = {} -> Raise(p) /\ UNCHANGED published
             [] InputDocs(inputs) # {} /\ affected = {} ->
                    Outcome(p, "unchanged") /\ UNCHANGED published
             [] OTHER ->
                    /\ count < MaxGenerations
                    /\ count' = count + 1
                    /\ generation' = [generation EXCEPT ![count + 1] = [g EXCEPT !.owner = p]]
                    /\ pipe' = [pipe EXCEPT ![p] =
                                  [@ EXCEPT !.pc = IF pipe[p].asks THEN "plan" ELSE "deferred",
                                            !.gen = count + 1]]
                    /\ UNCHANGED current
        /\ UNCHANGED <<knowledge, work, suspended, engine, quiet>>

\* _finish_terminal
Cancelled(p) ==
    /\ generation' = [generation EXCEPT ![pipe[p].gen] =
                        IF @.state = "active" THEN @
                        ELSE [@ EXCEPT !.state = "cancelled", !.owner = None]]
    /\ Outcome(p, "cancelled")
    /\ UNCHANGED <<count, current>>

\* _plan_generation: some identities get a page, the others are deferred.  A failed call
\* suspends the planner; an invalid answer does not.
Plan(p) ==
    LET identities == generation[pipe[p].gen].identities
    IN  /\ pipe[p].pc = "plan"
        /\ Own(p) /\ ~ShouldStop(p) /\ CanDispatch(p)
        /\ \E planned \in SUBSET identities :
              /\ planned # identities => env \cap {"invalid", "call_fails"} # {} \/ suspended
              /\ suspended' \in {suspended} \cup
                    (IF planned # identities /\ "call_fails" \in env THEN {TRUE} ELSE {})
              /\ pipe' = [pipe EXCEPT ![p] = [@ EXCEPT !.pc = "complete", !.planned = planned]]
        /\ UNCHANGED <<knowledge, work, published, engine, quiet>>

\* Near miss: the generation is left as it is.
PlanAbandoned(p) ==
    /\ pipe[p].pc = "plan"
    /\ ShouldStop(p) \/ ~CanDispatch(p) \/ ~Own(p)
    /\ LateOutcome(p)
    /\ UNCHANGED <<knowledge, work, published, suspended, engine, quiet>>

\* The model is not called any more: the thread is to stop, its gateway was replaced, or
\* its claim was taken away.
PlanStopped(p) ==
    /\ pipe[p].pc = "plan"
    /\ ShouldStop(p) \/ ~CanDispatch(p) \/ ~Own(p)
    /\ IF Own(p) \/ ShouldStop(p) THEN Cancelled(p) ELSE LateOutcome(p) /\ UNCHANGED published
    /\ UNCHANGED <<knowledge, work, suspended, engine, quiet>>

\* _run_without_planner: a thread that is to stop closes its generation at the first of
\* two checks, and leaves it at the second.
Deferred(p) ==
    /\ pipe[p].pc = "deferred"
    /\ IF ShouldStop(p) THEN Cancelled(p) \/ (LateOutcome(p) /\ UNCHANGED published)
                        ELSE Goto(p, "commit") /\ UNCHANGED published
    /\ UNCHANGED <<knowledge, work, suspended, engine, quiet>>

\* _complete_generation: a check, and then one transaction.
CompleteCheck(p) ==
    /\ pipe[p].pc = "complete"
    /\ CASE ShouldStop(p) -> Cancelled(p)
         [] ~ShouldStop(p) /\ ~Own(p) -> LateOutcome(p) /\ UNCHANGED published
         [] OTHER -> Goto(p, "commit") /\ UNCHANGED published
    /\ UNCHANGED <<knowledge, work, suspended, engine, quiet>>

Commit(p) ==
    LET n == pipe[p].gen
        g == Built(generation[n], pipe[p].planned)
    IN  /\ pipe[p].pc = "commit"
        /\ \/ /\ ~Own(p)
              /\ LateOutcome(p) /\ UNCHANGED <<generation, current>>
           \/ /\ Own(p) /\ ~Compatible(g, registry)
              /\ generation' = [generation EXCEPT ![n] = Closed(@, "superseded")]
              /\ Outcome(p, "superseded") /\ UNCHANGED current
           \/ /\ Own(p) /\ Compatible(g, registry) /\ "unqualified" \in env
              /\ generation' = [generation EXCEPT ![n] = Closed(@, "failed")]
              /\ Outcome(p, "failed") /\ UNCHANGED current
           \/ /\ Own(p) /\ Compatible(g, registry)
              /\ generation' = Activated(generation, n, g)
              /\ current' = n
              /\ Outcome(p, "active")
        /\ UNCHANGED <<knowledge, work, count, suspended, engine, quiet>>

\* A statement on the database fails; the claim of the generation stays as it is.
DatabaseError(p) ==
    /\ "db_error" \in env /\ Event
    /\ pipe[p].pc \in {"list", "begin", "prepare", "plan", "complete", "deferred", "commit"}
    /\ Raise(p)
    /\ UNCHANGED <<knowledge, work, published, suspended, engine>>

Pipeline(p) ==
    \/ Begin(p) \/ Prepare(p) \/ Plan(p) \/ PlanStopped(p)
    \/ Deferred(p) \/ CompleteCheck(p) \/ Commit(p)

----------------------------------------------------------------------------
(* The worker of the engine.                                                *)

Worker == pipe["worker"]

\* A gateway is a new object for every import.
NewGateway == CHOOSE g \in 1..3 : g # gateway /\ g # Worker.gw

\* CorpusSynthesisWorkers.start
Start(g, threads) ==
    IF ~active THEN UNCHANGED <<gateway, rerun, running>> /\ pipe' = threads
    ELSE /\ gateway' = g
         /\ running' = TRUE
         /\ rerun' = (rerun \/ running)
         /\ pipe' = IF running THEN threads
                    ELSE [threads EXCEPT !["worker"] = [Idle EXCEPT !.pc = "top"]]

Top ==
    /\ Worker.pc = "top"
    /\ IF Worker.stale \/ gateway = 0
       THEN Goto("worker", "final") /\ UNCHANGED rerun
       ELSE /\ rerun' = FALSE
            /\ pipe' = [pipe EXCEPT !["worker"] = [@ EXCEPT !.pc = "list", !.gw = gateway]]
    /\ UNCHANGED <<knowledge, work, published, suspended, active, gateway, running, quiet>>

List ==
    /\ Worker.pc = "list"
    /\ LET pc == IF \A d \in Docs : PendingRevisions[d] = 0 THEN "final" ELSE "begin"
       IN  pipe' = [pipe EXCEPT !["worker"] = [@ EXCEPT !.pc = pc, !.revisions = PendingRevisions]]
    /\ UNCHANGED <<knowledge, work, published, suspended, engine, quiet>>

\* After a generation: the documents are done with, unless the worker is to stop or its
\* gateway was replaced.
Finish ==
    /\ Worker.pc = "finish"
    /\ CASE Worker.stale -> Goto("worker", "final") /\ UNCHANGED work
         [] ~Worker.stale /\ gateway # Worker.gw -> Goto("worker", "top") /\ UNCHANGED work
         [] OTHER -> /\ work' = Finished(Worker.revisions, Worker.outcome \in {"active", "unchanged"})
                     /\ Goto("worker", "top")
    /\ UNCHANGED <<knowledge, published, suspended, engine, quiet>>

\* The except clause: what the worker took last has failed.
Raised ==
    /\ Worker.pc = "raised"
    /\ work' = Finished(Worker.revisions, FALSE)
    /\ Goto("worker", "final")
    /\ UNCHANGED <<knowledge, published, suspended, engine, quiet>>

\* Near miss: the thread stays registered when it restarts itself.
FinalStillRegistered ==
    /\ Worker.pc = "final"
    /\ gateway' = 0 /\ rerun' = FALSE /\ running' = (rerun /\ gateway # 0)
    /\ pipe' = [pipe EXCEPT !["worker"] =
                  IF rerun /\ gateway # 0 THEN [Idle EXCEPT !.pc = "restart", !.gw = gateway] ELSE Idle]
    /\ UNCHANGED <<knowledge, work, published, suspended, active, quiet>>

\* Near miss: what was asked for meanwhile is forgotten.
FinalForgets ==
    /\ Worker.pc = "final"
    /\ gateway' = 0 /\ rerun' = FALSE /\ running' = FALSE
    /\ Goto("worker", "idle")
    /\ UNCHANGED <<knowledge, work, published, suspended, active, quiet>>

\* The finally clause: if another round was asked for it is left to a new worker.
Final ==
    /\ Worker.pc = "final"
    /\ gateway' = 0 /\ rerun' = FALSE /\ running' = FALSE
    /\ pipe' = [pipe EXCEPT !["worker"] =
                  IF rerun /\ gateway # 0 THEN [Idle EXCEPT !.pc = "restart", !.gw = gateway] ELSE Idle]
    /\ UNCHANGED <<knowledge, work, published, suspended, active, quiet>>

Restart ==
    /\ Worker.pc = "restart"
    /\ Start(Worker.gw, [pipe EXCEPT !["worker"] = Idle])
    /\ UNCHANGED <<knowledge, work, published, suspended, active, quiet>>

WorkerStep == Top \/ List \/ Finish \/ Raised \/ Final \/ Restart

----------------------------------------------------------------------------
(* Imports, the user, and the rest of the engine.                           *)

\* apply_import_knowledge_analysis: new candidates, queued work, and a generation that
\* carries on the pages there are.
Import(d) ==
    LET reg == [registry EXCEPT ![d] = @ + 1]
    IN  /\ Event
        /\ active /\ d \in available /\ registry[d] < MaxCandidates
        /\ registry' = reg
        /\ work' = Enqueued(work, d)
        /\ IF Mentions[d] = {} THEN UNCHANGED published
           ELSE PublishAtOnce(Incremental(Captured(reg), {d}))
        /\ UNCHANGED <<available, graph, suspended, engine, pipe>>

\* The import then starts the worker.
StartAfterImport ==
    /\ \E d \in Docs : work[d].status = "pending"
    /\ Event
    /\ Start(NewGateway, pipe)
    /\ UNCHANGED <<knowledge, work, published, suspended, active>>

\* _apply_result of the last job of a reanalysis: new candidates, nothing queued, the
\* whole corpus again, and then the pipeline.
Reanalysed(d) ==
    LET reg == [registry EXCEPT ![d] = @ + 1]  inputs == Captured(reg)
    IN  /\ "reanalysis" \in env /\ Event
        /\ active /\ d \in available /\ registry[d] \in 1..(MaxCandidates - 1)
        /\ pipe["reanalysis"].pc = "idle"
        /\ registry' = reg
        /\ IdentitiesOf(inputs, Docs) # {} /\ PublishAtOnce(Full(inputs))
        /\ Goto("reanalysis", "begin")
        /\ UNCHANGED <<available, graph, work, suspended, engine>>

\* publish_generation_changes_in: an import without a model, or a decision on a conflict.
\* The generation has no manifest.
PublishItem(x) ==
    /\ "direct" \in env /\ Event
    /\ active /\ x \notin Parent.items
    /\ count < MaxGenerations
    /\ count' = count + 1
    /\ generation' = [generation EXCEPT ![count + 1] =
                        [NoGeneration EXCEPT !.parent = current, !.identities = Parent.identities,
                                             !.pages = Parent.pages, !.items = Parent.items \cup {x},
                                             !.state = "direct"]]
    /\ current' = count + 1
    /\ UNCHANGED <<knowledge, work, suspended, engine, pipe>>

\* _publish_and_complete of the knowledge graph.
PublishGraph(d, quality) ==
    /\ "graph" \in env /\ Event
    /\ active /\ registry[d] # 0
    /\ graph' = [graph EXCEPT ![d] =
                    IF @ # None /\ @.gen = registry[d] /\ @.quality = "ready" /\ quality = "degraded"
                    THEN @ ELSE [gen |-> registry[d], quality |-> quality]]
    /\ work' = Enqueued(work, d)
    /\ UNCHANGED <<registry, available, published, suspended, engine, pipe>>

ChangeAvailability(d) ==
    /\ "availability" \in env /\ Event
    /\ available' = IF d \in available THEN available \ {d} ELSE available \cup {d}
    /\ UNCHANGED <<registry, graph, work, published, suspended, engine, pipe>>

\* invalidate: the lease of the worker has passed.
Outdated == [pipe EXCEPT !["worker"].stale = @ \/ Worker.pc \notin {"idle", "restart"}]

\* recover_interrupted_corpus_generations_in
Recovered ==
    [n \in Generations |->
        IF generation[n].state = "identity_ready" THEN Closed(generation[n], "failed") ELSE generation[n]]

Open ==
    /\ "open" \in env /\ Event
    /\ active' = TRUE
    /\ gateway' = 0 /\ rerun' = FALSE
    /\ pipe' = Outdated
    /\ generation' = Recovered
    /\ UNCHANGED <<knowledge, work, count, current, suspended, running>>

OpenOther ==
    /\ "other" \in env /\ Event
    /\ active
    /\ active' = FALSE
    /\ gateway' = 0 /\ rerun' = FALSE
    /\ pipe' = Outdated
    /\ UNCHANGED <<knowledge, work, published, suspended, running>>

\* retire: the settings of the model were saved.
Retire ==
    /\ "retire" \in env /\ Event
    /\ active
    /\ gateway' = 0 /\ rerun' = FALSE
    /\ UNCHANGED <<knowledge, work, published, suspended, active, running, pipe>>

Crash ==
    /\ "crash" \in env /\ Event
    /\ active' = FALSE /\ gateway' = 0 /\ rerun' = FALSE /\ running' = FALSE
    /\ pipe' = [p \in Pipes |-> Idle]
    /\ UNCHANGED <<knowledge, work, published, suspended>>

----------------------------------------------------------------------------
Init ==
    /\ env \in Envs /\ events = 0
    /\ registry = [d \in Docs |-> 0]
    /\ available = Docs
    /\ graph = [d \in Docs |-> None]
    /\ work = [d \in Docs |-> NoWork]
    /\ generation = [n \in Generations |-> NoGeneration]
    /\ count = 0 /\ current = 0
    /\ suspended = FALSE
    /\ active = TRUE /\ gateway = 0 /\ rerun = FALSE /\ running = FALSE
    /\ pipe = [p \in Pipes |-> Idle]

DocumentStep(d) ==
    \/ Import(d) \/ Reanalysed(d) \/ ChangeAvailability(d)
    \/ \E quality \in {"ready", "degraded"} : PublishGraph(d, quality)

EngineStep ==
    \/ StartAfterImport \/ Open \/ OpenOther \/ Retire \/ Crash
    \/ \E x \in Items : PublishItem(x)

Next ==
    \/ \E p \in Pipes : Pipeline(p) \/ DatabaseError(p)
    \/ WorkerStep
    \/ \E d \in Docs : DocumentStep(d)
    \/ EngineStep

Spec == Init /\ [][Next]_vars

----------------------------------------------------------------------------
(* Properties.                                                              *)

TypeOK ==
    /\ registry \in [Docs -> 0..MaxCandidates] /\ available \subseteq Docs
    /\ graph \in [Docs -> {None} \cup [gen : 1..MaxCandidates, quality : {"ready", "degraded"}]]
    /\ \A d \in Docs : work[d].status \in {"none", "pending", "failed"} /\ work[d].revision \in Nat
    /\ count \in 0..MaxGenerations /\ current \in 0..count
    /\ \A n \in Generations :
          /\ generation[n].parent \in 0..(n - 1)
          /\ generation[n].state \in {"none", "identity_ready", "active", "direct", "superseded",
                                      "failed", "cancelled"}
          /\ generation[n].state = "none" <=> n > count
          /\ generation[n].owner \in Pipes \cup {None}
    /\ {suspended, active, rerun, running} \subseteq BOOLEAN /\ gateway \in 0..3
    /\ running <=> Worker.pc \notin {"idle", "restart"}

\* A generation that is not finished belongs to the thread that prepared it, which still
\* works on it, unless that thread was cut off by an error or a restart.
PendingIsWorkedOn ==
    \A n \in Generations :
        generation[n].state = "identity_ready" =>
            /\ generation[n].owner # None
            /\ \/ pipe[generation[n].owner].gen = n
               \/ env \cap {"db_error", "crash", "open", "other"} # {}

\* A thread never revives a generation that has failed, was cancelled or superseded, be it
\* by the recovery at the opening of the knowledge base or by another thread.
StaysTerminal ==
    \A n \in Generations :
        generation[n].state \in {"failed", "cancelled", "superseded"} =>
            generation'[n].state \in {"failed", "cancelled", "superseded"} /\ current' # n

\* What becomes current was made from the candidates that are current, of documents that
\* are available, and its pages, those carried on included, cite available documents only.
ActivatesCurrent ==
    current' # current /\ generation'[current'].state = "active" =>
        LET g == generation'[current']
        IN  /\ \A d \in InputDocs(g.inputs) : d \in available' /\ g.inputs[d] = registry'[d]
            /\ \A i \in Identities : \A c \in g.pages[i] : c[1] \in available'

\* When nothing fails, the candidates of a document whose work is done with are rendered in
\* the current page of every identity that it mentions: a change that comes while a
\* generation is under way is not consumed by it.
Undisturbed == env \subseteq {"graph"}
ConsumedIsRendered ==
    Undisturbed =>
        \A d \in Docs : registry[d] # 0 /\ work[d].status = "none" =>
            \A i \in Mentions[d] : <<d, registry[d]>> \in Parent.pages[i]

\* Queued work is served once the worker was started for it: a start that finds the worker
\* at its end, or at work with another gateway, is not forgotten.
Startable == env \cap {"open", "other", "retire", "crash", "db_error", "availability"} = {}
WaitsForWorker(d) ==
    /\ Startable /\ work[d].status = "pending" /\ gateway # 0
    /\ rerun \/ Worker.pc = "top"
WorkIsDone(d) == work[d].status # "pending"

\* publish_incremental_corpus_generation_in promises to preserve "every unaffected current
\* item".
UnaffectedItemsKept ==
    [][current' # current => Parent.items \subseteq generation'[current'].items]_vars

=============================================================================
