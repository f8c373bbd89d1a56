# OpenKB: formal models

OpenKB is a desktop application that imports documents into a knowledge base
(KB), analyses them with a language model and answers questions about them. The
Tauri shell (`src/desktop`) starts a Python engine (`src/openkb`), which keeps
all of its state in the SQLite database and the files of the KB that is open.
These TLA+ modules model the parts of the engine where several threads or
processes act on one state and a test could hardly produce the schedule that
matters: the requests of the shell and the switch of the KB, the locks of a KB,
the life of an import job, its analysis in parallel batches, the dispatch of
model calls, the background tasks that enrich what was imported, the retrieval
catalogue, conversations and streamed answers.

Contents: [the system](#the-system), [the modules](#the-modules),
[the runs](#the-runs), [fairness](#fairness), [findings](#findings),
[proofs](#proofs), [what is not modelled](#what-is-not-modelled),
[plan](#plan). `PROJECT.json` has, for every definition, the lines of the source
it models; for every property a mutation of the code that breaks it; and the
hazards the properties are aimed at.

    tlc -config Gates.cfg MCGates
    tlc -config Background.cfg MCBackground
    tlapm CorpusSynthesisProofs.tla

## The system

| component (src/openkb) | state | operations | hard behaviour | what makes it correct |
|---|---|---|---|---|
| locks (`locks.py`) | a condition with counts per process, a file lock, the depth held by each thread | read, write, bounded attempt, re-entry | two layers of locking, timeouts, refused file locks, death of a process | mutual exclusion, counts that do not drift, no lost wake-up, writers not starved by readers |
| import jobs (`importing/`, `engine/imports.py`) | rows of jobs, stages and checkpoints; job threads and their controls | create, resume, pause, cancel, complete, fail | a crash between any two transactions; controls that race with a run; a source that changes | one worker per job, nothing is done twice, what is published is whole and of one piece |
| deduplication (`importing/deduplication.py`) | raw assets, body hashes, canonical roots | D0 (same bytes) and D1 (same body) reuse | two jobs with one content at once; documents withdrawn meanwhile | documents are added once and stay, roots are canonical |
| quarantine and recovery (`quarantine.py`, `recovery.py`, `reparse.py`) | the quarantined stage of a job | isolate, recover, parse anew | a recovery that fails, is paused or dies | a quarantined document stays recoverable; no mixture of two parses |
| opening of a KB (`workspace/runtime.py`) | the same rows | turn interrupted jobs into recoverable ones | after a crash | no job shows as running without a worker |
| analysis in batches (`knowledge/analysis/`, `shared/parallel.py`) | rows of batches and merge nodes with their checkpoints; a pool of threads | plan, analyse, split, merge by levels, resume | a failure or a control while others run; a resumption beside a run that is still closing | batches are paid for once, merges come after what they merge, nobody works on behind its run |
| model dispatch (`models/dispatch.py`) | a concurrency gate per lane, a rate window, queues of tickets | enter, poll, call, release, cancel, configure | refusal by the second gate, cancellation anywhere, fairness | slots are never leaked, tickets never lost, documents take turns, answers do not wait for background work |
| operation contracts (`models/operation_state.py`, `result_failure.py`) | suspended contracts with revisions, permits with scopes | suspend, permit, mark ready, revoke | an answer that was under way before the suspension; a retry that dies | a suspension is lifted by a retry that was granted for it; no permit outlives its retry |
| page tree enrichment (`page_tree/enrichment*.py`, `engine/page_tree_enrichment.py`) | a task for each document, the current tree, a registered worker | queue, claim, write, publish, cancel, retry | restarts of a worker that is about to leave; rebuilt trees; other settings | results fit the tree they are published for, a retry is taken up, a worker rests |
| knowledge graph (`knowledge/graph/`, `engine/knowledge_graph.py`) | a task for each document, candidates, published graphs | the same, in batches of calls | the same | the same |
| corpus synthesis (`knowledge/corpus/`, `knowledge/pages/generations.py`, `engine/corpus_synthesis.py`) | a work queue, generations and the current one | enqueue, prepare, plan, complete, activate, recover | everything changes while a model plans | a generation is activated from the inputs that are current, or not at all; queued work is served |
| requests and KB transition (`engine/server.py`, `request_workers.py`, `workspace/transition.py`) | frames, a bounded pool, cancel events, the admission gate, leases, the import lock, the binding | admit, import, resume, open another KB, pause, cancel, shut down | requests that come while the KB is switched; the end of the input; failed activations | whoever works on a KB finds it bound until the end, every request is answered, a control reaches the thread it is meant for |
| conversations (`answers/conversations.py`, `answers/store.py`) | messages with immutable versions, the selected one | ask, regenerate, select, delete, recover | an opening while threads answer; a final write that fails | contexts are settled, a message shows its selected version, versions stay |
| streamed answers (`models/terminal.py`, `response_wait.py`, `active_streams.py`, `answers/grounded.py`) | attempts, a queue of chunks, the connection, the visible text | stream, retry, reset, guard, cancel | a provider that is silent or late, cancellation before a connection exists | what is stored is what was shown, attempts do not mix, no connection is left open |
| retrieval catalogue (`retrieval/catalog_store.py`, `catalog_lease.py`) | revision, generations, leases, one queued rebuild, a registered worker | change, rebuild, publish, lease, clean up | changes during a rebuild, workers that leave while asked again | a leased generation stays, the last change is published |
| reanalysis (`knowledge/reanalysis/`) | runs and jobs over published documents | create, run, retry | one lease, restarts | planned |
| ranking, page trees, parsers, export, evaluation | data | pure functions and I/O | none of the above | not modelled |
| settings, diagnostics, storage, shell, front end | - | I/O | - | not modelled |

How they interact. A job thread runs the stages of `runner.py` one after the
other, each result saved by a transaction of `store.py`. It holds
`import-runtime.lock` shared, which opening a KB takes exclusively, and
`ingest.lock` around publication. Analysis is a set of model calls that pass
the dispatch. Requests of the user reach a running job through its registered
control (an object the run tests between stages) and a job without a thread
through the database. Readers see documents only through the tables that the
publishing transaction writes. When an import is published, it starts the three
background workers: each has a registered thread that takes documents from a
queue in SQLite until there is none that it may work on, and leaves. They share
with the analysis of imports the operation contracts: a failure of one
combination of operation, model and prompt stops all calls of that combination,
until a user's retry gets a valid answer.

Every request of the shell enters through one reading thread and a pool of
eight; an import runs in a thread of its own behind a lease, which an activation
of another KB drains. Questions hold no lease: what they generate is stored by
a transaction of the conversation, if it is still there. Whatever changes
knowledge raises the revision of the catalogue in its own transaction and then
asks for the catalogue's worker.

## The modules

| module | models | composes |
|---|---|---|
| `RwLock` | what a KB lock promises (abstract) | - |
| `KbLocks` | `locks.py` | refines `RwLock` |
| `Publication` | what imports promise to readers (abstract) | - |
| `ImportJobs` | jobs, deduplication, recovery, opening of a KB | refines `Publication` |
| `AnalysisBatches` | the analysis of one import: batches, merges, its dispatch, its errors | `OperationLedger` |
| `ModelDispatch` | `models/dispatch.py` | - |
| `OperationLedger` | operation contracts and permits, as operators on a record | - |
| `PageTreeEnrichment` | page tree enrichment | `OperationLedger` |
| `KnowledgeGraph` | graph extraction | `OperationLedger` |
| `CorpusSynthesis` | generations of the corpus, their worker and their pages | - |
| `EngineServer` | requests, their workers, leases and the switch of the KB | - |
| `Conversations` | conversations, versions of answers, flat answers | - |
| `AnswerStream` | one answer from the provider to the shell | - |
| `RetrievalCatalog` | generations of the retrieval catalogue and their worker | - |
| `PageTreeEnrichmentProofs`, `KnowledgeGraphProofs`, `AnalysisBatchesProofs`, `CorpusSynthesisProofs` | theorems, see [proofs](#proofs) | the module they are named after |
| `GatesProofs` | theorems about locks and model gates | `KbLocks`, `ModelDispatch` |
| `RequestsProofs` | theorems about conversations, streams and the engine | `Conversations`, `AnswerStream`, `EngineServer` |
| `BackgroundProofs` | theorems about the catalogue, and about all of `background` | `MCBackground` |
| `ServicesProofs` | theorems about imports, and about all of `services` | `MCServices` |
| `MCGates`, `MCInterrupted`, `MCBackground`, `MCServices` | several instances in one run, chosen by the variable `part` | see [the runs](#the-runs) |
| `MCImportJobs`, `MCModelDispatch`, `MCCorpusSynthesis` | the constants of the other runs | the module they are named after |

A composite module has a variable `part` that never changes: a behaviour is one
of the instance that `part` names, and the variables of the others rest in one
state. A property of the composite is that of the part, so that one run answers
one question for every component that promises the same. `MCGates` extends
`KbLocks` and `ModelDispatch`, `MCBackground` extends `RetrievalCatalog` and
`MCServices` and `MCInterrupted` extend `ImportJobs`; the properties of these
components appear in the runs under their own names, which are the ones the
theorems state. `MCBackground` and `MCServices` instantiate the modules with the
proofs (which extend the components and change nothing), so that the invariants and
the lemmas of a component are those of its part (`Graph!IInv`,
`Requests!Engine!BindingIsStable`). `MCInterrupted` is one instance of `ImportJobs` whose jobs are
restricted by part: a job that does not belong to the part stays absent.

Definitions that begin with a comment "Near miss" are no part of a
specification. Each is a plausible mistake in the code, used to show that some
property would notice it.

**KbLocks.** A thread that acquires the lock passes the condition of
`_LocalRwLock` (`RequestRead`, `RequestWrite`, sleep, be woken, test again), then
the lock on the file, and then holds the lock; it lets go in the reverse order.
Each step is one critical section of the condition or one call of the operating
system. A timed attempt may expire at each of its waits, a file lock may be
refused, a process may die with all its threads. `held` is the thread-local
depth: re-entry counts without passing either gate, and an exclusive request
under a shared hold is an error that changes nothing, so it is no action. The
time of a deadline is left out: it may pass at any moment.

**ImportJobs.** One step is one committed transaction, together with the Python
code up to the next one. `job`, `stage`, `ckpt`, `quarantined`, `document` and
`docs` are the tables; `wk` is what the threads have in memory, `reg` the
registry of controls. A run is at a named point (`pc`) between two transactions,
where a failure, a crash, a control or another thread may intervene.
Abstractions:

* The bytes of a source are a model value and `BodyOf` its normalized body.
  Results of parsing and building evidence carry a fresh stamp for the
  identifiers they mint, so that combining the results of two parses shows. A
  stamp that nothing in the job refers to any more may be minted again; the
  bound on stamps therefore bounds what exists at once, not what is ever made.
* `import_jobs.status` and the lease columns always change with the runtime
  status and are left out. So are progress numbers and rows of `recovery_runs`,
  which only choose the parser.
* Where the code commits twice without a test in between, the two are one step:
  the commit of `set_stage` with the event that makes the control known, and the
  D0 lookup with the completion of its stage. The control is tested in the same
  step as the status of the job.
* A failure is a step that may happen at every point with a transaction, a parse
  or a call ("fail"), a quarantine only where a parser or the model decides
  ("isolate"). The write that records a failure may fail itself ("lose_write").
  What the analysis does inside is one step.
* `Env[j]` lists what may happen around the worker of job `j`, so that a run can
  afford what its question needs. The proofs are for every `Env`, or say which
  events they exclude.

**ModelDispatch.** A call polls the gate of its lane, then the limiter, calls the
provider and gives its slot back. Each round of a polling loop is one action,
since its condition variable is held throughout. The queues of tickets (`Rotor`)
follow the code, including that tickets compare by their group, so that a waiter
who gives up removes the first ticket of its group. A reservation leaves the
window at any time after it was made, oldest first. A retry is a new call; the
thread that a cancelled call leaves behind at the provider is not modelled;
limits that are absent are limits that are large.

**OperationLedger.** A ledger is a record of the suspended contracts and of the
permits. The code compares revision numbers that grow with each write; here a
permit is either good or spent, which is all a comparison can tell, so that
nothing has to be bounded. The operators follow the SQL: `MarkReady...` of a
retry changes a contract only while its permit is good, an unconditional
`Ready` always.

**AnalysisBatches.** Here an import has two other steps only. A worker is the
thread of a request (`pc`, `rank`) together with the threads of its pool
(`at[t]`, a phase for each batch or node). A step of a pool thread is one
transaction or one call. Pending, running and failed rows are treated alike by a
resumption, so that a row is its answer or `None`. `CanSubmit` is the loop of
`parallel_map_ordered`: the results that are there are collected together, then
as many are submitted, unless a thread has seen a failure. A split at the output
limit calls for one half after the other; halves are not split again. The
inventory of facts that may follow the last merge is part of `CompleteMerge`.

**PageTreeEnrichment, KnowledgeGraph.** A task is the row of its document:
status, scope of a retry, the model and the tree (or candidates) it is for. A
worker is at a named point of `_run_worker` or of `run_document`; between two of
them others act. What may happen is given by `Envs`, a set of sets of events,
one of which is chosen for a behaviour: all combinations of all events are
beyond TLC, but each pair that the hazards name is in one set. The summaries,
relations and their interpretation are data.

**CorpusSynthesis.** A generation is a record of its inputs, its items and its
status; the inputs are compared by what `corpus_manifest_compatibility_issues_in`
compares. `Commit` is the one transaction that renders and activates. Identities
that documents mention are given (`Mentions`), their resolution is data.

**EngineServer.** The reading thread (`reader`) admits frames, answers
cancellations itself and queues the rest for the pool; a handler is at a named
point (`pc[r]`) between two critical sections of `_active_lock`, the transition
gate, `_workspace_requests_lock` or a transaction. An import is a number of
stages here, at whose boundaries it honours its control. `Plans` gives the
requests that the shell sends in a behaviour, in any order.

**Conversations.** A message stands for a question and the assistant's message
to it. Each action is one transaction under the ingest lock; generating is what
lies between two of them, without a lock. An opening of the KB settles what
counts as generating although the threads go on, because answers hold no lease.

**AnswerStream.** The thread of the request and the daemon thread of each
attempt share a queue of chunks. A chunk is `<<attempt, ordinal>>`; the texts of
the citation guard and of the deterministic answer have attempt 0. The provider
may be silent, late, break off or be invalid at every point; the user may stop at
every point.

**RetrievalCatalog.** A generation is named by the revision it was built from,
since its identity is made of the revision and the contents. The registration of
the worker is in memory (`_WORKER_LOCK`), the rest in the database. What a
retrieval does is the choice of a generation, a pause, a lease, and its end.

## The runs

| run | instance | question |
|---|---|---|
| `gates` | locks: 3 threads of one process and 1 of another, depth 2; turns: calls of documents A, A, B, C and a question, 1 slot, limits that change; slots: the number of slots changes, too; cancelling: 2 calls of A, 1 of B and a question, with cancellation | Is the lock a readers-writer lock whatever times out, fails and crashes, and does a waiting writer get in? Are slots and tickets neither lost nor doubled, do documents take turns, and do answers get through? |
| `interrupted` | two: 2 jobs with any of 2 contents of one body, 2 workers, with pause, cancel, configuration missing, edits, failures, crashes; recovery: 1 job with quarantine, recovery, failures, crashes; repair: 1 job with quarantine, parsing anew, pause, cancel, edits, lost gates, crashes, lost failure records | Is every job run by one worker, nothing done twice, can a quarantined document always be recovered, and is what is published made of one parse? |
| `background` | enrichment of 1 document by 2 workers under 2 models; graphs of 2 documents; each with 4 events of one of the sets of `SummaryEnvs` and `GraphEnvs`; an analysis of 2 batches and a node, or of 3 batches and 2 levels, 2 in parallel, with 2 requests; a catalogue of 3 revisions with 2 workers, 2 callers and a retrieval; 2 undisturbed imports | Is nothing left behind, nothing outdated or incomplete published, is a retry taken up, and do all come to rest? |
| `services` | imports: 3 jobs with 2 or 3 contents of one body, 2 workers, with withdrawal, lost failure records and late cancellations; synthesis: 2 documents, 2 identities of which both or one is mentioned, 8 generations, 4 events of one set; engine: 8 requests in 7 plans, a pool of 3, 2 stages, 2 KBs; chat: 4 requests on one conversation, a context of 1 turn; stream: 3 attempts of at most 2 chunks | Do readers see whole publications only, do documents stay and roots stay canonical? Is a generation activated from current inputs only? Is a KB bound as long as it is worked on, is every request answered, and is what is shown what is stored? |
| `mixed`, `cancelled`, `gate_lost`, `cancelled_task`, `graph_retry`, `engine_cancel`, `answers`, `items` | the smallest instance that shows it | [findings](#findings) |

Why the bounds are enough. Locks: a wake-up can be lost between a reader, a
writer that waits and one that holds, and the fourth thread brings contention
for the file lock from outside; depth 2 has every combination of an inner and
an outer hold. Dispatch: taking turns needs two groups, one of them with two
waiters; that a group is passed over for ever needs three. Imports: a race for a
content needs two jobs; a chain of roots that is too deep needs three documents,
and three jobs to bring them, and no step involves more than two workers. Where
a job is recovered or parsed anew jobs do not interact, so one is enough, while
the sequence of recoveries is not bounded. Stamps never run out: the checkpoints
and the runs at work refer to few results at once, and a step that parses needs a
stamp that is free; `MaxInUse` bounds how many of them the recoveries of a job
leave behind. Analysis: with two in parallel, one fails while the other runs, and
of three one has not begun; the second level of the merge depends on a batch that
is not of the level below; two requests bring a resumption beside a run that is
closing, and a recovery that is cancelled. Background: `MaxEvents` counts the
steps of users and of other components only, never those of a worker; four allow
a failure, a retry, and something that comes between the retry and its end. A
worker has one document at a time; two documents show that it goes on to the
next. Catalogue: a change before, during and after a rebuild are three revisions;
the registration is contended by a worker that leaves, one that comes and two
callers. Synthesis: a generation, one that was prepared before it and one after
it are three; the bound of eight leaves room for those of a reanalysis. Engine:
with a pool of three a request waits for a worker behind two imports and an
opening (`DEFAULT_MAX_REQUEST_WORKERS` is 8 in the code); each plan has the
requests that one of the hazards names. Chat: a version that is regenerated twice
beside a question needs four requests; a context of one turn stands for one of four
turns (`LIMIT 4` in `conversations.py:617`), and the theorems are for any. Stream: three
attempts are those of the code, two chunks tell an attempt that has begun from
one that is complete. Most of these bounds matter for liveness and for the
findings only: the safety properties of the runs that pass are proved, for every
value of the constants of the components ([proofs](#proofs)).

Symmetry is used in `interrupted` only, which checks no liveness: over workers,
which differ in nothing, over the two jobs of the first part and over two contents
of one body. Deadlock is not checked where all may have come to their end, or
where every signal may be set: in all runs but `gates`.

## Fairness

* Locks: a thread that is able to go on does (weak fairness of its own
  steps). Leaving the lock and the passing of deadlines are strongly fair, since a
  `with` block ends and time passes. Nothing is assumed of the operating
  system's file lock: `WritersNotStarvedByReaders` has as a premise that each
  request for it ends.
* Dispatch: waiters poll every 0.05 s (`Condition.wait(timeout)`), the rate
  window passes. Nothing is assumed of the provider, since a call has a timeout for
  connecting only; `BackgroundIsServed` has as premises that calls end and that
  questions stop coming, and says so.
* Imports: a job thread runs on (weak fairness of `Work`). No request has to
  come; in the part of `background` that asks whether imports end, nothing fails.
* Engine: the reading thread and the workers run on, and each stage of an import
  ends: that a stage may take minutes only delays those who wait for it. Frames
  need not come.
* Conversations: a thread that answers comes to its end, as a stream does.
* Streams: the thread of the request runs, its waits are bounded
  (`response_wait.py` polls), and the thread of a provider goes on only as long
  as something arrives. A provider may be silent for ever; that a stopped request
  ends does not depend on it.
* Catalogue: a worker and a caller that have begun go on.
* Background workers: a thread that was started runs on, and calls end (here the
  question is whether the worker itself stops; a call that hangs holds it up for
  as long as it hangs). A request that has written its retry goes on to start the
  worker, an import or a reanalysis that has queued a task as well; a rebuild that
  has begun ends. Events are bounded and never assumed to come.
* Analysis: the threads of a run are scheduled and calls end.

## Findings

Eight runs state what the repository's documents, comments or tests say, and show
an execution in which the code does otherwise (`PROJECT.json` quotes the lines).

* `mixed` - `IrOfItsRawAsset`. When the saved raw asset cannot be loaded, the job
  is isolated at `raw_asset`. The next recovery reopens this stage alone, reads
  the user's file again, whatever is in it by now, and goes on with the parsed
  document, the evidence and the tree of the earlier bytes.
* `cancelled` - `CancelledIsUnpublished`. `cancel_paused_job` reads the status,
  picks a stage and writes, in three transactions. A resume in between may run to
  its end; then a document is published and its job counts as cancelled.
* `gate_lost` - `RunningIsWorkedOn`. If the capability gate is lost during an
  analysis, the error raised is one that the handler takes for already recorded,
  and nothing records it: the job shows as running, without a thread, and can be
  neither resumed nor cancelled until the KB is opened again.
* `cancelled_task` - `WaitersAreQueued`. Tickets of one group are equal, so a
  waiter that gives up takes the ticket of the first of its group. If the two
  have signals of their own, the other waits for ever, and the ticket left behind
  keeps the turn of its group. Calls of one import job share their signal; there
  the property holds (`gates`).
* `graph_retry` - `SuccessfulRetryClears`. A retry of a graph publishes it and
  revokes its own permit in one transaction (`tasks.py:425`); the contracts are
  marked ready after that, which without a permit changes nothing. A retry that
  succeeded leaves the suspension it was made for, and every other document
  stays blocked.
* `engine_cancel` - `CancellationIsTruthful`. `engine.cancel` decides under the
  lock of the requests that its target is no mutation yet, leaves the lock, sets
  the event and reports the target as cancelled. In between the target may begin
  its mutation, which then takes place.
* `answers` - `OneAnswerAtATime`. Selecting a version of a message that is being
  regenerated, or opening the KB again, settles the message while its thread goes
  on. A second answer of the conversation may then begin, although one is to be
  generated at a time.
* `items` - `UnaffectedItemsKept`. A generation copies the items of the one that
  is current when it is prepared. What is published directly while a model plans
  (an import without a model, a decision of the user) goes to the current
  generation; the planned one is then activated without it
  (`synthesis_generation.py:452`).

The passing runs leave out the event that a finding needs ("gate_lost" and late
cancellations where the property is about what they break, and edits of a source
that is recovered without being parsed anew), so that they show that nothing else
breaks their properties; `Unspoiled`, `NoLateCancel` and `NotMixed` name these
exclusions in properties and theorems. Two more limits of the same kind: while the
record of a failure is lost, or a document is withdrawn, a job may show as running
without a thread, or as quarantined without a way out, until the next opening
(`fail_job` logs the loss and goes on); and a recovery that follows a resumption or a
crash may reopen a stage before the saved evidence and leave a tree of the earlier
evidence, which the publication notices and queues to be built again
(`page_tree/store.py:72`): `CoherentPublication` speaks of jobs that are not
recovered in this way.

What else was seen while modelling, and is no finding because no line of the
repository promises otherwise, or only in part:

* Resuming tests the status of a job only. A pause that one batch honours sets
  the job paused while others still run, so that a resumption may run beside the
  run that is closing; that one may then set the job paused again under its new
  worker. The runs show that the answers survive it (`ResultsArePublishedInTurn`),
  and that the rows are not written twice.
* The answers of imports and reanalyses mark their contracts ready without
  testing a permit (`AnalysisBatches.Valid`): a call that was under way before a
  suspension lifts it. docs/adr/0046:8 says "The unchanged suspended combination
  resumes only by explicit retry"; `SuspensionsAreLiftedByRetries` is checked for
  enrichment and graphs, which test the permit.
* A cancelled import may end as paused, when the first error that is collected is
  the interrupted call of another batch.
* An import that meets a suspended contract is failed without a quarantine row
  (`mark_failed` returns at once outside a recovery), while the error suggests to
  "explicitly recover this import", for which a row is needed.
* The permits of an import's recovery have the job as their scope, and the end of
  an earlier recovery of the same job revokes those of a later one.
* With a late cancellation of a quarantined job, a recovery may begin while the
  thread that the cancellation came too late for still runs: two workers have
  one job. The proofs of exclusive runs need `NoTakeOver` for this reason.
* A shutdown pauses the imports that are registered; one that has its lease but
  has not recorded its first stage (`server.py:137`) is not, and runs to its end
  unless the shell goes.
* Requests to pause or to cancel an import queue in the pool behind other
  requests, and opening the KB that is open holds `_workspace_requests_lock` until
  its running imports have ended.
* A cancellation of an import is accepted although its thread has paused the job
  already. The imports of a batch that have not begun when the KB is switched go to
  the new KB.
* A message whose final write fails counts as generating until the KB is opened
  again. An empty final result of a provider is not tried again.
* The `finally` of a catalogue worker (`catalog_store.py:648`) may forget the
  registration of the worker that came after it; the properties exclude this
  ("slow_exit") where a property speaks of one worker.
* A reanalysis whose gate is not verified, or that cannot be begun, leaves its job
  pending without a worker, and the permits of a retry are revoked by the first
  worker that ends, whoever they were granted for.

## Proofs

TLAPS checks the following for every value of the constants. Each component has an
inductive invariant `IInv` (`DispatchIInv`, `StreamIInv`, `EngineIInv`) that TLC has
checked on the instance of its run before it was proved, a lemma for each action (or
for each group of actions that do the same to the state), and theorems that read the
properties of the runs off it. All safety and action properties of the passing runs are
proved, some of them under the hypotheses named below, which the constants of the run
satisfy.

The assumptions are those that the modules state about their constants
(`ThreadsAssumption`, `ImportAssumption`, `EnvAssumption`, `StageAssumption`,
`DispatchAssumption`, `EnrichmentAssumption`, `GraphAssumption`, `AnalysisAssumption`,
`CorpusAssumption`, `CatalogAssumption`, `StreamAssumption`, `ConversationAssumption`,
`EngineAssumption`), which TLC evaluates in the runs, and the hypotheses named below.
Besides finiteness and positive bounds they say that the value `None`, which stands for
SQL's NULL and Python's None, is none of the values of a column (`None \notin Graphs`,
`None \notin Answers`, ...), that there is a model to extract with (`Models # {}`), and
that the plan of an analysis has a last level. A property whose definition has a premise
about the environment (`Calm`, `Undisturbed`, no "reanalysis") is proved with
that premise.

**Locks** (`GatesProofs`, first part): types, `SlotCounts`, `NoLostWakeup`, `MutualExclusion`
and the refinement of `RwLock`, for any finite set of threads, any processes and
any depth. Mutual exclusion is not inductive: it rests on the agreement of each
thread's phase with its depth and its file handle (`Phases`), and on the file lock
being a readers-writer lock between handles (`FileSafe`); both are kept whatever
the in-process counts are, so exclusion does not depend on them. The counts are
proved separately: a step moves one thread between the sets that the counters
count, a crash empties those of a process (`OneMove`, `SetsStep`, `SizesStep`). No
lost wake-up follows from the counts: a condition becomes true only in steps that
notify. The refinement maps a thread to the mode of its outermost acquisition
while it is "in".

**Gates** (`GatesProofs`, second part): types, `SlotsAreOwned`, `QueuesMatchWaiters`,
`TicketsMatchWaiters` and the action property `TurnsAlternate`, for any calls,
groups and limits. The invariant says what a rotor looks like: the queue of ready
groups has no repetition and holds exactly the groups with tickets, a group has as
many tickets as waiters, and the slots in use are those of the calls between the
gate and their release. That every waiter has its *own* ticket needs
`SignalsAgree`, that calls of one group stop together; without it the statement
is false (`cancelled_task`). What the community modules' `RemoveFirst` does to a
sequence without repetition is stated by the first lemmas of the module.

**The library of imports** (`ServicesProofs`, first part): `CompletedIsPublished`,
`CanonicalRoots` and `LibraryOnlyGrows`, in every environment. That a worker may
link a job to a document, or a document to a root, rests on what it found several
transactions ago, while others publish and withdraw. `IInv` therefore says for each
point of a run what its thread may rely on (`ThreadOk`): on the D0 branch that the
bytes have a document, on the D1 branch that the document found has the body of
this one. The one fact that makes this work is that documents only grow
(`GrowthKeepsThreads`): they may be withdrawn, but keep content and root. There is
one lemma for each action, over a frame lemma for the steps that leave the library
alone (`Quiet`) and one for those that extend it (`Compose`).

**Who runs a job** (`ServicesProofs`, second part): `OneWorkerPerJob`,
`WorkIsAttended`, `CancelledIsUnpublished` and the refinement of `Publication`. Every
step has one of few kinds (`StepsHaveKinds`): a thread begins a job that nobody has,
a thread proceeds with its own job, a thread completes it with a document, or nobody's
run is concerned; each statement is then proved once for each kind. `RunsInv` says that
one thread has a job, that its row shows so, and that what has a document has
ended. It needs that a job which can be cancelled late is not recovered too
(`NoTakeOver`); `OneWorkerPerJob` and `CancelledIsUnpublished` need that there are no
late cancellations (`NoLateCancel`), and the run `cancelled` shows why.

**What a run may rely on** (`ServicesProofs`, third part): `TypeOK` in every environment;
`FinishedWorkIsReused` and `QuarantineCanBeLeft` under `NoLateCancel`; and
`ImportsAreCoherent` under `NoLateCancel` and `NotMixed` (no job is both edited and
recovered, the premise the run `mixed` shows to be needed). Three invariants are
proved together. `TypeInv`: besides types, that a point of a run which uses a result
has one. `ReuseInv`: what has a checkpoint counts as done (`Kept`), the chain of
checkpoints has no gap and each names the one it was made on (`Chained`), a
thread works only on what is not done (`Works`) and holds what is saved (`Holds`); a
recovery without a new parse may open a gap, so that the chain is claimed for jobs that
are not recovered in this way. `SourceInv`: the source of a job that is not edited is
the only one its checkpoints and its thread know. These are facts about a row and
about one thread; that other threads keep them is `RunStep`, which rests on
exclusive runs.

**Catalogue** (`BackgroundProofs`, first part): `CatalogIsKept`, the action property
`PublishesLast`, `RebuildIsWorkedOn` and `TypeOK` (one worker at a time), for any
workers, callers, retrievals and revisions. What is published rests on the row of the
rebuild asking for the revision of the state row, and on a claim that still holds
having been made for it. That a queued rebuild is not forgotten rests on a caller on
its way, a worker about to claim, or a request for another round (`WorkInv`).

**Page tree enrichment** (`PageTreeEnrichmentProofs`): `TypeOK`, `PermitsHaveOwner`,
`RunningIsWorkedOn`, `CompletedHasSummaries` and the action properties `PublishedInTurn`
and `LiftedByRetry`, for any documents, models, threads and scopes, whatever of `Events`
may happen. The row of a task, the ledger of contracts and the thread that has claimed the
task are written in different transactions; two facts make them fit. A permit, good or
spent, has a task *row* with its scope (`PermitsInv`; `PermitsHaveOwner` would be content
with a thread, which may never come to revoke it). And a row that is still the claim of a
thread has the scope this thread will revoke (`ClaimOk`). The first lemmas say what the operators
of the ledger do: a suspension adds no permit, a valid answer lifts no more than its own
permit is for, a revocation leaves nothing under its scope. Then every step is shown to
have few effects (`Effects`): a row rests, is claimed, or is written in a state that
nobody holds, with the permits of its old scope gone; a thread keeps its claim, makes one,
or lets go of a row that it no longer holds for the current tree. That this keeps the
invariant is proved once (`EffectsKeep`).

**Knowledge graph** (`KnowledgeGraphProofs`): `TypeOK`, `PermitsHaveOwner`,
`RunningIsWorkedOn`, `CompletedHasGraph` and the action properties `PublishedInTurn` and
`LiftedByRetry`, for any documents, models, threads, scopes and number of candidates. The
hard one is `CompletedHasGraph`: an extraction that returns neither a graph nor a failure
is recorded as completed (`run_document`, `tasks.py:369`). That this never marks a document
as done that has no graph is not seen in that function. `ClaimOk` says what a thread may
rely on while the row it has claimed is still its own: whatever would stop the extraction
after the check (a cancellation, another worker, another model) also takes the row away, so
that an extraction which ends empty-handed has lost its row or has failed. It needs that
the gateway of a worker is for the model that is verified (`GatewaysInv`), which holds as
long as the settings are left alone (`Calm`); the hazard at `graph/service.py:67` is what
happens otherwise, and `CompletedHasGraph` has this premise. For `RunningIsWorkedOn` and the
permits the argument is that of the enrichment.

**Analysis in batches** (`AnalysisBatchesProofs`): `TypeOK`, `PermitsHaveOwner`,
`RunningIsWorkedOn`, `CompletedHasResult` and the action property `InTurn`, for any plan of
batches and merge nodes, any imports, and any number of runs of one import at once. A run
trusts what it fetched when it began, while another run of the same import, closing, may
still write. `Agrees` says that what a run has got is what the rows hold, for an answer is
never written twice; `HasGot`, that a run which has gone on to a level has got all
answers below it, from which it follows that a result of the stage is made of all of them
(`WholeInv`). `RunningIsWorkedOn` rests on a run whose errors are no control of the user
still having to set the status (`Decides`). The bound on the batches under way is an
argument about cardinalities: what is submitted was owed before.

**Corpus synthesis** (`CorpusSynthesisProofs`): `TypeOK`, `PendingIsWorkedOn`,
`ConsumedIsRendered` and the action properties `StaysTerminal` and `ActivatesCurrent`, for
any documents, identities, items, mentions and number of generations. A thread may return
to a generation that an opening of the KB has taken from it: what it holds has then failed,
and stays so (`ThreadsInv`, `Prepared`). `ConsumedIsRendered` is the deepest: a revision
leaves the queue only with a generation that cites it, although the queue was listed, the
inputs captured and the pages rendered in three transactions, between which imports and
graphs go on. `CalmInv` follows a revision through these points: as long as the queue holds
the revision that was listed, the document has the candidates the generation was prepared
from. Like the property it is about behaviours in which nothing else disturbs the pipeline
(`Undisturbed`).

**Streams** (`RequestsProofs`, second part): `TypeOK`, `ShownIsStored`, `AttemptsAreNotMixed` and
`ConnectionsAreOwned`, for any number of attempts and chunks. The answer service and the
shell each keep what is shown; `InStep` says how the two differ between a reset and the
first chunk of the next attempt, and `Tags` that a text has chunks of one attempt.

**Conversations** (`RequestsProofs`, first part): `TypeOK`, `ContextIsSettled`, `StatusIsOfSelected`,
`GeneratingIsWorkedOn` and the action property `AnswersAreKept`, for any requests and
contexts of any length. Until a conversation is deleted its messages only grow, so that
a context is as good when it is used as it was when it was read; and a message whose
first answer is being generated has no version, so that nobody else can work on it
(`FirstsInv`).

**Engine** (`RequestsProofs`, third part): `TypeOK`, `BindingIsStable` and
`RunningImportHasItsControl`, for any requests, KBs and size of the pool. One activation
is under way at a time and no lease is given meanwhile; when it takes the lock there is
no lease on another KB than the one it opens; only the holder of the lock binds; and a
running job is in the hands of one import that holds a lease (`LockInv`, `LeasesInv`,
`JobsInv`).

**All background threads** (`BackgroundProofs`, second part) and **all services**
(`ServicesProofs`, last part): the composite properties of the runs `background` and
`services`, as theorems of their specification `MCSpec`: `BackgroundTypeOK`,
`BackgroundPermitsHaveOwner`, `BackgroundRunningIsWorkedOn`, `CompletedHasResult`,
`ResultsArePublishedInTurn`, `SuspensionsAreLiftedByRetries`; `ServicesTypeOK`,
`WorkHasItsOwner`, `BindingIsStable`, `ConsumedIsRendered`, `ShownIsStored`,
`ContextIsSettled`, `TerminalStays`, `ActivationIsCurrent`. `PartInv` says that the
component that `part` names keeps its inductive invariant. Two things are to be shown of each
part: that a step of it is a step of the component, the variables of the others resting, and
that the constants that the composite gives it satisfy the component's assumption, which is
what `BackgroundAssumption` and `ServicesAssumption` state. The constants of the enrichment,
the graph and the catalogue are those of `MCBackground` and remain arbitrary; the plan of
the analysis, and the instances of `MCServices` but the imports, are given by the composite,
and for them the theorem that holds for every value is the component's own
(`BatchesInTurn`, `CorpusActivatesCurrent`, `ContextsAreSettled`, `BindingStays`, ...).

`PROJECT.json` lists the results a reader should know of. Theorems about the types and
about single parts that a composite theorem covers are in the modules only.

Only model-checked:

* Liveness (`WritersAreNotStarved`, `AnswersNeedNoBackground`, `BackgroundIsServed`,
  `RetryIsServed`, `WorkerComesToRest`, `RequestsAreServed`): it rests on fairness and
  ENABLED, which TLAPS does not handle.
* The findings: that a property is violated is shown by TLC's execution.
* The effect of functions that recur over data (sums over the rate window, choosing the
  context among the turns beyond what `ContextIsSettled` says): this needs induction over
  operators, which the installed provers cannot do. No module that a proof uses has a
  RECURSIVE operator.

## What is not modelled

* Pure computation: parsing, page trees, the plan of an analysis into batches and the
  inventory of facts, ranking, export. They are sequential functions of data that tests
  reach.
* SQLite: a transaction is atomic and durable. That each is one transaction was
  read off the code.
* The adapters of providers: a call or a stream behaves as `AnswerStream` says, or, where
  nothing is streamed, ends or hangs.
* Diagnostics, task projections, the user interface, the process that starts the engine.
* Image, version and block side tables of a publication: written in the same
  transaction as the document, and no other state depends on them.
* The records of attempts of a model call (`importing/model_ledger.py`), which nothing
  reads back into a decision.

## Plan

1. `Reanalysis`: preview generations of published documents, in runs of one job each, with
   one lease and restarts (`knowledge/reanalysis/`).
2. `ModelConfiguration`: settings, capability checks and the analysis gate
   (`models/capability_check.py`, `analysis_gate.py`), which the other modules take as a
   condition that may not hold.
3. Knowledge pages: the revisions of a user and their projection into files; conflicts that a
   user reviews (`knowledge/pages/service.py`, `knowledge/reconciliation/`).
4. Document versions, and what withdrawing a source does to them (`documents/`).
5. The protocol between the shell and the engine as the shell sees it, with the death of the
   engine (`src/desktop`).
