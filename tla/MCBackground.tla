---------------------------- MODULE MCBackground ----------------------------
(***************************************************************************)
(* The threads that an engine starts and that have to come to an end: a    *)
(* behaviour is one of page tree enrichment, one of the knowledge graph,   *)
(* one of an analysis in batches, one of the retrieval catalogue, or one   *)
(* of two imports, which may be duplicates.  They have no state in common  *)
(* but the configured model and the operation contracts, so that a run of  *)
(* each is enough; the properties are the same where the code promises the *)
(* same.                                                                   *)
(***************************************************************************)
EXTENDS RetrievalCatalog

CONSTANTS
    Docs, Models, Scopes, MaxTree, MaxEvents, SummaryEnvs,  \* the constants of PageTreeEnrichment
    MaxCandidates, GraphDocs, GraphEnvs,                    \* those of KnowledgeGraph
    Jobs, Bytes,                                            \* those of ImportJobs
    AnalysisJobs, MaxRequests,                              \* those of AnalysisBatches:
    TreeEnvs, ChainEnvs                                     \*   with one node, with two levels

VARIABLES
    part,
    available, task, ledger, settings, verified, active, gateway, rerun, registered, cancelled,
    thread, importer, retrying, events,
    tree, rebuilding, overlay, registry, graph, latest,
    source, job, stage, ckpt, quarantined, document, docs, open, wk, reg, cancelling,
    answer, merged, analysis, run

\* The instances are of the modules with the proofs, where there are some, whose theorems hold
\* of these parts.
Summaries == INSTANCE PageTreeEnrichmentProofs WITH Envs <- SummaryEnvs
Graph == INSTANCE KnowledgeGraphProofs WITH Docs <- GraphDocs, Envs <- GraphEnvs
Import == INSTANCE ImportJobs WITH
    BodyOf <- [b \in Bytes |-> "x"], Stamps <- {1, 2}, Sources <- [Jobs -> Bytes],
    Env <- [j \in Jobs |-> {"edit"}]

\* Two batches and one merge, ...
OneNode == INSTANCE AnalysisBatchesProofs WITH
    Jobs <- AnalysisJobs, Envs <- TreeEnvs, MaxEvents <- MaxRequests, Batches <- 2, Maximum <- 2,
    Children <- [n \in {3} |-> {1, 2}], Level <- [n \in {3} |-> 1]

\* ... or three batches, the last of which is merged at the second level only.
TwoLevels == INSTANCE AnalysisBatchesProofs WITH
    Jobs <- AnalysisJobs, Envs <- ChainEnvs, MaxEvents <- MaxRequests, Batches <- 3, Maximum <- 2,
    Children <- [n \in {4, 5} |-> IF n = 4 THEN {1, 2} ELSE {3, 4}],
    Level <- [n \in {4, 5} |-> IF n = 4 THEN 1 ELSE 2]

ASSUME BackgroundAssumption ==
    /\ Summaries!EnrichmentAssumption /\ Graph!GraphAssumption /\ CatalogAssumption
    /\ OneNode!AnalysisAssumption /\ TwoLevels!AnalysisAssumption

workers == <<available, task, settings, verified, gateway, rerun, registered, cancelled,
           importer, retrying, active, thread>>
common == <<workers, ledger, events>>
graphOnly == <<registry, graph, latest>>
treeOnly == <<tree, rebuilding, overlay>>
shared == <<job, quarantined>>
importOnly == <<source, stage, ckpt, document, docs, open, wk, reg, cancelling>>
batchOnly == <<answer, merged, analysis, run>>
imports == <<shared, importOnly>>
catalogOnly == <<revision, current, stale, generations, rebuild, registration, worker, caller, reader>>
all == <<part, env, common, graphOnly, treeOnly, imports, batchOnly, catalogOnly>>

NoTree == tree = None /\ rebuilding = None /\ overlay = None
NoGraph == registry = None /\ graph = None /\ latest = None
NoJobs == job = None /\ quarantined = None
NoImport ==
    /\ source = None /\ stage = None /\ ckpt = None /\ document = None /\ docs = None
    /\ open = None /\ wk = None /\ reg = None /\ cancelling = None
NoBatches == answer = None /\ merged = None /\ analysis = None /\ run = None
NoCatalog ==
    /\ revision = None /\ current = None /\ stale = TRUE /\ generations = {}
    /\ rebuild = [status |-> "none"] /\ registration = None /\ worker = None /\ caller = None
    /\ reader = [r \in Readers |-> Resting]
NoWorker ==
    /\ available = None /\ task = None /\ settings = None /\ verified = None /\ gateway = None
    /\ rerun = None /\ registered = FALSE /\ cancelled = None /\ importer = None
    /\ retrying = None /\ active = None /\ thread = None

MCInit ==
    \/ part = "enrichment" /\ Summaries!Init /\ NoGraph /\ NoJobs /\ NoImport /\ NoBatches /\ NoCatalog
    \/ part = "graph" /\ Graph!Init /\ NoTree /\ NoJobs /\ NoImport /\ NoBatches /\ NoCatalog
    \/ /\ part = "imports" /\ Import!Init /\ NoWorker /\ NoTree /\ NoGraph /\ NoBatches /\ NoCatalog
       /\ ledger = None /\ env = None /\ events = None
    \/ /\ part = "one node" /\ OneNode!Init
       /\ NoWorker /\ NoTree /\ NoGraph /\ NoImport /\ NoCatalog
    \/ /\ part = "two levels" /\ TwoLevels!Init
       /\ NoWorker /\ NoTree /\ NoGraph /\ NoImport /\ NoCatalog
    \/ /\ part = "catalog" /\ Init
       /\ NoWorker /\ NoTree /\ NoGraph /\ NoJobs /\ NoImport /\ NoBatches
       /\ ledger = None /\ events = None

OfEnrichment == part = "enrichment" /\ UNCHANGED <<part, graphOnly, imports, batchOnly, catalogOnly>>
OfGraph == part = "graph" /\ UNCHANGED <<part, treeOnly, imports, batchOnly, catalogOnly>>
OfImports ==
    /\ part = "imports"
    /\ UNCHANGED <<part, env, common, graphOnly, treeOnly, batchOnly, catalogOnly>>
OfBatches == UNCHANGED <<part, workers, graphOnly, treeOnly, importOnly, catalogOnly>>
OfCatalog == part = "catalog" /\ UNCHANGED <<part, common, graphOnly, treeOnly, imports, batchOnly>>

MCNext ==
    \/ OfEnrichment /\ Summaries!NextState
    \/ OfGraph /\ Graph!Next
    \/ OfImports /\ Import!Next
    \/ part = "one node" /\ OneNode!Next /\ OfBatches
    \/ part = "two levels" /\ TwoLevels!Next /\ OfBatches
    \/ OfCatalog /\ Next

\* Each thread goes on ...
Works(w) ==
    \/ OfEnrichment /\ Summaries!WorkerStep(w)
    \/ OfGraph /\ Graph!WorkerStep(w)
    \/ OfImports /\ Import!Work(w)
    \/ part = "one node" /\ OneNode!Work(w) /\ OfBatches
    \/ part = "two levels" /\ TwoLevels!Work(w) /\ OfBatches
    \/ OfCatalog /\ WorkerStep(w)

\* ... and a request that has begun is brought to its end.
Starts ==
    \/ OfEnrichment /\ Summaries!StartAfterImport
    \/ OfGraph /\ Graph!StartAfterAnalysis
    \/ \E c \in Callers : OfCatalog /\ CallerStep(c)
Retries == (OfEnrichment /\ Summaries!RetryStart) \/ (OfGraph /\ Graph!RetryStart)
Prepares == (\E d \in Docs : OfEnrichment /\ Summaries!EndRebuild(d)) \/ (OfGraph /\ Graph!QueueTask)

MCSpec ==
    /\ MCInit /\ [][MCNext]_all
    /\ \A w \in Workers : WF_all(Works(w))
    /\ WF_all(Starts) /\ WF_all(Retries) /\ WF_all(Prepares)

\* One worker at a time, exactly while it is registered; as many batches as are allowed.
BackgroundTypeOK ==
    CASE part = "enrichment" -> Summaries!TypeOK
      [] part = "graph" -> Graph!TypeOK
      [] part = "one node" -> OneNode!TypeOK
      [] part = "two levels" -> TwoLevels!TypeOK
      [] part = "catalog" -> TypeOK
      [] OTHER -> TRUE

\* No path leaves a permit behind that no task, and no recovery, will use or revoke.
BackgroundPermitsHaveOwner ==
    CASE part = "enrichment" -> Summaries!PermitsHaveOwner
      [] part = "graph" -> Graph!PermitsHaveOwner
      [] part = "one node" -> OneNode!PermitsHaveOwner
      [] part = "two levels" -> TwoLevels!PermitsHaveOwner
      [] OTHER -> TRUE

\* A task that counts as running is in the hands of a worker, a batch in those of a thread
\* that its import waits for.
BackgroundRunningIsWorkedOn ==
    CASE part = "enrichment" -> Summaries!RunningIsWorkedOn
      [] part = "graph" -> Graph!RunningIsWorkedOn
      [] part = "one node" -> OneNode!RunningIsWorkedOn
      [] part = "two levels" -> TwoLevels!RunningIsWorkedOn
      [] part = "catalog" -> RebuildIsWorkedOn
      [] OTHER -> TRUE

\* A completed task has its result; a completed analysis is made of all its batches.
CompletedHasResult ==
    CASE part = "enrichment" -> Summaries!CompletedHasSummaries
      [] part = "graph" -> Graph!CompletedHasGraph
      [] part = "one node" -> OneNode!CompletedHasResult
      [] part = "two levels" -> TwoLevels!CompletedHasResult
      [] OTHER -> TRUE

\* Results are published for the tree, and for the candidates, that are current; merges come
\* after the batches they merge, and no answer is asked for twice.
ResultsArePublishedInTurn ==
    [][CASE part = "enrichment" -> Summaries!PublishedInTurn
         [] part = "graph" -> Graph!PublishedInTurn
         [] part = "one node" -> OneNode!InTurn
         [] part = "two levels" -> TwoLevels!InTurn
         [] OTHER -> TRUE]_all

\* A suspension is lifted by the valid answer of a retry that was granted for it.
SuspensionsAreLiftedByRetries ==
    [][CASE part = "enrichment" -> Summaries!LiftedByRetry
         [] part = "graph" -> Graph!LiftedByRetry
         [] OTHER -> TRUE]_all

\* A retry that was accepted is taken up, whatever the worker was doing at the time.
Awaited(d) ==
    \/ part = "enrichment" /\ d \in Docs /\ Summaries!RetryIsPending(d)
    \/ part = "graph" /\ Graph!RetryIsPending(d)
Served(d) ==
    \/ part = "enrichment" /\ d \in Docs /\ Summaries!RetryIsTaken(d)
    \/ part = "graph" /\ Graph!RetryIsTaken(d)
RetryIsServed == \A d \in GraphDocs : Awaited(d) ~> Served(d)

\* A worker comes to rest once it is asked for nothing more: it does not spin on tasks
\* that it may not run, and it does not start itself again for ever.  A run of an analysis
\* does not wait for batches that will not finish, and two imports both complete,
\* whichever of them is found to be the duplicate.
AllAtRest ==
    CASE part = "imports" -> \A j \in Jobs : job[j] \in {"absent", "completed"}
      [] part \in {"one node", "two levels"} -> \A w \in Workers : run[w].pc = "idle"
      [] part = "catalog" -> AtRest
      [] OTHER -> ~registered
WorkerComesToRest == <>[]AllAtRest

=============================================================================
