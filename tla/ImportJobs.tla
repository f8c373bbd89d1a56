---------------------------- MODULE ImportJobs -----------------------------
(***************************************************************************)
(* openkb/importing: Import Jobs of one knowledge base, from creation to   *)
(* publication, with pause, cancel, resume, quarantine, run-scoped         *)
(* recovery, deduplication, crashes and the recovery at the next opening.  *)
(*                                                                         *)
(* Durable state (SQLite, each step of the model that changes it is one    *)
(* committed transaction): the runtime status of every job and stage, the  *)
(* checkpoints, the quarantined stage, the document a job ended with and   *)
(* the library of published documents.  Volatile state: the threads of the *)
(* engine that run jobs, the registry of their controls, and cancel        *)
(* requests for paused jobs that are under way.                            *)
(*                                                                         *)
(* A source file's content is a member of Bytes; BodyOf gives the          *)
(* normalized body that D1 deduplication compares.  Parsing and building   *)
(* evidence mint fresh identifiers: a stamp stands for the identifiers of  *)
(* one such result, so that reusing a checkpoint made from another result  *)
(* shows.  `import_jobs.status` and the lease always change together with  *)
(* the runtime status and are left out, as are recovery_runs rows, which   *)
(* nothing but parser_mode reads.                                          *)
(***************************************************************************)
EXTENDS Integers, FiniteSets

CONSTANTS Jobs, Workers, Bytes, BodyOf, Stamps, Sources, Env, None

\* A source document, but for what the properties do not tell apart.
Documents == [ir : Bytes, root : Bytes, available : BOOLEAN]

\* A result of the pipeline: the bytes it comes from, the stamp of the result it
\* was made on and its own (0: not told apart).
Artifact(of, on, id) == [of |-> of, on |-> on, id |-> id]
Artifacts == [of : Bytes, on : Stamps \cup {0}, id : Stamps \cup {0}]

ASSUME ImportAssumption ==
    /\ None \notin Bytes \cup Workers \cup Jobs \cup Documents \cup Artifacts
    /\ Sources \subseteq [Jobs -> Bytes]
    /\ Sources # {}

\* Env[j]: what may happen around the worker of job j (it bounds what a run explores).
\*   pause, cancel  requests that reach the control of a running job
\*   cancel_paused  a cancel request for a job that has no worker
\*   edit           the source file changes
\*   fail, isolate  a step fails; a parser or model failure quarantines
\*   lose_write     the write that records a failure fails itself
\*   gate           no verified Analysis profile; gate_lost: lost during a run
\*   recover, reparse  a recovery, with a parser override or without
\*   damage         an integrity check withdraws a published document
\*   crash          the engine process dies
\* What hits all jobs (damage, crash) may happen if it may happen to one.
ASSUME EnvAssumption ==
    Env \in [Jobs -> SUBSET {"pause", "cancel", "cancel_paused", "edit", "fail", "isolate",
                             "lose_write", "gate", "gate_lost", "recover", "reparse",
                             "damage", "crash"}]

VARIABLES
    source,       \* source[j]: what the source file of j holds now
    job,          \* job[j]: import_job_runtime.status
    stage,        \* stage[j][s]: stage_run_runtime.status
    ckpt,         \* ckpt[j][s]: stage_run_runtime.checkpoint_json
    quarantined,  \* quarantined[j]: the stage in quarantined_documents, or None
    document,     \* document[j]: import_jobs.document_id (its raw asset), or None
    docs,         \* docs[b]: the source document with raw asset b, or None
    open,         \* whether the engine has the knowledge base open
    wk,           \* wk[w]: the job thread w runs and how far it is
    reg,          \* reg[j]: _import_controls, the worker whose control is known
    cancelling    \* cancelling[j]: progress of a cancel_paused_job call

durable == <<source, job, stage, ckpt, quarantined, document, docs>>
vars == <<durable, open, wk, reg, cancelling>>

IMPORT_STAGES == <<"preflight", "raw_asset", "document_ir", "evidence",
                   "deterministic_page_tree", "model_analysis", "search">>
Stages == {IMPORT_STAGES[i] : i \in 1..7}

ASSUME StageAssumption == None \notin Stages

Fresh == [s \in Stages |-> "pending"]
NoCheckpoints == [s \in Stages |-> None]

Thread(pc, j) ==
    [pc |-> pc, job |-> j, active |-> None, control |-> "none", recovering |-> FALSE,
     raw |-> None, ir |-> None, evidence |-> None, tree |-> None, analysis |-> None,
     dup |-> None]

Init ==
    /\ source \in Sources
    /\ job = [j \in Jobs |-> "absent"]
    /\ stage = [j \in Jobs |-> Fresh]
    /\ ckpt = [j \in Jobs |-> NoCheckpoints]
    /\ quarantined = [j \in Jobs |-> None]
    /\ document = [j \in Jobs |-> None]
    /\ docs = [b \in Bytes |-> None]
    /\ open = TRUE
    /\ wk = [w \in Workers |-> Thread("idle", None)]
    /\ reg = [j \in Jobs |-> None]
    /\ cancelling = [j \in Jobs |-> "no"]

-----------------------------------------------------------------------------
(* Reading the state.                                                      *)

\* Near miss: a skipped stage counts as still to do.
stage_not_skipped(j, s) == stage[j][s] = "completed"

stage_completed(j, s) == stage[j][s] \in {"completed", "skipped"}

next_import_stage(j) ==
    LET left == {i \in 1..7 : ~stage_completed(j, IMPORT_STAGES[i])} IN
    IF left = {} THEN "search"
    ELSE IMPORT_STAGES[CHOOSE i \in left : \A k \in left : i <= k]

find_available_document(b) == docs[b] # None /\ docs[b].available

\* Documents with the normalized body of x; canonical ones come first.  (Age
\* breaks ties in the code; the model takes any.)
SameBody(x) == {b \in Bytes : find_available_document(b) /\ BodyOf[docs[b].ir] = BodyOf[x]}

find_available_document_by_normalized_body(x) ==
    LET roots == {b \in SameBody(x) : docs[b].root = b} IN
    IF SameBody(x) = {} THEN {None} ELSE IF roots # {} THEN roots ELSE SameBody(x)

\* Identifiers are never minted twice for a job.  Stamps bounds how many are in use
\* at a time.
StampsOf(j) ==
    LET known == {ckpt[j][s] : s \in Stages \ {"preflight", "raw_asset"}}
                 \cup UNION {{wk[w].ir, wk[w].evidence} : w \in {u \in Workers : wk[u].job = j}} IN
    UNION {{c.on, c.id} : c \in known \ {None}}

FreshStamp(j) == CHOOSE i \in Stamps \ StampsOf(j) : TRUE

-----------------------------------------------------------------------------
(* Writing it: the transactions of store.py, quarantine.py, recovery.py.   *)

At(w, pc) == wk[w].pc = pc

Happens(event) == \E j \in Jobs : event \in Env[j]

\* Thread w leaves _run; its control is still registered.
Finish(w) == wk' = [wk EXCEPT ![w] = Thread("done", wk[w].job)]

\* set_stage: one stage and its checkpoint, and the job runs, whatever it was;
\* the progress event that follows makes the control known.
set_stage(w, s, status, checkpoint) ==
    LET j == wk[w].job IN
    /\ stage' = [stage EXCEPT ![j][s] = status]
    /\ ckpt' = IF checkpoint = None THEN ckpt ELSE [ckpt EXCEPT ![j][s] = checkpoint]
    /\ job' = [job EXCEPT ![j] = "running"]
    /\ reg' = [reg EXCEPT ![j] = w]
    /\ UNCHANGED <<source, quarantined, document, docs, open, cancelling>>

\* _set_terminal_control_state: no test of what the job or stage was.
ControlState(j, s, status) ==
    /\ stage' = [stage EXCEPT ![j] = [x \in Stages |->
            IF x = s \/ (status = "cancelled" /\ stage[j][x] \in {"pending", "paused"})
            THEN status ELSE stage[j][x]]]
    /\ job' = [job EXCEPT ![j] = status]
    /\ UNCHANGED <<source, ckpt, quarantined, document, docs, open>>

\* pause_job, cancel_job or await_model_configuration by the worker itself.
Stop(w, s, status) ==
    /\ ControlState(wk[w].job, s, status)
    /\ reg' = [reg EXCEPT ![wk[w].job] = w]
    /\ Finish(w)
    /\ UNCHANGED cancelling

honor_control(w, s) ==
    /\ wk[w].control # "none"
    /\ Stop(w, s, wk[w].control)

\* fail_job, which swallows the failure of its own write; a recovery has its
\* quarantine row moved to the failed stage next.
FailAt(w, s) ==
    LET j == wk[w].job IN
    /\ \/ /\ stage' = [stage EXCEPT ![j][s] = "failed"]
          /\ job' = [job EXCEPT ![j] = "failed"]
          /\ reg' = [reg EXCEPT ![j] = w]
       \/ /\ "lose_write" \in Env[j]
          /\ UNCHANGED <<stage, job, reg>>
    /\ IF wk[w].recovering THEN wk' = [wk EXCEPT ![w].pc = "marking", ![w].active = s]
                           ELSE Finish(w)
    /\ UNCHANGED <<source, ckpt, quarantined, document, docs, open, cancelling>>

Fail(w) == FailAt(w, wk[w].active)

\* Near miss: the document is left out of the job's row.
CompleteUnlinked(w, doc, done, skipped) ==
    LET j == wk[w].job IN
    /\ stage' = [stage EXCEPT ![j][done] = "completed"]
    /\ job' = [job EXCEPT ![j] = "completed"]
    /\ quarantined' = [quarantined EXCEPT ![j] = None]
    /\ Finish(w)
    /\ UNCHANGED <<source, ckpt, document, open, reg, cancelling>>

\* Near miss: the quarantine row is left behind.
CompleteQuarantined(w, doc, done, skipped) ==
    LET j == wk[w].job IN
    /\ stage' = [stage EXCEPT ![j][done] = "completed"]
    /\ job' = [job EXCEPT ![j] = "completed"]
    /\ document' = [document EXCEPT ![j] = doc]
    /\ Finish(w)
    /\ UNCHANGED <<source, ckpt, quarantined, open, reg, cancelling>>

\* _complete_job_in and what shares its transaction: the document, the stages
\* that were done or are skipped, and no quarantine row any more.
Complete(w, doc, done, skipped) ==
    LET j == wk[w].job IN
    /\ stage' = [stage EXCEPT ![j] = [s \in Stages |->
            IF s = done THEN "completed" ELSE IF s \in skipped THEN "skipped" ELSE stage[j][s]]]
    /\ job' = [job EXCEPT ![j] = "completed"]
    /\ document' = [document EXCEPT ![j] = doc]
    /\ quarantined' = [quarantined EXCEPT ![j] = None]
    /\ reg' = [reg EXCEPT ![j] = w]
    /\ Finish(w)
    /\ UNCHANGED <<source, ckpt, open, cancelling>>

After(s) == {IMPORT_STAGES[i] : i \in {i \in 1..7 : \E k \in 1..(i - 1) : IMPORT_STAGES[k] = s}}

-----------------------------------------------------------------------------
(* Starting to run a job: import_text, resume_text, recover_text.          *)

Idle(w) == open /\ At(w, "idle")

create_job(w, j) ==
    /\ Idle(w)
    /\ job[j] = "absent"
    /\ job' = [job EXCEPT ![j] = "running"]
    /\ wk' = [wk EXCEPT ![w] = Thread("start", j)]
    /\ UNCHANGED <<source, stage, ckpt, quarantined, document, docs, open, reg, cancelling>>

\* Near miss: the status is not tested.
resume_any_job(w, j) ==
    /\ Idle(w)
    /\ job[j] \in {"running", "paused", "recoverable"}
    /\ job' = [job EXCEPT ![j] = "running"]
    /\ stage' = [stage EXCEPT ![j] = [s \in Stages |->
            IF stage[j][s] = "paused" THEN "pending" ELSE stage[j][s]]]
    /\ wk' = [wk EXCEPT ![w] = Thread("start", j)]
    /\ UNCHANGED <<source, ckpt, quarantined, document, docs, open, reg, cancelling>>

\* A quarantine row does not matter here.
resume_job(w, j) ==
    /\ Idle(w)
    /\ job[j] \in {"paused", "recoverable"}
    /\ job' = [job EXCEPT ![j] = "running"]
    /\ stage' = [stage EXCEPT ![j] = [s \in Stages |->
            IF stage[j][s] = "paused" THEN "pending" ELSE stage[j][s]]]
    /\ wk' = [wk EXCEPT ![w] = Thread("start", j)]
    /\ UNCHANGED <<source, ckpt, quarantined, document, docs, open, reg, cancelling>>

\* Near misses: one stage is forgotten.
DerivedButEvidence == After("raw_asset") \ {"evidence"}
DerivedButTree == After("raw_asset") \ {"deterministic_page_tree"}

\* What a parser override resets (reset_parser_checkpoints_in).
Derived == After("raw_asset")

\* Near miss: the status is not tested.
begin_any_recovery(w, j, reparse) ==
    /\ Idle(w)
    /\ "reparse" \in Env[j]
    /\ quarantined[j] # None
    /\ stage' = [stage EXCEPT ![j][quarantined[j]] = "pending"]
    /\ job' = [job EXCEPT ![j] = "running"]
    /\ wk' = [wk EXCEPT ![w] = [Thread("start", j) EXCEPT !.recovering = TRUE]]
    /\ UNCHANGED <<source, ckpt, quarantined, document, docs, open, reg, cancelling>>

begin_recovery(w, j, reparse) ==
    /\ Idle(w)
    /\ (IF reparse THEN "reparse" ELSE "recover") \in Env[j]
    /\ quarantined[j] # None
    /\ job[j] \in {"cancelled", "failed", "paused", "recoverable"}
    /\ reparse => document[j] = None
    /\ stage' = [stage EXCEPT ![j] = [s \in Stages |->
            IF s = quarantined[j] \/ (reparse /\ s \in Derived) THEN "pending" ELSE stage[j][s]]]
    /\ ckpt' = [ckpt EXCEPT ![j] = [s \in Stages |->
            IF reparse /\ s \in Derived THEN None ELSE ckpt[j][s]]]
    /\ job' = [job EXCEPT ![j] = "running"]
    /\ reg' = [reg EXCEPT ![j] = w]
    /\ wk' = [wk EXCEPT ![w] = [Thread("start", j) EXCEPT !.recovering = TRUE]]
    /\ UNCHANGED <<source, quarantined, document, docs, open, cancelling>>

\* The head of _run.
Start(w) ==
    LET j == wk[w].job
        raw_done == stage_completed(j, "raw_asset") IN
    /\ At(w, "start")
    /\ wk' = [wk EXCEPT ![w].pc = IF raw_done THEN "load" ELSE "preflight",
                       ![w].active = IF raw_done THEN "raw_asset" ELSE next_import_stage(j)]
    /\ UNCHANGED <<durable, open, reg, cancelling>>

-----------------------------------------------------------------------------
(* _raw_input.                                                             *)

\* Near miss: the saved bytes are checked and not read.
LoadNothing(w) ==
    /\ At(w, "load")
    /\ wk' = [wk EXCEPT ![w].pc = "ir_begin"]
    /\ UNCHANGED <<durable, open, reg, cancelling>>

\* The saved raw asset, checked against its checkpoint.
LoadRaw(w) ==
    LET saved == ckpt[wk[w].job]["raw_asset"] IN
    /\ At(w, "load")
    /\ \/ /\ saved # None
          /\ wk' = [wk EXCEPT ![w].pc = "ir_begin", ![w].raw = saved]
          /\ UNCHANGED <<durable, open, reg, cancelling>>
       \/ /\ saved = None     \* import_checkpoint_invalid
          /\ Fail(w)

\* A completed preflight is run again when the source is not what it saw.
Preflight(w) ==
    LET j == wk[w].job
        done == stage_completed(j, "preflight")
        matches == done /\ ckpt[j]["preflight"] = source[j] IN
    /\ At(w, "preflight")
    /\ \/ ~matches /\ honor_control(w, "preflight")
       \/ /\ matches
          /\ wk' = [wk EXCEPT ![w].pc = "raw_begin", ![w].raw = source[j]]
          /\ UNCHANGED <<durable, open, reg, cancelling>>
       \/ /\ ~matches /\ wk[w].control = "none"
          /\ wk' = [wk EXCEPT ![w].pc = "preflight_end", ![w].raw = source[j]]
          /\ set_stage(w, "preflight", "running", None)

PreflightEnd(w) ==
    /\ At(w, "preflight_end")
    /\ wk' = [wk EXCEPT ![w].pc = "raw_begin"]
    /\ set_stage(w, "preflight", "completed", wk[w].raw)

RawBegin(w) ==
    /\ At(w, "raw_begin")
    /\ \/ honor_control(w, "raw_asset")
       \/ /\ wk[w].control = "none"
          /\ wk' = [wk EXCEPT ![w].pc = "raw"]
          /\ set_stage(w, "raw_asset", "running", None)

\* D0: bytes that are available already end the job at its raw asset, which is
\* then completed without a checkpoint.
Raw(w) ==
    LET raw == wk[w].raw IN
    /\ At(w, "raw")
    /\ \/ /\ find_available_document(raw)
          /\ wk' = [wk EXCEPT ![w].pc = "duplicate"]
          /\ set_stage(w, "raw_asset", "completed", None)
       \/ /\ ~find_available_document(raw)
          /\ wk' = [wk EXCEPT ![w].pc = "ir_begin"]
          /\ set_stage(w, "raw_asset", "completed", raw)

complete_duplicate_job(w) ==
    /\ At(w, "duplicate")
    /\ Complete(w, wk[w].raw, "raw_asset", After("raw_asset"))
    /\ UNCHANGED docs

-----------------------------------------------------------------------------
(* The stages of _run, each with the boundary where control is honored.    *)

\* Enter stage s: active_stage moves there, control is honored, it is running.
EnterStage(w, s, pc) ==
    \/ honor_control(w, s)
    \/ /\ wk[w].control = "none"
       /\ wk' = [wk EXCEPT ![w].pc = pc, ![w].active = s]
       /\ set_stage(w, s, "running", None)

\* A completed stage whose checkpoint cannot be used fails the job at the stage
\* that was active before: active_stage only moves when a stage is entered.
IrBegin(w) ==
    LET j == wk[w].job
        done == stage_completed(j, "document_ir")
        saved == ckpt[j]["document_ir"] IN
    /\ At(w, "ir_begin")
    /\ \/ ~done /\ EnterStage(w, "document_ir", "ir")
       \/ /\ done /\ saved # None
          /\ wk' = [wk EXCEPT ![w].pc = "evidence_begin", ![w].ir = saved]
          /\ UNCHANGED <<durable, open, reg, cancelling>>
       \/ done /\ saved = None /\ Fail(w)

\* Near miss: the parser reads the source file again.
IrOfSource(w) ==
    LET ir == Artifact(source[wk[w].job], 0, FreshStamp(wk[w].job)) IN
    /\ At(w, "ir")
    /\ wk' = [wk EXCEPT ![w].pc = "evidence_begin", ![w].ir = ir]
    /\ set_stage(w, "document_ir", "completed", ir)

Ir(w) ==
    LET ir == Artifact(wk[w].raw, 0, FreshStamp(wk[w].job)) IN
    /\ At(w, "ir")
    /\ FreshStamp(wk[w].job) \in Stamps
    /\ wk' = [wk EXCEPT ![w].pc = "evidence_begin", ![w].ir = ir]
    /\ set_stage(w, "document_ir", "completed", ir)

\* D1: a body that is available already is looked up before evidence is entered,
\* and again for a stage that was skipped for its sake.
EvidenceBegin(w) ==
    LET j == wk[w].job
        found == find_available_document_by_normalized_body(wk[w].ir.of)
        saved == ckpt[j]["evidence"]
        reads == saved # None /\ saved.on = wk[w].ir.id
        skipped == stage[j]["evidence"] = "skipped" IN
    /\ At(w, "evidence_begin")
    /\ \/ /\ ~stage_completed(j, "evidence")
          /\ \/ honor_control(w, "evidence")
             \/ /\ wk[w].control = "none"
                /\ \E d \in found :
                     wk' = [wk EXCEPT ![w].pc = "evidence", ![w].active = "evidence", ![w].dup = d]
                /\ set_stage(w, "evidence", "running", None)
       \/ /\ stage_completed(j, "evidence") /\ reads
          /\ \E d \in IF skipped THEN found \ {None} ELSE {None} :
               wk' = [wk EXCEPT ![w].pc = "tree_begin", ![w].evidence = saved, ![w].dup = d]
          /\ UNCHANGED <<durable, open, reg, cancelling>>
       \/ /\ stage_completed(j, "evidence")
          /\ ~reads \/ (skipped /\ found = {None})
          /\ Fail(w)

Evidence(w) ==
    LET evidence == Artifact(wk[w].ir.of, wk[w].ir.id, FreshStamp(wk[w].job)) IN
    /\ At(w, "evidence")
    /\ FreshStamp(wk[w].job) \in Stamps
    /\ wk' = [wk EXCEPT ![w].pc = "tree_begin", ![w].evidence = evidence]
    /\ set_stage(w, "evidence", IF wk[w].dup = None THEN "completed" ELSE "skipped", evidence)

AfterTree(w) == IF wk[w].dup = None THEN "analysis_begin" ELSE "content_duplicate"

\* prepare_import_page_tree moves active_stage first.  A tree that cannot be
\* built is skipped with its checkpoint; the two ends are taken as one.
TreeBegin(w) ==
    LET j == wk[w].job
        s == "deterministic_page_tree"
        saved == ckpt[j][s] IN
    /\ At(w, "tree_begin")
    /\ \/ ~stage_completed(j, s) /\ EnterStage(w, s, "tree")
       \/ /\ stage_completed(j, s) /\ saved # None
          /\ wk' = [wk EXCEPT ![w].pc = AfterTree(w), ![w].active = s, ![w].tree = saved]
          /\ UNCHANGED <<durable, open, reg, cancelling>>
       \/ stage_completed(j, s) /\ saved = None /\ FailAt(w, s)

Tree(w) ==
    LET tree == Artifact(wk[w].evidence.of, wk[w].evidence.id, 0) IN
    /\ At(w, "tree")
    /\ wk' = [wk EXCEPT ![w].pc = AfterTree(w), ![w].tree = tree]
    /\ set_stage(w, "deterministic_page_tree", "completed", tree)

AnalysisBegin(w) ==
    LET j == wk[w].job
        s == "model_analysis"
        saved == ckpt[j][s] IN
    /\ At(w, "analysis_begin")
    /\ \/ ~stage_completed(j, s) /\ EnterStage(w, s, "analysis")
       \/ /\ stage_completed(j, s) /\ saved # None
          /\ wk' = [wk EXCEPT ![w].pc = "search_begin", ![w].analysis = saved]
          /\ UNCHANGED <<durable, open, reg, cancelling>>
       \/ stage_completed(j, s) /\ saved = None /\ Fail(w)

\* Batches of model calls.  Between two, control is honored; a call in flight
\* ends early on either request and the job is then paused.
Analysis(w) ==
    LET analysis == Artifact(wk[w].evidence.of, wk[w].evidence.id, 0) IN
    /\ At(w, "analysis")
    /\ \/ /\ wk' = [wk EXCEPT ![w].pc = "search_begin", ![w].analysis = analysis]
          /\ set_stage(w, "model_analysis", "completed", analysis)
       \/ honor_control(w, "model_analysis")
       \/ wk[w].control = "cancelled" /\ Stop(w, "model_analysis", "paused")

\* Near miss: the thread ends without a word.
AwaitSilently(w) ==
    /\ At(w, "analysis")
    /\ "gate" \in Env[wk[w].job]
    /\ Finish(w)
    /\ UNCHANGED <<durable, open, reg, cancelling>>

\* No usable Analysis profile when the stage starts: await_model_configuration.
AwaitModelConfiguration(w) ==
    /\ At(w, "analysis")
    /\ "gate" \in Env[wk[w].job]
    /\ Stop(w, "model_analysis", "paused")

\* The profile is found unverified between two batches: honor_analysis_control
\* raises awaiting_model_configuration and nothing is written.
LoseGate(w) ==
    /\ At(w, "analysis")
    /\ "gate_lost" \in Env[wk[w].job]
    /\ Finish(w)
    /\ UNCHANGED <<durable, open, reg, cancelling>>

\* Near miss: the document is inserted when the stage is entered.
SearchBeginEarly(w) ==
    /\ At(w, "search_begin")
    /\ docs[wk[w].raw] = None
    /\ docs' = [docs EXCEPT ![wk[w].raw] = [ir |-> wk[w].ir.of, root |-> wk[w].raw,
                                           available |-> TRUE]]
    /\ wk' = [wk EXCEPT ![w].pc = "search", ![w].active = "search"]
    /\ UNCHANGED <<source, job, stage, ckpt, quarantined, document, open, reg, cancelling>>

SearchBegin(w) ==
    /\ At(w, "search_begin")
    /\ EnterStage(w, "search", "search")

-----------------------------------------------------------------------------
(* Publication.                                                            *)

\* A document of the bytes that are to be published exists: UNIQUE(asset_sha256)
\* refuses a second one even when the first was withdrawn.
Publish(w, doc, done, skipped) ==
    LET raw == wk[w].raw IN
    \/ /\ docs[raw] = None
       /\ docs' = [docs EXCEPT ![raw] = doc]
       /\ Complete(w, raw, done, skipped)
    \/ docs[raw] # None /\ Fail(w)

\* Near miss: no second look at the bytes.
publish_unchecked(w) ==
    /\ At(w, "search")
    /\ Publish(w, [ir |-> wk[w].ir.of, root |-> wk[w].raw, available |-> TRUE], "search", {})

\* publish_document_in: the bytes are looked up once more in the transaction.
publish_document(w) ==
    LET raw == wk[w].raw IN
    /\ At(w, "search")
    /\ \/ /\ find_available_document(raw)
          /\ Complete(w, raw, "search", {})
          /\ UNCHANGED docs
       \/ /\ ~find_available_document(raw)
          /\ Publish(w, [ir |-> wk[w].ir.of, root |-> raw, available |-> TRUE], "search", {})

\* Near miss: the new document points at the one it matched.
content_duplicate_chained(w) ==
    /\ At(w, "content_duplicate")
    /\ Publish(w, [ir |-> wk[w].ir.of, root |-> wk[w].dup, available |-> TRUE],
               "search", {"model_analysis"})

\* publish_content_duplicate_in: a document of its own that points at the root
\* of the one it reuses; if that was withdrawn meanwhile, a RuntimeError that no
\* handler of _run catches ends the thread.
complete_content_duplicate_job(w) ==
    LET raw == wk[w].raw
        dup == wk[w].dup IN
    /\ At(w, "content_duplicate")
    /\ \/ /\ find_available_document(raw)
          /\ Complete(w, raw, "document_ir", After("document_ir"))
          /\ UNCHANGED docs
       \/ /\ ~find_available_document(raw) /\ find_available_document(dup)
          /\ Publish(w, [ir |-> wk[w].ir.of, root |-> docs[dup].root, available |-> TRUE],
                     "search", {"model_analysis"})
       \/ /\ ~find_available_document(raw) /\ ~find_available_document(dup)
          /\ Finish(w)
          /\ UNCHANGED <<durable, open, reg, cancelling>>

-----------------------------------------------------------------------------
(* Failures, and the end of a run.                                         *)

Working(w) == wk[w].pc \notin {"idle", "start", "marking", "done"}

\* A read, a write, a parse or a model call of the step under way fails.
StepFails(w) ==
    /\ Working(w)
    /\ "fail" \in Env[wk[w].job]
    /\ Fail(w)

\* A parser failure or a terminal model failure quarantines the document.
quarantine(w) ==
    LET j == wk[w].job IN
    /\ wk[w].pc \in {"ir", "analysis"}
    /\ "isolate" \in Env[j]
    /\ stage' = [stage EXCEPT ![j][wk[w].active] = "failed"]
    /\ job' = [job EXCEPT ![j] = "failed"]
    /\ quarantined' = [quarantined EXCEPT ![j] = wk[w].active]
    /\ reg' = [reg EXCEPT ![j] = w]
    /\ Finish(w)
    /\ UNCHANGED <<source, ckpt, document, docs, open, cancelling>>

\* A failed recovery moves its quarantine row; the write may be lost as well.
mark_failed(w) ==
    LET j == wk[w].job IN
    /\ At(w, "marking")
    /\ \/ quarantined' = [quarantined EXCEPT ![j] = IF @ = None THEN None ELSE wk[w].active]
       \/ "lose_write" \in Env[j] /\ UNCHANGED quarantined
    /\ Finish(w)
    /\ UNCHANGED <<source, job, stage, ckpt, document, docs, open, reg, cancelling>>

\* _release_import_control, and the thread is free.
Release(w) ==
    /\ At(w, "done")
    /\ wk' = [wk EXCEPT ![w] = Thread("idle", None)]
    /\ reg' = [j \in Jobs |-> IF reg[j] = w THEN None ELSE reg[j]]
    /\ UNCHANGED <<durable, open, cancelling>>

-----------------------------------------------------------------------------
(* Requests, and what happens to the files and the engine.                 *)

\* pause_import_job for a known control; a switch of the knowledge base and the
\* shutdown of the engine pause every run the same way.
RequestPause(w) ==
    /\ wk[w].pc \notin {"idle", "done"}
    /\ "pause" \in Env[wk[w].job]
    /\ wk[w].control = "none"
    /\ wk' = [wk EXCEPT ![w].control = "paused"]
    /\ UNCHANGED <<durable, open, reg, cancelling>>

\* cancel_import_job, the control of the job being known.
RequestCancel(j) ==
    LET w == reg[j] IN
    /\ "cancel" \in Env[j]
    /\ w # None
    /\ wk[w].pc # "done"
    /\ wk' = [wk EXCEPT ![w].control = "cancelled"]
    /\ UNCHANGED <<durable, open, reg, cancelling>>

\* cancel_import_job without a control: cancel_paused_job reads the status, then
\* the next stage, and then writes; no lock spans the three.
CancelPausedCheck(j) ==
    /\ "cancel_paused" \in Env[j]
    /\ open /\ reg[j] = None /\ cancelling[j] = "no"
    /\ job[j] \in {"paused", "recoverable"}
    /\ cancelling' = [cancelling EXCEPT ![j] = "checked"]
    /\ UNCHANGED <<durable, open, wk, reg>>

CancelPausedPick(j) ==
    /\ cancelling[j] = "checked"
    /\ cancelling' = [cancelling EXCEPT ![j] = next_import_stage(j)]
    /\ UNCHANGED <<durable, open, wk, reg>>

CancelPausedWrite(j) ==
    /\ cancelling[j] \in Stages
    /\ ControlState(j, cancelling[j], "cancelled")
    /\ cancelling' = [cancelling EXCEPT ![j] = "no"]
    /\ UNCHANGED <<wk, reg>>

EditSource(j) ==
    /\ "edit" \in Env[j]
    /\ \E b \in Bytes \ {source[j]} : source' = [source EXCEPT ![j] = b]
    /\ UNCHANGED <<job, stage, ckpt, quarantined, document, docs, open, wk, reg, cancelling>>

\* Near miss: the document is deleted.
DeleteDocument(b) ==
    /\ Happens("damage")
    /\ find_available_document(b)
    /\ docs' = [docs EXCEPT ![b] = None]
    /\ UNCHANGED <<source, job, stage, ckpt, quarantined, document, open, wk, reg, cancelling>>

\* raw_assets.py: the file of a published raw asset fails its check.
WithdrawDocument(b) ==
    /\ Happens("damage")
    /\ find_available_document(b)
    /\ docs' = [docs EXCEPT ![b].available = FALSE]
    /\ UNCHANGED <<source, job, stage, ckpt, quarantined, document, open, wk, reg, cancelling>>

Crash ==
    /\ Happens("crash")
    /\ open
    /\ open' = FALSE
    /\ wk' = [w \in Workers |-> Thread("idle", None)]
    /\ reg' = [j \in Jobs |-> None]
    /\ cancelling' = [j \in Jobs |-> "no"]
    /\ UNCHANGED durable

\* Near miss: quarantined jobs are passed over.
OpenButQuarantined ==
    LET interrupted == {j \in Jobs : job[j] = "running" /\ quarantined[j] = None} IN
    /\ \A w \in Workers : wk[w].pc \in {"idle", "done"}
    /\ ~open
    /\ open' = TRUE
    /\ job' = [j \in Jobs |-> IF j \in interrupted THEN "recoverable" ELSE job[j]]
    /\ UNCHANGED <<source, stage, ckpt, quarantined, document, docs, wk, reg, cancelling>>

\* Opening a knowledge base takes the import-runtime lock exclusively, so no run
\* is in progress; _recover_interrupted_import_jobs.
OpenKnowledgeBase ==
    LET interrupted == {j \in Jobs : job[j] = "running"} IN
    /\ \A w \in Workers : wk[w].pc \in {"idle", "done"}
    /\ ~open \/ interrupted # {}
    /\ open' = TRUE
    /\ job' = [j \in Jobs |-> IF j \in interrupted THEN "recoverable" ELSE job[j]]
    /\ stage' = [j \in Jobs |-> [s \in Stages |->
            IF j \in interrupted /\ stage[j][s] = "running" THEN "paused" ELSE stage[j][s]]]
    /\ UNCHANGED <<source, ckpt, quarantined, document, docs, wk, reg, cancelling>>

-----------------------------------------------------------------------------
Work(w) ==
    \/ Start(w) \/ LoadRaw(w) \/ Preflight(w) \/ PreflightEnd(w) \/ RawBegin(w) \/ Raw(w)
    \/ complete_duplicate_job(w) \/ IrBegin(w) \/ Ir(w) \/ EvidenceBegin(w) \/ Evidence(w)
    \/ TreeBegin(w) \/ Tree(w) \/ AnalysisBegin(w) \/ Analysis(w) \/ SearchBegin(w)
    \/ publish_document(w) \/ complete_content_duplicate_job(w) \/ mark_failed(w) \/ Release(w)

Trouble(w) == AwaitModelConfiguration(w) \/ LoseGate(w) \/ StepFails(w) \/ quarantine(w)

Begin(w, j) ==
    \/ create_job(w, j) \/ resume_job(w, j)
    \/ \E reparse \in BOOLEAN : begin_recovery(w, j, reparse)

Next ==
    \/ \E w \in Workers : Work(w) \/ Trouble(w) \/ RequestPause(w)
    \/ \E w \in Workers, j \in Jobs : Begin(w, j)
    \/ \E j \in Jobs : \/ RequestCancel(j) \/ EditSource(j)
                       \/ CancelPausedCheck(j) \/ CancelPausedPick(j) \/ CancelPausedWrite(j)
    \/ \E b \in Bytes : WithdrawDocument(b)
    \/ Crash
    \/ OpenKnowledgeBase

Spec == Init /\ [][Next]_vars

\* The threads of the engine run.  No request has to come, nothing has to fail.
FairSpec == Spec /\ \A w \in Workers : WF_vars(Work(w))

-----------------------------------------------------------------------------
(* Properties.                                                             *)

Live == {"running", "paused", "recoverable"}
InRun(w) == wk[w].pc \notin {"idle", "marking", "done"}
Worked(j) == \E w \in Workers : wk[w].job = j /\ InRun(w)
MaybeNone(S) == S \cup {None}

\* The points of a run that have the raw bytes at hand.
Pipeline == {"preflight_end", "raw_begin", "raw", "duplicate", "ir_begin", "ir",
             "evidence_begin", "evidence", "tree_begin", "tree", "content_duplicate",
             "analysis_begin", "analysis", "search_begin", "search"}

Checkpoint(s) == IF s \in {"preflight", "raw_asset"} THEN Bytes ELSE Artifacts

\* Types: every status is one the schema allows, every checkpoint has the shape its
\* stage writes, and a run has what its next step reads (store.py, runner.py).
TypeOK ==
    /\ source \in [Jobs -> Bytes]
    /\ job \in [Jobs -> Live \cup {"absent", "failed", "cancelled", "completed"}]
    /\ stage \in [Jobs -> [Stages -> {"pending", "running", "paused", "skipped",
                                      "completed", "failed", "cancelled"}]]
    /\ \A j \in Jobs, s \in Stages : ckpt[j][s] \in MaybeNone(Checkpoint(s))
    /\ quarantined \in [Jobs -> MaybeNone(Stages)]
    /\ document \in [Jobs -> MaybeNone(Bytes)]
    /\ docs \in [Bytes -> MaybeNone(Documents)]
    /\ \A w \in Workers :
         /\ wk[w].pc # "idle" => wk[w].job \in Jobs
         /\ InRun(w) /\ wk[w].pc # "start" => wk[w].active \in Stages
         /\ wk[w].pc \in Pipeline => wk[w].raw \in Bytes
    /\ reg \in [Jobs -> MaybeNone(Workers)]
    /\ cancelling \in [Jobs -> {"no", "checked"} \cup Stages]

\* A job is completed only together with its document, whichever transaction
\* ended it (publication, D0 or D1 reuse), and is then out of quarantine.
CompletedIsPublished ==
    \A j \in Jobs :
        /\ job[j] = "completed" => document[j] # None /\ quarantined[j] = None
        /\ document[j] # None => docs[document[j]] # None

\* A document that readers could see stays, with its content and its root: other
\* imports, failures and races never replace or remove it (publish_document_in).
LibraryOnlyGrows ==
    [][\A b \in Bytes : docs[b] # None =>
           docs'[b] # None /\ docs'[b].ir = docs[b].ir /\ docs'[b].root = docs[b].root]_docs

\* D1 chains are flat: a document that reuses another points at a canonical one
\* with the same normalized body, even when the one it matched was not canonical
\* (publish_content_duplicate_in).
CanonicalRoots ==
    \A b \in Bytes : docs[b] # None =>
        LET r == docs[b].root IN
        docs[r] # None /\ docs[r].root = r /\ BodyOf[docs[r].ir] = BodyOf[docs[b].ir]

\* "integrity-referenced": a document's IR was parsed from the raw asset it is
\* published with (runner.py: raw_bytes and blocks come from separate checkpoints).
IrOfItsRawAsset == \A b \in Bytes : docs[b] # None => docs[b].ir = b

\* What a worker is about to publish is one set: evidence of this IR, a tree and
\* an analysis of this evidence, however often the job was interrupted (_run).  A
\* recovery without a parser override can break it: its quarantine row outlives a
\* crash, and the next one reopens evidence that a tree has been built on since.
CoherentPublication ==
    \A w \in Workers :
        wk[w].pc \in {"search_begin", "search"} /\ "recover" \notin Env[wk[w].job] =>
            /\ wk[w].ir.of = wk[w].raw
            /\ wk[w].evidence.on = wk[w].ir.id
            /\ wk[w].tree.on = wk[w].evidence.id
            /\ wk[w].analysis.on = wk[w].evidence.id

\* The saved evidence belongs to the saved IR whenever both stages count as done:
\* otherwise the job can only end in import_checkpoint_invalid (recovery.py: begin,
\* which without a parser override reopens one stage and keeps the others).
CheckpointsAgree ==
    \A j \in Jobs :
        LET ir == ckpt[j]["document_ir"]
            evidence == ckpt[j]["evidence"] IN
        "recover" \notin Env[j] /\ job[j] \in Live =>
            (stage_completed(j, "document_ir") /\ stage_completed(j, "evidence")
                => evidence.on = ir.id)

\* Wherever an import is cut, and whatever its document is edited to or how often it is
\* recovered, it publishes one version of the document (not so if both happen:
\* ImportJobs_mixed.cfg).
ImportsAreCoherent == IrOfItsRawAsset /\ CoherentPublication /\ CheckpointsAgree

\* A job is run by one thread at a time, and is marked as running as long as that
\* thread works on it (store.py: resume_job; recovery.py: begin).
OneWorkerPerJob ==
    \A w \in Workers : InRun(w) =>
        /\ job[wk[w].job] = "running"
        /\ \A u \in Workers \ {w} : InRun(u) => wk[u].job # wk[w].job

\* While the knowledge base is open, a job that shows as running has a thread: it
\* can be paused and cancelled, and it does not show as running for ever.
RunningIsWorkedOn ==
    open => \A j \in Jobs : job[j] = "running" => Worked(j)

\* That is so for jobs that lose neither the record of a failure nor their gate, which are known
\* ways to leave a job behind (ImportJobs_gate_lost.cfg), are not cancelled late, and whose
\* document to reuse is not withdrawn under them.
Unspoiled(j) == {"lose_write", "gate_lost", "cancel_paused"} \cap Env[j] = {} /\ ~Happens("damage")

WorkIsAttended ==
    open => \A j \in Jobs : job[j] = "running" /\ Unspoiled(j) => Worked(j)

\* A quarantined document stays recoverable: whatever became of the recoveries tried
\* so far (failed, paused, cancelled, cut off by a crash), as long as none is under
\* way the next one is accepted (recovery.py: begin; tests: "Cancelling a recovery
\* keeps its quarantined document manually recoverable").
QuarantinedIsRecoverable ==
    open => \A j \in Jobs : quarantined[j] # None /\ ~Worked(j) =>
        job[j] \in {"cancelled", "failed", "paused", "recoverable"}

QuarantineCanBeLeft ==
    open => \A j \in Jobs : quarantined[j] # None /\ ~Worked(j) /\ Unspoiled(j) =>
        job[j] \in {"cancelled", "failed", "paused", "recoverable"}

\* Resuming reuses completed work: as long as a job is not quarantined, no pause,
\* crash, failure, change of the source or other job makes a stage that has a
\* checkpoint be computed again.  Only preflight is, for a source that changed
\* (resume_text, _raw_input).
ReusesWork ==
    \A j \in Jobs, s \in Stages \ {"preflight"} :
        ckpt[j][s] # None /\ quarantined[j] = None => ckpt'[j][s] = ckpt[j][s]

FinishedWorkIsReused == [][ReusesWork]_vars

\* "A user can cancel after pause without publishing pre-publication artifacts": a
\* job that counts as cancelled did not end with a document (cancel_paused_job).
CancelledIsUnpublished ==
    \A j \in Jobs : job[j] = "cancelled" => document[j] = None

Publications == INSTANCE Publication
    WITH root <- [b \in Bytes |-> IF docs[b] = None THEN None ELSE docs[b].root],
         result <- document

\* Imports implement their promise to readers.
ImplementsPublication == Publications!PubSpec

\* Without failures every running job is completed, also when another job brings
\* the same bytes or the same body at the same time (D0, D1 and their rechecks).
RunsComplete == \A j \in Jobs : job[j] = "running" ~> job[j] = "completed"

=============================================================================
