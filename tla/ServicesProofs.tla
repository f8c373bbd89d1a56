--------------------------- MODULE ServicesProofs ---------------------------
(***************************************************************************)
(* What the engine does at the request of the shell: import jobs, for any  *)
(* number of jobs, workers and contents; and, at the end, what the parts   *)
(* of MCServices promise together.                                         *)
(*                                                                         *)
(* The first part is about the library, whatever happens around the jobs   *)
(* (any Env): a completed job has its document, documents are never        *)
(* replaced and roots are canonical.  None of the three is inductive: that *)
(* a worker may end a job with a document rests on what it found several   *)
(* transactions ago.  The invariant therefore says what each point of a    *)
(* run may rely on; it is kept by the steps of others because documents    *)
(* only grow.                                                              *)
(*                                                                         *)
(* The second part is about who runs a job and what its thread may publish.*)
(* It is about jobs that are not both cancelled late and recovered         *)
(* (NoTakeOver): a late cancellation of a quarantined job lets a recovery  *)
(* begin beside the worker it came too late for.                           *)
(*                                                                         *)
(* The third part is about what a run may rely on: every value has its     *)
(* type; work that is finished is not done again; and a job publishes one  *)
(* version of its document.  The last two are about checkpoints and        *)
(* stages, which a step writes one at a time: whether a checkpoint may be  *)
(* reused is decided by a chain of earlier ones.  The invariant says that  *)
(* the chain has no gap while a job can still be run, and that a thread    *)
(* holds what the chain holds.  It is kept by the steps of others because  *)
(* a job has one thread (RunsInv).  Types hold in every environment; the   *)
(* rest needs that no cancellation comes late (NoLateCancel), and          *)
(* coherence that no job is both edited and recovered (NotMixed).  Without *)
(* the first there is the run of ImportJobs_cancelled.cfg, without the     *)
(* second that of ImportJobs_mixed.cfg.                                    *)
(***************************************************************************)
EXTENDS MCServices, TLAPS

Fields == {"pc", "job", "active", "control", "recovering", "raw", "ir", "evidence",
           "tree", "analysis", "dup"}

\* The points of a run that have the parsed document at hand.
HasIr == {"evidence_begin", "evidence", "tree_begin", "tree", "content_duplicate",
          "analysis_begin", "analysis", "search_begin", "search"}
MayReuse == {"evidence", "tree_begin", "tree", "content_duplicate"}

\* In library d, document b exists and has the body of x.
HasBody(d, b, z) == b \in Bytes /\ d[b] # None /\ BodyOf[d[b].ir] = BodyOf[z]

ThreadOk(t, d) ==
    /\ DOMAIN t = Fields
    /\ t.pc # "idle" => t.job \in Jobs
    /\ t.control \in {"none", "paused", "cancelled"}
    /\ t.pc \in Pipeline => t.raw \in Bytes
    /\ t.pc \in HasIr => t.ir.of \in Bytes
    /\ t.pc = "duplicate" => d[t.raw] # None
    /\ t.pc \in MayReuse /\ t.dup # None => HasBody(d, t.dup, t.ir.of)
    /\ t.pc = "content_duplicate" => t.dup # None

ThreadsInv ==
    /\ DOMAIN wk = Workers
    /\ \A w \in Workers : ThreadOk(wk[w], docs)

CheckpointsOk ==
    /\ DOMAIN ckpt = Jobs
    /\ \A j \in Jobs :
         /\ DOMAIN ckpt[j] = Stages
         /\ ckpt[j]["raw_asset"] \in MaybeNone(Bytes)
         /\ ckpt[j]["document_ir"] # None => ckpt[j]["document_ir"].of \in Bytes

JobsInv ==
    /\ source \in [Jobs -> Bytes]
    /\ DOMAIN job = Jobs /\ DOMAIN quarantined = Jobs
    /\ document \in [Jobs -> MaybeNone(Bytes)]
    /\ CheckpointsOk
    /\ CompletedIsPublished

LibraryInv ==
    /\ docs \in [Bytes -> MaybeNone(Documents)]
    /\ CanonicalRoots

IInv == LibraryInv /\ JobsInv /\ ThreadsInv

\* Library e has every document of library d, with its content and its root.
Grows(d, e) ==
    \A b \in Bytes : d[b] # None => e[b] # None /\ e[b].ir = d[b].ir /\ e[b].root = d[b].root

\* The step is not one of the other threads.
Others(w) == DOMAIN wk' = Workers /\ \A u \in Workers \ {w} : wk'[u] = wk[u]

-----------------------------------------------------------------------------
(* Frames.                                                                 *)

\* What a thread relies on stays true while the library grows (publish_document_in
\* never updates the content or the root of a document).
LEMMA GrowthKeepsThreads ==
    ASSUME NEW t, NEW d, NEW e, ThreadOk(t, d), Grows(d, e)
    PROVE  ThreadOk(t, e)
<1>1. t.pc = "duplicate" => e[t.raw] # None
  BY DEF ThreadOk, Grows, Pipeline
<1>2. t.pc \in MayReuse /\ t.dup # None => HasBody(e, t.dup, t.ir.of)
  BY DEF ThreadOk, Grows, HasBody
<1> QED BY <1>1, <1>2 DEF ThreadOk

\* A step of thread w keeps the invariant if the jobs and the library are in order
\* after it and w may be where it is then.
LEMMA Compose ==
    ASSUME IInv, NEW w \in Workers, LibraryInv', JobsInv', Grows(docs, docs'),
           Others(w), ThreadOk(wk'[w], docs')
    PROVE  IInv'
<1>1. ASSUME NEW u \in Workers PROVE ThreadOk(wk'[u], docs')
  <2>1. CASE u = w BY <2>1
  <2>2. CASE u # w
    <3>1. wk'[u] = wk[u] BY <2>2 DEF Others
    <3>2. ThreadOk(wk[u], docs) BY DEF IInv, ThreadsInv
    <3> QED BY <3>1, <3>2, GrowthKeepsThreads
  <2> QED BY <2>1, <2>2
<1> QED BY <1>1 DEF IInv, ThreadsInv, Others

\* The same for a step that leaves the library alone.
LEMMA Quiet ==
    ASSUME IInv, NEW w \in Workers, JobsInv', docs' = docs, Others(w), ThreadOk(wk'[w], docs)
    PROVE  IInv' /\ Grows(docs, docs')
<1>1. LibraryInv' BY DEF IInv, LibraryInv, CanonicalRoots
<1>2. Grows(docs, docs') BY DEF Grows
<1> QED BY <1>1, <1>2, Compose

\* A step of thread w within its own memory.
LEMMA JobsUntouched ==
    ASSUME JobsInv, UNCHANGED durable
    PROVE  JobsInv' /\ docs' = docs
BY DEF JobsInv, durable, CheckpointsOk, CompletedIsPublished

\* set_stage keeps the jobs in order: no job it writes to counts as completed.
LEMMA SetStage ==
    ASSUME JobsInv, NEW w \in Workers, wk[w].job \in Jobs, NEW s \in Stages, NEW status, NEW c,
           set_stage(w, s, status, c),
           s = "raw_asset" => c \in MaybeNone(Bytes),
           s = "document_ir" => c = None \/ c.of \in Bytes
    PROVE  JobsInv' /\ docs' = docs
<1> DEFINE j == wk[w].job
<1>1. CheckpointsOk'
  <2>1. CASE c = None
    BY <2>1 DEF set_stage, JobsInv, CheckpointsOk
  <2>2. CASE c # None
    <3>1. ckpt' = [ckpt EXCEPT ![j][s] = c] BY <2>2 DEF set_stage
    <3>2. DOMAIN ckpt = Jobs /\ \A i \in Jobs : DOMAIN ckpt[i] = Stages BY DEF JobsInv, CheckpointsOk
    <3>3. DOMAIN ckpt' = Jobs BY <3>1, <3>2
    <3>4. ASSUME NEW i \in Jobs
          PROVE  /\ DOMAIN ckpt'[i] = Stages
                 /\ ckpt'[i]["raw_asset"] \in MaybeNone(Bytes)
                 /\ ckpt'[i]["document_ir"] # None => ckpt'[i]["document_ir"].of \in Bytes
      <4>1. CASE i # j BY <3>1, <3>2, <4>1 DEF JobsInv, CheckpointsOk
      <4>2. CASE i = j
        <5>1. ckpt'[i] = [ckpt[i] EXCEPT ![s] = c] BY <3>1, <3>2, <4>2
        <5>2. DOMAIN ckpt'[i] = Stages BY <5>1, <3>2
        <5>3. "raw_asset" \in Stages /\ "document_ir" \in Stages BY DEF Stages, IMPORT_STAGES
        <5>4. \A z \in Stages : ckpt'[i][z] = IF z = s THEN c ELSE ckpt[i][z] BY <5>1, <3>2
        <5> QED BY <5>2, <5>3, <5>4, <2>2 DEF JobsInv, CheckpointsOk
      <4> QED BY <4>1, <4>2
    <3> QED BY <3>3, <3>4 DEF CheckpointsOk
  <2> QED BY <2>1, <2>2
<1>2. CompletedIsPublished' BY DEF set_stage, JobsInv, CompletedIsPublished
<1> QED BY <1>1, <1>2 DEF set_stage, JobsInv

\* So does a control state, which is never "completed".
LEMMA Controlled ==
    ASSUME JobsInv, NEW j \in Jobs, NEW s, NEW status, status # "completed",
           ControlState(j, s, status)
    PROVE  JobsInv' /\ docs' = docs
<1>1. CheckpointsOk' BY DEF ControlState, JobsInv, CheckpointsOk
<1>2. CompletedIsPublished' BY DEF ControlState, JobsInv, CompletedIsPublished
<1> QED BY <1>1, <1>2 DEF ControlState, JobsInv

\* A thread that ends its run relies on nothing.
LEMMA Finished ==
    ASSUME IInv, NEW w \in Workers, wk[w].job \in Jobs, Finish(w), NEW d
    PROVE  Others(w) /\ ThreadOk(wk'[w], d)
<1>1. DOMAIN wk = Workers BY DEF IInv, ThreadsInv
<1>2. wk' = [wk EXCEPT ![w] = Thread("done", wk[w].job)] BY DEF Finish
<1>3. Others(w) BY <1>1, <1>2 DEF Others
<1>4. wk'[w] = Thread("done", wk[w].job) BY <1>1, <1>2
<1>5. ThreadOk(Thread("done", wk[w].job), d)
  BY DEF ThreadOk, Thread, Fields, Pipeline, HasIr, MayReuse
<1> QED BY <1>3, <1>4, <1>5

\* Pausing, cancelling and waiting for a model configuration.
LEMMA Stopped ==
    ASSUME IInv, NEW w \in Workers, wk[w].job \in Jobs, NEW s, NEW status,
           status # "completed", Stop(w, s, status)
    PROVE  IInv' /\ Grows(docs, docs')
<1>1. JobsInv' /\ docs' = docs BY Controlled DEF Stop, IInv
<1>2. Others(w) /\ ThreadOk(wk'[w], docs) BY Finished DEF Stop
<1> QED BY <1>1, <1>2, Quiet

\* Recording a failure.
LEMMA Failed ==
    ASSUME IInv, NEW w \in Workers, wk[w].job \in Jobs, NEW s, FailAt(w, s)
    PROVE  IInv' /\ Grows(docs, docs')
<1> DEFINE j == wk[w].job
<1>1. JobsInv' /\ docs' = docs
  <2>1. CASE job' = [job EXCEPT ![j] = "failed"]
    <3>1. CompletedIsPublished' BY <2>1 DEF FailAt, IInv, JobsInv, CompletedIsPublished
    <3> QED BY <2>1, <3>1 DEF FailAt, IInv, JobsInv, CheckpointsOk
  <2>2. CASE UNCHANGED job
    BY <2>2 DEF FailAt, IInv, JobsInv, CheckpointsOk, CompletedIsPublished
  <2> QED BY <2>1, <2>2 DEF FailAt
<1>2. Others(w) /\ ThreadOk(wk'[w], docs)
  <2>1. CASE Finish(w) BY <2>1, Finished
  <2>2. CASE wk' = [wk EXCEPT ![w].pc = "marking", ![w].active = s]
    <3>1. DOMAIN wk = Workers /\ ThreadOk(wk[w], docs) BY DEF IInv, ThreadsInv
    <3>2. Others(w) BY <2>2, <3>1 DEF Others
    <3>3. /\ DOMAIN wk'[w] = Fields
          /\ wk'[w].pc = "marking"
          /\ wk'[w].job = j
          /\ wk'[w].control = wk[w].control
      BY <2>2, <3>1 DEF ThreadOk, Fields
    <3>4. ThreadOk(wk'[w], docs) BY <3>1, <3>3 DEF ThreadOk, Pipeline, HasIr, MayReuse
    <3> QED BY <3>2, <3>4
  <2> QED BY <2>1, <2>2 DEF FailAt
<1> QED BY <1>1, <1>2, Quiet

\* A job that is completed is linked to a document that exists.
LEMMA Completed ==
    ASSUME IInv, NEW w \in Workers, wk[w].job \in Jobs, NEW doc \in Bytes, NEW done, NEW skipped,
           Complete(w, doc, done, skipped), LibraryInv', Grows(docs, docs'), docs'[doc] # None
    PROVE  IInv' /\ Grows(docs, docs')
<1> DEFINE j == wk[w].job
<1>1. CheckpointsOk' BY DEF Complete, IInv, JobsInv, CheckpointsOk
<1>2. None \notin Bytes BY ImportAssumption DEF ImportAssumption
<1>3. document' \in [Jobs -> MaybeNone(Bytes)] BY DEF Complete, IInv, JobsInv, MaybeNone
<1>4. CompletedIsPublished'
  <2> SUFFICES ASSUME NEW i \in Jobs
               PROVE  /\ job'[i] = "completed" => document'[i] # None /\ quarantined'[i] = None
                      /\ document'[i] # None => docs'[document'[i]] # None
    BY DEF CompletedIsPublished
  <2>1. CASE i = j BY <2>1, <1>2 DEF Complete, IInv, JobsInv
  <2>2. CASE i # j
    <3>1. job'[i] = job[i] /\ document'[i] = document[i] /\ quarantined'[i] = quarantined[i]
      BY <2>2 DEF Complete, IInv, JobsInv
    <3>2. document[i] # None => document[i] \in Bytes BY DEF IInv, JobsInv, MaybeNone
    <3> QED BY <3>1, <3>2 DEF IInv, JobsInv, CompletedIsPublished, Grows
  <2> QED BY <2>1, <2>2
<1>5. JobsInv' BY <1>1, <1>3, <1>4 DEF Complete, IInv, JobsInv
<1>6. Others(w) /\ ThreadOk(wk'[w], docs') BY Finished DEF Complete
<1> QED BY <1>5, <1>6, Compose

-----------------------------------------------------------------------------
(* Beginning a run, and the raw input.                                     *)

\* A thread that begins a run of job j relies on nothing yet.
LEMMA Begun ==
    ASSUME IInv, NEW w \in Workers, NEW j \in Jobs, NEW flag,
           wk' = [wk EXCEPT ![w] = [Thread("start", j) EXCEPT !.recovering = flag]]
    PROVE  Others(w) /\ ThreadOk(wk'[w], docs)
<1>1. DOMAIN wk = Workers BY DEF IInv, ThreadsInv
<1>2. Others(w) BY <1>1 DEF Others
<1>3. wk'[w] = [Thread("start", j) EXCEPT !.recovering = flag] BY <1>1
<1>4. /\ DOMAIN wk'[w] = Fields /\ wk'[w].pc = "start" /\ wk'[w].job = j
      /\ wk'[w].control = "none"
  BY <1>3 DEF Thread, Fields
<1> QED BY <1>2, <1>4 DEF ThreadOk, Pipeline, HasIr, MayReuse

\* A worker that takes a job over (create_job, resume_job) starts a run with nothing to publish.
LEMMA BeginOk ==
    ASSUME IInv, NEW w \in Workers, NEW j \in Jobs, Begin(w, j)
    PROVE  IInv' /\ Grows(docs, docs')
<1>1. DOMAIN wk = Workers BY DEF IInv, ThreadsInv
<1>2. ThreadOk(Thread("start", j), docs)
  BY DEF ThreadOk, Thread, Fields, Pipeline, HasIr, MayReuse
<1>3. CASE create_job(w, j)
  <2>1. JobsInv' /\ docs' = docs
    BY <1>3 DEF create_job, IInv, JobsInv, CheckpointsOk, CompletedIsPublished
  <2>2. Others(w) /\ wk'[w] = Thread("start", j) BY <1>1, <1>3 DEF create_job, Others
  <2> QED BY <2>1, <2>2, <1>2, Quiet
<1>4. CASE resume_job(w, j)
  <2>1. JobsInv' /\ docs' = docs
    BY <1>4 DEF resume_job, IInv, JobsInv, CheckpointsOk, CompletedIsPublished
  <2>2. Others(w) /\ wk'[w] = Thread("start", j) BY <1>1, <1>4 DEF resume_job, Others
  <2> QED BY <2>1, <2>2, <1>2, Quiet
<1>5. ASSUME NEW reparse \in BOOLEAN, begin_recovery(w, j, reparse)
      PROVE  IInv' /\ Grows(docs, docs')
  <2>1. CheckpointsOk'
    <3> DEFINE new == [s \in Stages |-> IF reparse /\ s \in Derived THEN None ELSE ckpt[j][s]]
    <3>1. ckpt' = [ckpt EXCEPT ![j] = new] BY <1>5 DEF begin_recovery
    <3>2. DOMAIN ckpt = Jobs BY DEF IInv, JobsInv, CheckpointsOk
    <3>3. "raw_asset" \in Stages /\ "document_ir" \in Stages BY DEF Stages, IMPORT_STAGES
    <3>4. /\ DOMAIN new = Stages
          /\ new["raw_asset"] \in MaybeNone(Bytes)
          /\ new["document_ir"] # None => new["document_ir"].of \in Bytes
      BY <3>3 DEF IInv, JobsInv, CheckpointsOk, MaybeNone
    <3> HIDE DEF new
    <3> QED BY <3>1, <3>2, <3>4 DEF IInv, JobsInv, CheckpointsOk
  <2>2. CompletedIsPublished' BY <1>5 DEF begin_recovery, IInv, JobsInv, CompletedIsPublished
  <2>3. JobsInv' /\ docs' = docs BY <2>1, <2>2, <1>5 DEF begin_recovery, IInv, JobsInv
  <2>4. Others(w) /\ ThreadOk(wk'[w], docs) BY <1>5, Begun DEF begin_recovery
  <2> QED BY <2>3, <2>4, Quiet
<1> QED BY <1>3, <1>4, <1>5 DEF Begin

\* The bytes that _raw_input hands on are the saved or the current ones.
LEMMA RawInputOk ==
    ASSUME IInv, NEW w \in Workers,
           Start(w) \/ LoadRaw(w) \/ Preflight(w) \/ PreflightEnd(w) \/ RawBegin(w) \/ Raw(w)
    PROVE  IInv' /\ Grows(docs, docs')
<1> DEFINE j == wk[w].job
<1> USE DEF At
<1>1. DOMAIN wk = Workers /\ ThreadOk(wk[w], docs) BY DEF IInv, ThreadsInv
<1>2. j \in Jobs
  BY <1>1 DEF ThreadOk, Start, LoadRaw, Preflight, PreflightEnd, RawBegin, Raw
<1>3. DOMAIN wk[w] = Fields BY <1>1 DEF ThreadOk
<1>4. JobsInv BY DEF IInv
<1> wk[w].control \in {"none", "paused", "cancelled"} BY <1>1 DEF ThreadOk
<1>5. "raw_asset" \in Stages /\ "preflight" \in Stages BY DEF Stages, IMPORT_STAGES
\* Where a thread may be without the parsed document.
<1>6. ASSUME NEW t, DOMAIN t = Fields, t.job = j, t.control = wk[w].control,
             \/ t.pc \in {"load", "preflight"}
             \/ t.pc \in {"preflight_end", "raw_begin", "raw", "ir_begin"} /\ t.raw \in Bytes
             \/ t.pc = "duplicate" /\ t.raw \in Bytes /\ docs[t.raw] # None
      PROVE  ThreadOk(t, docs)
  BY <1>1, <1>2, <1>6 DEF ThreadOk, Pipeline, HasIr, MayReuse
<1>7. CASE Start(w)
  <2>1. JobsInv' /\ docs' = docs BY <1>4, <1>7, JobsUntouched DEF Start
  <2>2. Others(w) BY <1>1, <1>7 DEF Start, Others
  <2>3. /\ DOMAIN wk'[w] = Fields /\ wk'[w].job = j /\ wk'[w].control = wk[w].control
        /\ wk'[w].pc \in {"load", "preflight"}
    BY <1>1, <1>3, <1>7 DEF Start, Fields
  <2> QED BY <2>1, <2>2, <2>3, <1>6, Quiet
<1>8. CASE LoadRaw(w)
  <2> DEFINE saved == ckpt[j]["raw_asset"]
  <2>1. CASE saved = None BY <2>1, <1>2, <1>8, Failed DEF LoadRaw, Fail
  <2>2. CASE saved # None
    <3>1. JobsInv' /\ docs' = docs BY <2>2, <1>4, <1>8, JobsUntouched DEF LoadRaw
    <3>2. saved \in Bytes BY <1>2, <1>4, <2>2 DEF JobsInv, CheckpointsOk, MaybeNone
    <3>3. wk' = [wk EXCEPT ![w].pc = "ir_begin", ![w].raw = saved] BY <1>8, <2>2 DEF LoadRaw
    <3>4. Others(w) BY <1>1, <3>3 DEF Others
    <3>5. /\ DOMAIN wk'[w] = Fields /\ wk'[w].job = j /\ wk'[w].control = wk[w].control
          /\ wk'[w].pc = "ir_begin" /\ wk'[w].raw = saved
      BY <1>1, <1>3, <3>3 DEF Fields
    <3> QED BY <3>1, <3>2, <3>4, <3>5, <1>6, Quiet
  <2> QED BY <2>1, <2>2
<1>9. CASE Preflight(w)
  <2>1. source[j] \in Bytes BY <1>2, <1>4 DEF JobsInv
  <2>2. CASE honor_control(w, "preflight")
    BY <2>2, <1>1, <1>2, Stopped DEF honor_control
  <2>3. ASSUME NEW to \in {"raw_begin", "preflight_end"},
               wk' = [wk EXCEPT ![w].pc = to, ![w].raw = source[j]],
               JobsInv' /\ docs' = docs
        PROVE  IInv' /\ Grows(docs, docs')
    <3>1. Others(w) BY <1>1, <2>3 DEF Others
    <3>2. /\ DOMAIN wk'[w] = Fields /\ wk'[w].job = j /\ wk'[w].control = wk[w].control
          /\ wk'[w].pc = to /\ wk'[w].raw = source[j]
      BY <1>1, <1>3, <2>3 DEF Fields
    <3> QED BY <2>1, <2>3, <3>1, <3>2, <1>6, Quiet
  <2>4. CASE /\ wk' = [wk EXCEPT ![w].pc = "raw_begin", ![w].raw = source[j]]
             /\ UNCHANGED <<durable, open, reg, cancelling>>
    BY <2>3, <2>4, <1>4, JobsUntouched
  <2>5. CASE /\ wk' = [wk EXCEPT ![w].pc = "preflight_end", ![w].raw = source[j]]
             /\ set_stage(w, "preflight", "running", None)
    BY <2>3, <2>5, <1>2, <1>4, <1>5, SetStage
  <2> QED BY <1>9, <2>2, <2>4, <2>5 DEF Preflight
<1>10. CASE PreflightEnd(w)
  <2>1. JobsInv' /\ docs' = docs BY <1>10, <1>2, <1>4, <1>5, SetStage DEF PreflightEnd
  <2>2. wk[w].raw \in Bytes BY <1>1, <1>10 DEF PreflightEnd, ThreadOk, Pipeline
  <2>3. Others(w) BY <1>1, <1>10 DEF PreflightEnd, Others
  <2>4. /\ DOMAIN wk'[w] = Fields /\ wk'[w].job = j /\ wk'[w].control = wk[w].control
        /\ wk'[w].pc = "raw_begin" /\ wk'[w].raw = wk[w].raw
    BY <1>1, <1>3, <1>10 DEF PreflightEnd, Fields
  <2> QED BY <2>1, <2>2, <2>3, <2>4, <1>6, Quiet
<1>11. CASE RawBegin(w)
  <2>1. wk[w].raw \in Bytes BY <1>1, <1>11 DEF RawBegin, ThreadOk, Pipeline
  <2>2. CASE honor_control(w, "raw_asset")
    BY <2>2, <1>1, <1>2, Stopped DEF honor_control
  <2>3. CASE wk' = [wk EXCEPT ![w].pc = "raw"] /\ set_stage(w, "raw_asset", "running", None)
    <3>1. JobsInv' /\ docs' = docs BY <2>3, <1>2, <1>4, <1>5, SetStage DEF MaybeNone
    <3>2. Others(w) BY <1>1, <2>3 DEF Others
    <3>3. /\ DOMAIN wk'[w] = Fields /\ wk'[w].job = j /\ wk'[w].control = wk[w].control
          /\ wk'[w].pc = "raw" /\ wk'[w].raw = wk[w].raw
      BY <1>1, <1>3, <2>3 DEF Fields
    <3> QED BY <2>1, <3>1, <3>2, <3>3, <1>6, Quiet
  <2> QED BY <1>11, <2>2, <2>3 DEF RawBegin
<1>12. CASE Raw(w)
  <2> DEFINE raw == wk[w].raw
  <2>1. raw \in Bytes BY <1>1, <1>12 DEF Raw, ThreadOk, Pipeline
  <2>2. JobsInv' /\ docs' = docs
    BY <1>12, <2>1, <1>2, <1>4, <1>5, SetStage DEF Raw, MaybeNone
  <2>3. Others(w) BY <1>1, <1>12 DEF Raw, Others
  <2>4. /\ DOMAIN wk'[w] = Fields /\ wk'[w].job = j /\ wk'[w].control = wk[w].control /\ wk'[w].raw = raw
        /\ \/ wk'[w].pc = "ir_begin"
           \/ wk'[w].pc = "duplicate" /\ docs[raw] # None
    BY <1>1, <1>3, <1>12 DEF Raw, Fields, find_available_document
  <2> QED BY <2>1, <2>2, <2>3, <2>4, <1>6, Quiet
<1> QED BY <1>7, <1>8, <1>9, <1>10, <1>11, <1>12

-----------------------------------------------------------------------------
(* The stages.                                                             *)

\* The points of a run with the parsed document, and what they rely on.
LEMMA Placed ==
    ASSUME NEW t, NEW d, DOMAIN t = Fields, t.job \in Jobs,
           t.control \in {"none", "paused", "cancelled"}, t.raw \in Bytes,
           \/ t.pc = "ir"
           \/ /\ t.ir.of \in Bytes
              /\ \/ t.pc \in {"evidence_begin", "analysis_begin", "analysis",
                              "search_begin", "search"}
                 \/ /\ t.pc \in {"evidence", "tree_begin", "tree"}
                    /\ t.dup = None \/ HasBody(d, t.dup, t.ir.of)
                 \/ /\ t.pc = "content_duplicate"
                    /\ t.dup # None /\ HasBody(d, t.dup, t.ir.of)
    PROVE  ThreadOk(t, d)
BY DEF ThreadOk, Pipeline, HasIr, MayReuse

\* D1 finds documents that exist and have the body looked for.
LEMMA FoundHasBody ==
    ASSUME NEW z, NEW d \in find_available_document_by_normalized_body(z)
    PROVE  d = None \/ HasBody(docs, d, z)
BY DEF find_available_document_by_normalized_body, SameBody, find_available_document, HasBody

\* Entering a stage honors a control or moves on.
LEMMA Entered ==
    ASSUME IInv, NEW w \in Workers, wk[w].pc # "idle", NEW s \in Stages,
           NEW place \in {"ir", "evidence", "tree", "analysis", "search"},
           EnterStage(w, s, place), wk[w].raw \in Bytes,
           place # "ir" => wk[w].ir.of \in Bytes,
           place \in {"evidence", "tree"} => wk[w].dup = None \/ HasBody(docs, wk[w].dup, wk[w].ir.of)
    PROVE  IInv' /\ Grows(docs, docs')
<1> DEFINE j == wk[w].job
<1>1. DOMAIN wk = Workers /\ ThreadOk(wk[w], docs) BY DEF IInv, ThreadsInv
<1>2. /\ j \in Jobs /\ DOMAIN wk[w] = Fields
      /\ wk[w].control \in {"none", "paused", "cancelled"}
  BY <1>1 DEF ThreadOk
<1>3. CASE honor_control(w, s)
  BY <1>2, <1>3, Stopped DEF honor_control
<1>4. CASE /\ wk' = [wk EXCEPT ![w].pc = place, ![w].active = s]
           /\ set_stage(w, s, "running", None)
  <2>1. JobsInv' /\ docs' = docs BY <1>2, <1>4, SetStage DEF MaybeNone, IInv
  <2>2. Others(w) BY <1>1, <1>4 DEF Others
  <2>3. /\ DOMAIN wk'[w] = Fields /\ wk'[w].job = j /\ wk'[w].control = wk[w].control
        /\ wk'[w].pc = place /\ wk'[w].raw = wk[w].raw /\ wk'[w].ir = wk[w].ir
        /\ wk'[w].dup = wk[w].dup
    BY <1>1, <1>2, <1>4 DEF Fields
  <2>4. ThreadOk(wk'[w], docs) BY <1>2, <2>3, Placed
  <2> QED BY <2>1, <2>2, <2>4, Quiet
<1> QED BY <1>3, <1>4 DEF EnterStage

\* document_ir: parsed from the raw bytes, or read from its checkpoint.
LEMMA IrOk ==
    ASSUME IInv, NEW w \in Workers, IrBegin(w) \/ Ir(w)
    PROVE  IInv' /\ Grows(docs, docs')
<1> DEFINE j == wk[w].job
           s == "document_ir"
<1> USE DEF At
<1>1. DOMAIN wk = Workers /\ ThreadOk(wk[w], docs) BY DEF IInv, ThreadsInv
<1>2. /\ j \in Jobs /\ DOMAIN wk[w] = Fields /\ wk[w].pc # "idle"
      /\ wk[w].control \in {"none", "paused", "cancelled"} /\ wk[w].raw \in Bytes
  BY <1>1 DEF ThreadOk, IrBegin, Ir, Pipeline
<1>3. s \in Stages BY DEF Stages, IMPORT_STAGES
<1>4. JobsInv BY DEF IInv
<1>5. ASSUME NEW ir, ir.of \in Bytes, JobsInv', docs' = docs,
             wk' = [wk EXCEPT ![w].pc = "evidence_begin", ![w].ir = ir]
      PROVE  IInv' /\ Grows(docs, docs')
  <2>1. Others(w) BY <1>1, <1>5 DEF Others
  <2>2. /\ DOMAIN wk'[w] = Fields /\ wk'[w].job = j /\ wk'[w].control = wk[w].control
        /\ wk'[w].pc = "evidence_begin" /\ wk'[w].raw = wk[w].raw /\ wk'[w].ir = ir
    BY <1>1, <1>2, <1>5 DEF Fields
  <2>3. ThreadOk(wk'[w], docs) BY <1>2, <1>5, <2>2, Placed
  <2> QED BY <1>5, <2>1, <2>3, Quiet
<1>6. CASE IrBegin(w)
  <2> DEFINE saved == ckpt[j][s]
  <2>1. CASE EnterStage(w, s, "ir") BY <2>1, <1>2, <1>3, Entered
  <2>2. CASE /\ saved # None
             /\ wk' = [wk EXCEPT ![w].pc = "evidence_begin", ![w].ir = saved]
             /\ UNCHANGED <<durable, open, reg, cancelling>>
    <3>1. saved.of \in Bytes BY <2>2, <1>2, <1>4 DEF JobsInv, CheckpointsOk
    <3> QED BY <3>1, <2>2, <1>4, <1>5, JobsUntouched
  <2>3. CASE Fail(w) BY <2>3, <1>2, Failed DEF Fail
  <2> QED BY <1>6, <2>1, <2>2, <2>3 DEF IrBegin
<1>7. CASE Ir(w)
  <2> DEFINE ir == Artifact(wk[w].raw, 0, FreshStamp(j))
  <2>1. ir.of \in Bytes BY <1>2 DEF Artifact
  <2>2. set_stage(w, s, "completed", ir) /\ wk' = [wk EXCEPT ![w].pc = "evidence_begin", ![w].ir = ir]
    BY <1>7 DEF Ir
  <2> HIDE DEF ir
  <2>3. JobsInv' /\ docs' = docs BY <2>1, <2>2, <1>2, <1>3, <1>4, SetStage
  <2> QED BY <2>1, <2>2, <2>3, <1>5
<1> QED BY <1>6, <1>7

\* evidence: a document with the same body, if any is found, exists.
LEMMA EvidenceOk ==
    ASSUME IInv, NEW w \in Workers, EvidenceBegin(w) \/ Evidence(w)
    PROVE  IInv' /\ Grows(docs, docs')
<1> DEFINE j == wk[w].job
           s == "evidence"
           z == wk[w].ir.of
           candidates == find_available_document_by_normalized_body(z)
<1> USE DEF At
<1>1. DOMAIN wk = Workers /\ ThreadOk(wk[w], docs) BY DEF IInv, ThreadsInv
<1>2. /\ j \in Jobs /\ DOMAIN wk[w] = Fields
      /\ wk[w].control \in {"none", "paused", "cancelled"}
      /\ wk[w].raw \in Bytes /\ z \in Bytes
  BY <1>1 DEF ThreadOk, EvidenceBegin, Evidence, Pipeline, HasIr
<1>3. s \in Stages BY DEF Stages, IMPORT_STAGES
<1>4. JobsInv BY DEF IInv
\* Moving on with document d to reuse.
<1>5. ASSUME NEW d, d = None \/ HasBody(docs, d, z), JobsInv', docs' = docs, Others(w),
             DOMAIN wk'[w] = Fields, wk'[w].job = j, wk'[w].control = wk[w].control,
             wk'[w].raw = wk[w].raw, wk'[w].ir = wk[w].ir, wk'[w].dup = d,
             wk'[w].pc \in {"evidence", "tree_begin"}
      PROVE  IInv' /\ Grows(docs, docs')
  BY <1>2, <1>5, Placed, Quiet
<1>6. CASE EvidenceBegin(w)
  <2> DEFINE saved == ckpt[j][s]
  <2>1. CASE honor_control(w, s) BY <2>1, <1>2, Stopped DEF honor_control
  <2>2. ASSUME NEW d \in candidates, set_stage(w, s, "running", None),
               wk' = [wk EXCEPT ![w].pc = "evidence", ![w].active = "evidence", ![w].dup = d]
        PROVE  IInv' /\ Grows(docs, docs')
    <3>1. d = None \/ HasBody(docs, d, z) BY FoundHasBody
    <3>2. JobsInv' /\ docs' = docs BY <2>2, <1>2, <1>3, <1>4, SetStage DEF MaybeNone
    <3>3. Others(w) BY <1>1, <2>2 DEF Others
    <3>4. /\ DOMAIN wk'[w] = Fields /\ wk'[w].job = j /\ wk'[w].control = wk[w].control
          /\ wk'[w].raw = wk[w].raw /\ wk'[w].ir = wk[w].ir /\ wk'[w].dup = d
          /\ wk'[w].pc = "evidence"
      BY <1>1, <1>2, <2>2 DEF Fields
    <3> QED BY <3>1, <3>2, <3>3, <3>4, <1>5
  <2>3. ASSUME NEW d \in IF stage[j][s] = "skipped" THEN candidates \ {None} ELSE {None},
               UNCHANGED <<durable, open, reg, cancelling>>,
               wk' = [wk EXCEPT ![w].pc = "tree_begin", ![w].evidence = saved, ![w].dup = d]
        PROVE  IInv' /\ Grows(docs, docs')
    <3>1. d = None \/ HasBody(docs, d, z) BY FoundHasBody
    <3>2. JobsInv' /\ docs' = docs BY <2>3, <1>4, JobsUntouched
    <3>3. Others(w) BY <1>1, <2>3 DEF Others
    <3>4. /\ DOMAIN wk'[w] = Fields /\ wk'[w].job = j /\ wk'[w].control = wk[w].control
          /\ wk'[w].raw = wk[w].raw /\ wk'[w].ir = wk[w].ir /\ wk'[w].dup = d
          /\ wk'[w].pc = "tree_begin"
      BY <1>1, <1>2, <2>3 DEF Fields
    <3> QED BY <3>1, <3>2, <3>3, <3>4, <1>5
  <2>4. CASE Fail(w) BY <2>4, <1>2, Failed DEF Fail
  <2> QED BY <1>6, <2>1, <2>2, <2>3, <2>4 DEF EvidenceBegin
<1>7. CASE Evidence(w)
  <2>1. PICK e : /\ wk' = [wk EXCEPT ![w].pc = "tree_begin", ![w].evidence = e]
                 /\ set_stage(w, s, IF wk[w].dup = None THEN "completed" ELSE "skipped", e)
    BY <1>7 DEF Evidence
  <2>2. JobsInv' /\ docs' = docs BY <2>1, <1>2, <1>3, <1>4, SetStage
  <2>3. Others(w) BY <1>1, <2>1 DEF Others
  <2>4. /\ DOMAIN wk'[w] = Fields /\ wk'[w].job = j /\ wk'[w].control = wk[w].control
        /\ wk'[w].raw = wk[w].raw /\ wk'[w].ir = wk[w].ir /\ wk'[w].dup = wk[w].dup
        /\ wk'[w].pc = "tree_begin"
    BY <1>1, <1>2, <2>1 DEF Fields
  <2>5. wk[w].dup = None \/ HasBody(docs, wk[w].dup, z)
    BY <1>1, <1>7 DEF Evidence, ThreadOk, MayReuse
  <2> QED BY <2>2, <2>3, <2>4, <2>5, <1>5
<1> QED BY <1>6, <1>7

\* deterministic_page_tree: the document to reuse goes along.
LEMMA TreeOk ==
    ASSUME IInv, NEW w \in Workers, TreeBegin(w) \/ Tree(w)
    PROVE  IInv' /\ Grows(docs, docs')
<1> DEFINE j == wk[w].job
           s == "deterministic_page_tree"
<1> USE DEF At
<1>1. DOMAIN wk = Workers /\ ThreadOk(wk[w], docs) BY DEF IInv, ThreadsInv
<1>2. /\ j \in Jobs /\ DOMAIN wk[w] = Fields /\ wk[w].pc # "idle"
      /\ wk[w].control \in {"none", "paused", "cancelled"}
      /\ wk[w].raw \in Bytes /\ wk[w].ir.of \in Bytes
      /\ wk[w].dup = None \/ HasBody(docs, wk[w].dup, wk[w].ir.of)
  BY <1>1 DEF ThreadOk, TreeBegin, Tree, Pipeline, HasIr, MayReuse
<1>3. s \in Stages BY DEF Stages, IMPORT_STAGES
<1>4. JobsInv BY DEF IInv
<1>5. ASSUME JobsInv', docs' = docs, Others(w),
             DOMAIN wk'[w] = Fields, wk'[w].job = j, wk'[w].control = wk[w].control,
             wk'[w].raw = wk[w].raw, wk'[w].ir = wk[w].ir, wk'[w].dup = wk[w].dup,
             wk'[w].pc = AfterTree(w)
      PROVE  IInv' /\ Grows(docs, docs')
  <2>1. ThreadOk(wk'[w], docs) BY <1>2, <1>5, Placed DEF AfterTree
  <2> QED BY <1>5, <2>1, Quiet
<1>6. CASE TreeBegin(w)
  <2>1. CASE EnterStage(w, s, "tree") BY <2>1, <1>2, <1>3, Entered
  <2>2. CASE /\ wk' = [wk EXCEPT ![w].pc = AfterTree(w), ![w].active = s, ![w].tree = ckpt[j][s]]
             /\ UNCHANGED <<durable, open, reg, cancelling>>
    <3>1. JobsInv' /\ docs' = docs BY <2>2, <1>4, JobsUntouched
    <3>2. Others(w) BY <1>1, <2>2 DEF Others
    <3>3. /\ DOMAIN wk'[w] = Fields /\ wk'[w].job = j /\ wk'[w].control = wk[w].control
          /\ wk'[w].raw = wk[w].raw /\ wk'[w].ir = wk[w].ir /\ wk'[w].dup = wk[w].dup
          /\ wk'[w].pc = AfterTree(w)
      BY <1>1, <1>2, <2>2 DEF Fields
    <3> QED BY <3>1, <3>2, <3>3, <1>5
  <2>3. CASE FailAt(w, s) BY <2>3, <1>2, Failed
  <2> QED BY <1>6, <2>1, <2>2, <2>3 DEF TreeBegin
<1>7. CASE Tree(w)
  <2>1. PICK e : /\ wk' = [wk EXCEPT ![w].pc = AfterTree(w), ![w].tree = e]
                 /\ set_stage(w, s, "completed", e)
    BY <1>7 DEF Tree
  <2>2. JobsInv' /\ docs' = docs BY <2>1, <1>2, <1>3, <1>4, SetStage
  <2>3. Others(w) BY <1>1, <2>1 DEF Others
  <2>4. /\ DOMAIN wk'[w] = Fields /\ wk'[w].job = j /\ wk'[w].control = wk[w].control
        /\ wk'[w].raw = wk[w].raw /\ wk'[w].ir = wk[w].ir /\ wk'[w].dup = wk[w].dup
        /\ wk'[w].pc = AfterTree(w)
    BY <1>1, <1>2, <2>1 DEF Fields
  <2> QED BY <2>2, <2>3, <2>4, <1>5
<1> QED BY <1>6, <1>7

\* model_analysis and the entry of search.
LEMMA AnalysisOk ==
    ASSUME IInv, NEW w \in Workers, AnalysisBegin(w) \/ Analysis(w) \/ SearchBegin(w)
    PROVE  IInv' /\ Grows(docs, docs')
<1> DEFINE j == wk[w].job
           s == "model_analysis"
<1> USE DEF At
<1>1. DOMAIN wk = Workers /\ ThreadOk(wk[w], docs) BY DEF IInv, ThreadsInv
<1>2. /\ j \in Jobs /\ DOMAIN wk[w] = Fields /\ wk[w].pc # "idle"
      /\ wk[w].control \in {"none", "paused", "cancelled"}
      /\ wk[w].raw \in Bytes /\ wk[w].ir.of \in Bytes
  BY <1>1 DEF ThreadOk, AnalysisBegin, Analysis, SearchBegin, Pipeline, HasIr
<1>3. s \in Stages /\ "search" \in Stages BY DEF Stages, IMPORT_STAGES
<1>4. JobsInv BY DEF IInv
<1>5. ASSUME NEW e, JobsInv', docs' = docs,
             wk' = [wk EXCEPT ![w].pc = "search_begin", ![w].analysis = e]
      PROVE  IInv' /\ Grows(docs, docs')
  <2>1. Others(w) BY <1>1, <1>5 DEF Others
  <2>2. /\ DOMAIN wk'[w] = Fields /\ wk'[w].job = j /\ wk'[w].control = wk[w].control
        /\ wk'[w].raw = wk[w].raw /\ wk'[w].ir = wk[w].ir /\ wk'[w].pc = "search_begin"
    BY <1>1, <1>2, <1>5 DEF Fields
  <2>3. ThreadOk(wk'[w], docs) BY <1>2, <2>2, Placed
  <2> QED BY <1>5, <2>1, <2>3, Quiet
<1>6. CASE AnalysisBegin(w)
  <2>1. CASE EnterStage(w, s, "analysis") BY <2>1, <1>2, <1>3, Entered
  <2>2. CASE /\ wk' = [wk EXCEPT ![w].pc = "search_begin", ![w].analysis = ckpt[j][s]]
             /\ UNCHANGED <<durable, open, reg, cancelling>>
    BY <2>2, <1>4, <1>5, JobsUntouched
  <2>3. CASE Fail(w) BY <2>3, <1>2, Failed DEF Fail
  <2> QED BY <1>6, <2>1, <2>2, <2>3 DEF AnalysisBegin
<1>7. CASE Analysis(w)
  <2>1. CASE honor_control(w, s) BY <2>1, <1>2, Stopped DEF honor_control
  <2>2. CASE Stop(w, s, "paused") BY <2>2, <1>2, Stopped
  <2>3. ASSUME NEW e, wk' = [wk EXCEPT ![w].pc = "search_begin", ![w].analysis = e],
               set_stage(w, s, "completed", e)
        PROVE  IInv' /\ Grows(docs, docs')
    BY <2>3, <1>2, <1>3, <1>4, <1>5, SetStage
  <2> QED BY <1>7, <2>1, <2>2, <2>3 DEF Analysis
<1>8. CASE SearchBegin(w) BY <1>8, <1>2, <1>3, Entered DEF SearchBegin
<1> QED BY <1>6, <1>7, <1>8

-----------------------------------------------------------------------------
(* Publication.                                                            *)

\* A first document with these bytes, which is its own root or points at a root
\* with its body, extends the library.
LEMMA Published ==
    ASSUME IInv, NEW w \in Workers, wk[w].job \in Jobs, wk[w].raw \in Bytes,
           NEW ir \in Bytes, NEW root \in Bytes, NEW done, NEW skipped,
           Publish(w, [ir |-> ir, root |-> root, available |-> TRUE], done, skipped),
           \/ root = wk[w].raw
           \/ docs[root] # None /\ docs[root].root = root /\ BodyOf[docs[root].ir] = BodyOf[ir]
    PROVE  IInv' /\ Grows(docs, docs')
<1> DEFINE raw == wk[w].raw
           doc == [ir |-> ir, root |-> root, available |-> TRUE]
<1>1. CASE docs[raw] # None /\ Fail(w) BY <1>1, Failed DEF Fail
<1>2. CASE docs[raw] = None /\ docs' = [docs EXCEPT ![raw] = doc] /\ Complete(w, raw, done, skipped)
  <2>1. doc \in Documents BY DEF Documents
  <2>2. None \notin Documents BY ImportAssumption DEF ImportAssumption
  <2>3. docs \in [Bytes -> MaybeNone(Documents)] BY DEF IInv, LibraryInv
  <2> HIDE DEF doc
  <2>4. docs' \in [Bytes -> MaybeNone(Documents)] BY <1>2, <2>1, <2>3 DEF MaybeNone
  <2>5. docs'[raw] = doc /\ doc # None /\ doc.ir = ir /\ doc.root = root
    BY <1>2, <2>1, <2>2, <2>3 DEF doc
  <2>6. \A b \in Bytes \ {raw} : docs'[b] = docs[b] BY <1>2, <2>3
  <2>7. Grows(docs, docs') BY <1>2, <2>6 DEF Grows
  <2>8. CanonicalRoots'
    <3> SUFFICES ASSUME NEW b \in Bytes, docs'[b] # None
                 PROVE  /\ docs'[docs'[b].root] # None
                        /\ docs'[docs'[b].root].root = docs'[b].root
                        /\ BodyOf[docs'[docs'[b].root].ir] = BodyOf[docs'[b].ir]
      BY DEF CanonicalRoots
    <3>1. CASE b = raw
      <4>1. CASE root = raw BY <3>1, <4>1, <2>5
      <4>2. CASE docs[root] # None /\ docs[root].root = root /\ BodyOf[docs[root].ir] = BodyOf[ir]
        BY <3>1, <4>2, <1>2, <2>5, <2>6
      <4> QED BY <4>1, <4>2
    <3>2. CASE b # raw
      <4> DEFINE r == docs[b].root
      <4>1. docs'[b] = docs[b] BY <2>6, <3>2
      <4>2. docs[r] # None /\ docs[r].root = r /\ BodyOf[docs[r].ir] = BodyOf[docs[b].ir]
        BY <4>1 DEF IInv, LibraryInv, CanonicalRoots
      <4>3. docs[b] \in Documents BY <4>1, <2>3 DEF MaybeNone
      <4>4. r \in Bytes BY <4>3 DEF Documents
      <4>5. docs'[r] = docs[r] BY <4>2, <4>4, <1>2, <2>6
      <4> QED BY <4>1, <4>2, <4>5
    <3> QED BY <3>1, <3>2
  <2>9. LibraryInv' BY <2>4, <2>8 DEF LibraryInv
  <2> QED BY <1>2, <2>5, <2>7, <2>9, Completed
<1> QED BY <1>1, <1>2 DEF Publish

\* A job that reuses a document leaves the library alone.
LEMMA Reused ==
    ASSUME IInv, NEW w \in Workers, wk[w].job \in Jobs, NEW doc \in Bytes, NEW done, NEW skipped,
           Complete(w, doc, done, skipped), docs[doc] # None, UNCHANGED docs
    PROVE  IInv' /\ Grows(docs, docs')
<1>1. LibraryInv' BY DEF IInv, LibraryInv, CanonicalRoots
<1>2. Grows(docs, docs') BY DEF Grows
<1> QED BY <1>1, <1>2, Completed

\* The three transactions that end a run with a document.
LEMMA PublicationOk ==
    ASSUME IInv, NEW w \in Workers,
           complete_duplicate_job(w) \/ publish_document(w) \/ complete_content_duplicate_job(w)
    PROVE  IInv' /\ Grows(docs, docs')
<1> DEFINE raw == wk[w].raw
           dup == wk[w].dup
           z == wk[w].ir.of
<1> USE DEF At
<1>1. DOMAIN wk = Workers /\ ThreadOk(wk[w], docs) BY DEF IInv, ThreadsInv
<1>2. wk[w].job \in Jobs /\ raw \in Bytes
  BY <1>1 DEF ThreadOk, complete_duplicate_job, publish_document,
              complete_content_duplicate_job, Pipeline
<1>3. CASE complete_duplicate_job(w)
  <2>1. docs[raw] # None BY <1>1, <1>3 DEF complete_duplicate_job, ThreadOk
  <2> QED BY <2>1, <1>2, <1>3, Reused DEF complete_duplicate_job
<1>4. CASE publish_document(w)
  <2>1. z \in Bytes BY <1>1, <1>4 DEF publish_document, ThreadOk, HasIr
  <2>2. CASE find_available_document(raw) /\ Complete(w, raw, "search", {}) /\ UNCHANGED docs
    BY <2>2, <1>2, Reused DEF find_available_document
  <2>3. CASE Publish(w, [ir |-> z, root |-> raw, available |-> TRUE], "search", {})
    BY <2>1, <2>3, <1>2, Published
  <2> QED BY <1>4, <2>2, <2>3 DEF publish_document
<1>5. CASE complete_content_duplicate_job(w)
  <2>1. z \in Bytes /\ HasBody(docs, dup, z)
    BY <1>1, <1>5 DEF complete_content_duplicate_job, ThreadOk, HasIr, MayReuse
  <2>2. CASE /\ find_available_document(raw)
             /\ Complete(w, raw, "document_ir", After("document_ir"))
             /\ UNCHANGED docs
    BY <2>2, <1>2, Reused DEF find_available_document
  <2>3. CASE Publish(w, [ir |-> z, root |-> docs[dup].root, available |-> TRUE],
                     "search", {"model_analysis"})
    <3> DEFINE root == docs[dup].root
    <3>1. docs[dup] \in Documents BY <2>1 DEF HasBody, IInv, LibraryInv, MaybeNone
    <3>2. root \in Bytes BY <3>1 DEF Documents
    <3>3. docs[root] # None /\ docs[root].root = root /\ BodyOf[docs[root].ir] = BodyOf[z]
      BY <2>1 DEF HasBody, IInv, LibraryInv, CanonicalRoots
    <3> QED BY <2>1, <2>3, <3>2, <3>3, <1>2, Published
  <2>4. CASE Finish(w) /\ UNCHANGED <<durable, open, reg, cancelling>>
    <3>1. JobsInv' /\ docs' = docs BY <2>4, JobsUntouched DEF IInv
    <3>2. Others(w) /\ ThreadOk(wk'[w], docs) BY <2>4, <1>2, Finished
    <3> QED BY <3>1, <3>2, Quiet
  <2> QED BY <1>5, <2>2, <2>3, <2>4 DEF complete_content_duplicate_job
<1> QED BY <1>3, <1>4, <1>5

-----------------------------------------------------------------------------
(* Failures, requests, and what happens around the workers.                *)

\* The ways in which a run ends without a result (fail_job, pause, cancel, a lost gate)
\* leave documents alone.
LEMMA TroubleOk ==
    ASSUME IInv, NEW w \in Workers, Trouble(w) \/ mark_failed(w)
    PROVE  IInv' /\ Grows(docs, docs')
<1> DEFINE j == wk[w].job
<1> USE DEF At
<1>1. DOMAIN wk = Workers /\ ThreadOk(wk[w], docs) BY DEF IInv, ThreadsInv
<1>2. j \in Jobs
  BY <1>1 DEF ThreadOk, Trouble, mark_failed, AwaitModelConfiguration, LoseGate, StepFails,
              quarantine, Working
<1>3. CASE AwaitModelConfiguration(w)
  BY <1>2, <1>3, Stopped DEF AwaitModelConfiguration
<1>4. CASE LoseGate(w)
  <2>1. JobsInv' /\ docs' = docs BY <1>4, JobsUntouched DEF LoseGate, IInv
  <2>2. Others(w) /\ ThreadOk(wk'[w], docs) BY <1>2, <1>4, Finished DEF LoseGate
  <2> QED BY <2>1, <2>2, Quiet
<1>5. CASE StepFails(w) BY <1>2, <1>5, Failed DEF StepFails, Fail
<1>6. CASE quarantine(w)
  <2>1. CompletedIsPublished' BY <1>6 DEF quarantine, IInv, JobsInv, CompletedIsPublished
  <2>2. CheckpointsOk' BY <1>6 DEF quarantine, IInv, JobsInv, CheckpointsOk
  <2>3. JobsInv' /\ docs' = docs BY <2>1, <2>2, <1>6 DEF quarantine, IInv, JobsInv
  <2>4. Others(w) /\ ThreadOk(wk'[w], docs) BY <1>2, <1>6, Finished DEF quarantine
  <2> QED BY <2>3, <2>4, Quiet
<1>7. CASE mark_failed(w)
  <2>1. /\ DOMAIN quarantined' = Jobs
        /\ \A i \in Jobs : quarantined[i] = None => quarantined'[i] = None
    BY <1>2, <1>7 DEF mark_failed, IInv, JobsInv
  <2>2. CompletedIsPublished'
    BY <2>1, <1>7 DEF mark_failed, IInv, JobsInv, CompletedIsPublished
  <2>3. CheckpointsOk' BY <1>7 DEF mark_failed, IInv, JobsInv, CheckpointsOk
  <2>4. JobsInv' /\ docs' = docs BY <2>1, <2>2, <2>3, <1>7 DEF mark_failed, IInv, JobsInv
  <2>5. Others(w) /\ ThreadOk(wk'[w], docs) BY <1>2, <1>7, Finished DEF mark_failed
  <2> QED BY <2>4, <2>5, Quiet
<1> QED BY <1>3, <1>4, <1>5, <1>6, <1>7 DEF Trouble

\* A thread whose control is set relies on what it relied on before (_ImportControl).
LEMMA ControlOk ==
    ASSUME IInv, NEW w, NEW control \in {"paused", "cancelled"}, UNCHANGED durable,
           wk' = [wk EXCEPT ![w].control = control]
    PROVE  IInv' /\ Grows(docs, docs')
<1>1. JobsInv' /\ docs' = docs BY JobsUntouched DEF IInv
<1>2. DOMAIN wk = Workers /\ DOMAIN wk' = Workers BY DEF IInv, ThreadsInv
<1>3. CASE w \in Workers
  <2>1. Others(w) BY <1>2 DEF Others
  <2>2. ThreadOk(wk[w], docs) BY <1>3 DEF IInv, ThreadsInv
  <2>3. wk'[w] = [wk[w] EXCEPT !.control = control] BY <1>2, <1>3
  <2>4. /\ DOMAIN wk'[w] = Fields /\ wk'[w].control = control
        /\ wk'[w].job = wk[w].job /\ wk'[w].pc = wk[w].pc /\ wk'[w].raw = wk[w].raw
        /\ wk'[w].ir = wk[w].ir /\ wk'[w].dup = wk[w].dup
    BY <2>2, <2>3 DEF ThreadOk, Fields
  <2>5. ThreadOk(wk'[w], docs) BY <2>2, <2>4 DEF ThreadOk
  <2> QED BY <1>1, <1>3, <2>1, <2>5, Quiet
<1>4. CASE w \notin Workers
  <2>1. \A u \in Workers : wk'[u] = wk[u] BY <1>2, <1>4
  <2> QED BY <1>1, <1>2, <2>1 DEF IInv, ThreadsInv, LibraryInv, CanonicalRoots, Grows
<1> QED BY <1>3, <1>4

\* What the user asks for while workers run (pause, cancel, edit of a source) touches no document.
LEMMA RequestsOk ==
    ASSUME IInv,
           \/ \E w \in Workers : Release(w) \/ RequestPause(w)
           \/ \E j \in Jobs : RequestCancel(j)
    PROVE  IInv' /\ Grows(docs, docs')
<1>1. ASSUME NEW w \in Workers, Release(w) PROVE IInv' /\ Grows(docs, docs')
  <2>1. DOMAIN wk = Workers BY DEF IInv, ThreadsInv
  <2>2. JobsInv' /\ docs' = docs BY <1>1, JobsUntouched DEF Release, IInv
  <2>3. Others(w) /\ wk'[w] = Thread("idle", None) BY <1>1, <2>1 DEF Release, Others
  <2>4. ThreadOk(Thread("idle", None), docs)
    BY DEF ThreadOk, Thread, Fields, Pipeline, HasIr, MayReuse
  <2> QED BY <2>2, <2>3, <2>4, Quiet
<1>2. ASSUME NEW w \in Workers, RequestPause(w) PROVE IInv' /\ Grows(docs, docs')
  BY <1>2, ControlOk DEF RequestPause
<1>3. ASSUME NEW j \in Jobs, RequestCancel(j) PROVE IInv' /\ Grows(docs, docs')
  BY <1>3, ControlOk DEF RequestCancel
<1> QED BY <1>1, <1>2, <1>3

\* Steps that leave the threads and the library alone.
LEMMA ThreadsUntouched ==
    ASSUME IInv, JobsInv', docs' = docs, wk' = wk
    PROVE  IInv' /\ Grows(docs, docs')
BY DEF IInv, LibraryInv, CanonicalRoots, ThreadsInv, Grows

\* A crash and an opening of the knowledge base (_recover_interrupted_import_jobs) end runs, and link
\* no job to a document.
LEMMA AroundOk ==
    ASSUME IInv,
           \/ \E j \in Jobs : \/ EditSource(j) \/ CancelPausedCheck(j)
                              \/ CancelPausedPick(j) \/ CancelPausedWrite(j)
           \/ Crash
           \/ OpenKnowledgeBase
    PROVE  IInv' /\ Grows(docs, docs')
<1>1. ASSUME NEW j \in Jobs, EditSource(j) PROVE IInv' /\ Grows(docs, docs')
  <2>1. source' \in [Jobs -> Bytes] BY <1>1 DEF EditSource, IInv, JobsInv
  <2>2. JobsInv' /\ docs' = docs
    BY <1>1, <2>1 DEF EditSource, IInv, JobsInv, CheckpointsOk, CompletedIsPublished
  <2> QED BY <1>1, <2>2, ThreadsUntouched DEF EditSource
<1>2. ASSUME NEW j \in Jobs, CancelPausedCheck(j) \/ CancelPausedPick(j)
      PROVE  IInv' /\ Grows(docs, docs')
  BY <1>2, JobsUntouched, ThreadsUntouched DEF CancelPausedCheck, CancelPausedPick, IInv
<1>3. ASSUME NEW j \in Jobs, CancelPausedWrite(j) PROVE IInv' /\ Grows(docs, docs')
  <2>1. JobsInv' /\ docs' = docs BY <1>3, Controlled DEF CancelPausedWrite, IInv
  <2> QED BY <1>3, <2>1, ThreadsUntouched DEF CancelPausedWrite
<1>4. CASE Crash
  <2>1. JobsInv' /\ docs' = docs BY <1>4, JobsUntouched DEF Crash, IInv
  <2>2. ThreadOk(Thread("idle", None), docs)
    BY DEF ThreadOk, Thread, Fields, Pipeline, HasIr, MayReuse
  <2>3. ThreadsInv' BY <1>4, <2>1, <2>2 DEF Crash, ThreadsInv
  <2> QED BY <2>1, <2>3 DEF IInv, LibraryInv, CanonicalRoots, Grows
<1>5. CASE OpenKnowledgeBase
  <2>1. JobsInv' /\ docs' = docs
    BY <1>5 DEF OpenKnowledgeBase, IInv, JobsInv, CheckpointsOk, CompletedIsPublished
  <2> QED BY <1>5, <2>1, ThreadsUntouched DEF OpenKnowledgeBase
<1> QED BY <1>1, <1>2, <1>3, <1>4, <1>5

\* A withdrawn document stays where it was.
LEMMA WithdrawOk ==
    ASSUME IInv, NEW b \in Bytes, WithdrawDocument(b)
    PROVE  IInv' /\ Grows(docs, docs')
<1>1. docs \in [Bytes -> MaybeNone(Documents)] /\ docs[b] # None
  BY DEF IInv, LibraryInv, WithdrawDocument, find_available_document
<1>2. docs[b] \in Documents BY <1>1 DEF MaybeNone
<1>3. None \notin Documents BY ImportAssumption DEF ImportAssumption
<1> DEFINE new == [docs[b] EXCEPT !.available = FALSE]
<1>4. new \in Documents /\ new.ir = docs[b].ir /\ new.root = docs[b].root
  BY <1>2 DEF Documents
<1> HIDE DEF new
<1>5. docs' = [docs EXCEPT ![b] = new] BY DEF WithdrawDocument, new
<1>6. docs' \in [Bytes -> MaybeNone(Documents)] BY <1>1, <1>4, <1>5 DEF MaybeNone
<1>7. \A a \in Bytes : IF a = b THEN docs'[a] = new ELSE docs'[a] = docs[a]
  BY <1>1, <1>5
<1>8. \A a \in Bytes : /\ docs'[a] = None <=> docs[a] = None
                       /\ docs[a] # None => docs'[a].ir = docs[a].ir /\ docs'[a].root = docs[a].root
  BY <1>1, <1>3, <1>4, <1>7
<1>9. \A a \in Bytes : docs[a] # None => docs[a].root \in Bytes
  BY <1>1 DEF MaybeNone, Documents
<1>10. CanonicalRoots' BY <1>8, <1>9 DEF IInv, LibraryInv, CanonicalRoots
<1>11. LibraryInv' BY <1>6, <1>10 DEF LibraryInv
<1>12. Grows(docs, docs') BY <1>8 DEF Grows
<1>13. CompletedIsPublished'
  <2>1. \A j \in Jobs : document[j] # None => document[j] \in Bytes
    BY DEF IInv, JobsInv, MaybeNone
  <2> QED BY <2>1, <1>12 DEF WithdrawDocument, IInv, JobsInv, CompletedIsPublished, Grows
<1>14. JobsInv' BY <1>13 DEF WithdrawDocument, IInv, JobsInv, CheckpointsOk
<1>15. ThreadsInv'
  BY <1>12, GrowthKeepsThreads DEF WithdrawDocument, IInv, ThreadsInv
<1> QED BY <1>11, <1>12, <1>14, <1>15 DEF IInv

-----------------------------------------------------------------------------
(* The theorems.                                                           *)

\* An empty library, without jobs, satisfies the invariant.
LEMMA InitOk == Init => IInv
<1> SUFFICES ASSUME Init PROVE IInv OBVIOUS
<1>1. LibraryInv BY DEF Init, LibraryInv, CanonicalRoots, MaybeNone
<1>2. "raw_asset" \in Stages /\ "document_ir" \in Stages BY DEF Stages, IMPORT_STAGES
<1>3. CheckpointsOk BY <1>2 DEF Init, CheckpointsOk, NoCheckpoints, MaybeNone
<1>4. source \in [Jobs -> Bytes] BY ImportAssumption DEF ImportAssumption, Init
<1>5. JobsInv BY <1>3, <1>4 DEF Init, JobsInv, CompletedIsPublished, MaybeNone
<1>6. ThreadOk(Thread("idle", None), docs)
  BY DEF ThreadOk, Thread, Fields, Pipeline, HasIr, MayReuse
<1>7. ThreadsInv BY <1>6 DEF Init, ThreadsInv
<1> QED BY <1>1, <1>5, <1>7 DEF IInv

\* Every step of a worker, of a request and of the engine keeps the invariant, and documents
\* are only added.
LEMMA NextOk == IInv /\ [Next]_vars => IInv' /\ Grows(docs, docs')
<1> SUFFICES ASSUME IInv, [Next]_vars PROVE IInv' /\ Grows(docs, docs')
  OBVIOUS
<1>1. ASSUME NEW w \in Workers, Work(w) PROVE IInv' /\ Grows(docs, docs')
  <2>1. CASE \/ Start(w) \/ LoadRaw(w) \/ Preflight(w) \/ PreflightEnd(w)
             \/ RawBegin(w) \/ Raw(w)
    BY <2>1, RawInputOk
  <2>2. CASE IrBegin(w) \/ Ir(w) BY <2>2, IrOk
  <2>3. CASE EvidenceBegin(w) \/ Evidence(w) BY <2>3, EvidenceOk
  <2>4. CASE TreeBegin(w) \/ Tree(w) BY <2>4, TreeOk
  <2>5. CASE AnalysisBegin(w) \/ Analysis(w) \/ SearchBegin(w) BY <2>5, AnalysisOk
  <2>6. CASE \/ complete_duplicate_job(w) \/ publish_document(w)
             \/ complete_content_duplicate_job(w)
    BY <2>6, PublicationOk
  <2>7. CASE mark_failed(w) BY <2>7, TroubleOk
  <2>8. CASE Release(w) BY <2>8, RequestsOk
  <2> QED BY <1>1, <2>1, <2>2, <2>3, <2>4, <2>5, <2>6, <2>7, <2>8 DEF Work
<1>2. ASSUME NEW w \in Workers, Trouble(w) PROVE IInv' /\ Grows(docs, docs')
  BY <1>2, TroubleOk
<1>3. ASSUME NEW w \in Workers, RequestPause(w) PROVE IInv' /\ Grows(docs, docs')
  BY <1>3, RequestsOk
<1>4. ASSUME NEW w \in Workers, NEW j \in Jobs, Begin(w, j) PROVE IInv' /\ Grows(docs, docs')
  BY <1>4, BeginOk
<1>5. ASSUME NEW j \in Jobs, RequestCancel(j) PROVE IInv' /\ Grows(docs, docs')
  BY <1>5, RequestsOk
<1>6. ASSUME NEW j \in Jobs,
             EditSource(j) \/ CancelPausedCheck(j) \/ CancelPausedPick(j) \/ CancelPausedWrite(j)
      PROVE  IInv' /\ Grows(docs, docs')
  BY <1>6, AroundOk
<1>7. ASSUME NEW b \in Bytes, WithdrawDocument(b) PROVE IInv' /\ Grows(docs, docs')
  BY <1>7, WithdrawOk
<1>8. CASE Crash \/ OpenKnowledgeBase BY <1>8, AroundOk
<1>9. CASE UNCHANGED vars
  <2>1. JobsInv' /\ docs' = docs /\ wk' = wk BY <1>9, JobsUntouched DEF vars, IInv
  <2> QED BY <2>1, ThreadsUntouched
<1> QED BY <1>1, <1>2, <1>3, <1>4, <1>5, <1>6, <1>7, <1>8, <1>9 DEF Next

\* The invariant the properties rest on (runner.py: what _run may assume between
\* the transactions of store.py).
THEOREM Invariance == Spec => []IInv
<1>1. Init => IInv BY InitOk
<1>2. IInv /\ [Next]_vars => IInv' BY NextOk
<1> QED BY <1>1, <1>2, PTL DEF Spec

\* A completed job has its document and no quarantine row, in every schedule of
\* any number of workers (_complete_job_in and what shares its transaction).
THEOREM CompletionPublishes == Spec => []CompletedIsPublished
<1>1. IInv => CompletedIsPublished BY DEF IInv, JobsInv
<1> QED BY <1>1, Invariance, PTL

\* D1 chains are flat, whatever documents are withdrawn or published between the
\* lookup and the transaction (publish_content_duplicate_in).
THEOREM RootsAreCanonical == Spec => []CanonicalRoots
<1>1. IInv => CanonicalRoots BY DEF IInv, LibraryInv
<1> QED BY <1>1, Invariance, PTL

\* No failure, race or withdrawal replaces or removes a document, its content or
\* its root (publish_document_in, UNIQUE(asset_sha256)).
THEOREM DocumentsStay == Spec => LibraryOnlyGrows
<1>1. IInv /\ [Next]_vars =>
        [\A b \in Bytes : docs[b] # None =>
           docs'[b] # None /\ docs'[b].ir = docs[b].ir /\ docs'[b].root = docs[b].root]_docs
  BY NextOk DEF Grows
<1> QED BY <1>1, Invariance, PTL DEF Spec, LibraryOnlyGrows

-----------------------------------------------------------------------------
(* One thread for a job, and the promise to readers (Publication).  Both   *)
(* rest on what a job shows while a thread is at work on it: as long as no *)
(* thread but its own can change that, nobody takes the job over, and it   *)
(* is without a document until the thread completes it.  A cancel that is  *)
(* written late (cancel_paused_job) can change it, and a recovery accepts  *)
(* cancelled jobs; the proof assumes that not both happen.                 *)

\* What a cancel_paused_job call writes, whatever the job has become since it was checked.
Late(j) == IF "cancel_paused" \in Env[j] THEN {"cancelled"} ELSE {}

\* What a job can show while a thread works on it, and when it has its document.
Held(j) == {"running"} \cup Late(j)
Ended(j) == {"completed"} \cup Late(j)

\* No job that was cancelled late is taken over by a recovery.
NoTakeOver == \A j \in Jobs : "cancel_paused" \in Env[j] => {"recover", "reparse"} \cap Env[j] = {}

\* What cannot happen leaves no trace.
NoTrace ==
    /\ DOMAIN cancelling = Jobs
    /\ \A j \in Jobs : "cancel_paused" \in Env[j] \/ cancelling[j] = "no"
    /\ Happens("damage") \/ \A b \in Bytes : docs[b] # None => docs[b].available

RunsInv ==
    /\ \A w \in Workers : InRun(w) =>
         /\ job[wk[w].job] \in Held(wk[w].job) /\ document[wk[w].job] = None
         /\ \A u \in Workers \ {w} : InRun(u) => wk[u].job # wk[w].job
    /\ \A j \in Jobs : document[j] # None => job[j] \in Ended(j)
    /\ NoTrace

\* A step of the thread that runs a job, short of completing it.
Proceeds(w) ==
    LET j == wk[w].job IN
    /\ InRun(w) /\ Others(w)
    /\ \A i \in Jobs \ {j} : job'[i] = job[i]
    /\ InRun(w)' => wk'[w].job = j /\ job'[j] \in {"running", job[j]}
    /\ InRun(w)' \/ job'[j] # "running" \/ ~Unspoiled(j)
    /\ UNCHANGED <<document, docs, cancelling, open>>

\* The document of b is new, with a canonical root, or it is there.
Adds(w, b) ==
    /\ docs[b] = None /\ wk[w].ir.of \in Bytes
    /\ b = wk[w].raw /\ wk[w].pc \in {"search", "content_duplicate"}
    /\ \E root \in {b} \cup {c \in Bytes : docs[c] # None /\ docs[c].root = c} :
         docs' = [docs EXCEPT ![b] = [ir |-> wk[w].ir.of, root |-> root, available |-> TRUE]]

Reuses(b) == docs[b] # None /\ UNCHANGED docs

\* The step in which a thread completes its job with the document of b.
Concludes(w, b) ==
    /\ InRun(w) /\ Finish(w)
    /\ job' = [job EXCEPT ![wk[w].job] = "completed"]
    /\ document' = [document EXCEPT ![wk[w].job] = b]
    /\ UNCHANGED <<cancelling, open>>
    /\ Adds(w, b) \/ Reuses(b)

\* A thread takes up a job that no other one has.
TakesUp(w, j) ==
    /\ ~InRun(w) /\ Others(w) /\ wk'[w].job = j /\ InRun(w)'
    /\ job[j] \notin Held(j) \cup Ended(j)
    /\ job' = [job EXCEPT ![j] = "running"]
    /\ UNCHANGED <<document, docs, cancelling, open>>

SameButAvailable(b) ==
    /\ docs'[b] = None <=> docs[b] = None
    /\ docs[b] # None => docs'[b].root = docs[b].root /\ docs'[b].ir = docs[b].ir

\* A step that begins no run, and changes no status and no document that readers see.
Rests ==
    /\ \A u \in Workers : InRun(u)' => InRun(u) /\ wk'[u].job = wk[u].job
    /\ open' => open /\ \A u \in Workers : InRun(u) => InRun(u)'
    /\ \A b \in Bytes : SameButAvailable(b)
    /\ UNCHANGED <<job, document>>
    /\ NoTrace'

\* Every step is of one of these kinds.
Kinds ==
    \/ \E w \in Workers : Proceeds(w)
    \/ \E w \in Workers, b \in Bytes : Concludes(w, b)
    \/ \E w \in Workers, j \in Jobs : TakesUp(w, j)
    \/ Rests
    \/ \E j \in Jobs : CancelPausedWrite(j)
    \/ OpenKnowledgeBase

\* A transaction of set_stage, or none, within a run.
LEMMA Moved ==
    ASSUME IInv, NEW w \in Workers, InRun(w), Others(w), wk'[w].job = wk[w].job,
           job' = [job EXCEPT ![wk[w].job] = "running"] \/ job' = job, InRun(w)',
           UNCHANGED <<document, docs, cancelling, open>>
    PROVE  Proceeds(w)
<1>1. wk[w].job \in Jobs /\ DOMAIN job = Jobs
  BY DEF IInv, ThreadsInv, ThreadOk, JobsInv, InRun
<1> QED BY <1>1 DEF Proceeds

\* A run that ends without a document: pause, cancel, a lost gate (_set_terminal_control_state).
LEMMA Stopping ==
    ASSUME IInv, NEW w \in Workers, InRun(w), Finish(w), NEW status, status # "running",
           \/ job' = [job EXCEPT ![wk[w].job] = status]
           \/ job' = job /\ ~Unspoiled(wk[w].job),
           UNCHANGED <<document, docs, cancelling, open>>
    PROVE  Proceeds(w)
<1>1. DOMAIN wk = Workers BY DEF IInv, ThreadsInv
<1>2. wk' = [wk EXCEPT ![w] = Thread("done", wk[w].job)] BY DEF Finish
<1>3. Others(w) BY <1>1, <1>2 DEF Others
<1>4. wk'[w] = Thread("done", wk[w].job) BY <1>1, <1>2
<1>5. ~(InRun(w)') BY <1>4 DEF InRun, Thread
<1>6. wk[w].job \in Jobs /\ DOMAIN job = Jobs
  BY DEF IInv, ThreadsInv, ThreadOk, JobsInv, InRun
<1> QED BY <1>3, <1>5, <1>6 DEF Proceeds

\* So does a run that fails (fail_job), also when the record of it is lost.
LEMMA Failing ==
    ASSUME IInv, NEW w \in Workers, InRun(w), NEW s, FailAt(w, s)
    PROVE  Proceeds(w)
<1>1. DOMAIN wk = Workers /\ DOMAIN wk[w] = Fields
  BY DEF IInv, ThreadsInv, ThreadOk
<1>2. UNCHANGED <<document, docs, cancelling, open>> BY DEF FailAt
<1>3. \/ job' = [job EXCEPT ![wk[w].job] = "failed"]
      \/ job' = job /\ ~Unspoiled(wk[w].job)
  BY DEF FailAt, Unspoiled
<1>4. CASE Finish(w) BY <1>2, <1>3, <1>4, Stopping
<1>5. CASE wk' = [wk EXCEPT ![w].pc = "marking", ![w].active = s]
  <2>1. Others(w) BY <1>1, <1>5 DEF Others
  <2>2. wk'[w].pc = "marking" BY <1>1, <1>5 DEF Fields
  <2>3. ~(InRun(w)') BY <2>2 DEF InRun
  <2>4. wk[w].job \in Jobs /\ DOMAIN job = Jobs
    BY DEF IInv, ThreadsInv, ThreadOk, JobsInv, InRun
  <2> QED BY <1>2, <1>3, <2>1, <2>3, <2>4 DEF Proceeds
<1> QED BY <1>4, <1>5 DEF FailAt

\* Beginning a run of a job that no thread has (create_job, resume_job, begin of a recovery).
LEMMA BeginTakesUp ==
    ASSUME IInv, NoTakeOver, NEW w \in Workers, NEW j \in Jobs, Begin(w, j)
    PROVE  TakesUp(w, j)
<1>1. DOMAIN wk = Workers BY DEF IInv, ThreadsInv
<1>2. At(w, "idle") => ~InRun(w) BY DEF At, InRun
<1>3. CASE create_job(w, j)
  <2>1. Others(w) /\ wk'[w].job = j /\ InRun(w)'
    BY <1>1, <1>3 DEF create_job, Others, Thread, InRun
  <2> QED BY <2>1, <1>2, <1>3 DEF create_job, Idle, TakesUp, Held, Ended, Late
<1>4. CASE resume_job(w, j)
  <2>1. Others(w) /\ wk'[w].job = j /\ InRun(w)'
    BY <1>1, <1>4 DEF resume_job, Others, Thread, InRun
  <2> QED BY <2>1, <1>2, <1>4 DEF resume_job, Idle, TakesUp, Held, Ended, Late
<1>5. ASSUME NEW reparse \in BOOLEAN, begin_recovery(w, j, reparse) PROVE TakesUp(w, j)
  <2>1. Others(w) /\ wk'[w].job = j /\ InRun(w)'
    BY <1>1, <1>5 DEF begin_recovery, Others, Thread, InRun
  <2>2. "cancel_paused" \notin Env[j] BY <1>5 DEF begin_recovery, NoTakeOver
  <2> QED BY <2>1, <2>2, <1>2, <1>5 DEF begin_recovery, Idle, TakesUp, Held, Ended, Late
<1> QED BY <1>3, <1>4, <1>5 DEF Begin

\* The stages of _run and _raw_input, up to the point where the job can be completed.
LEMMA StagesProceed ==
    ASSUME IInv, NEW w \in Workers,
           \/ Start(w) \/ LoadRaw(w) \/ Preflight(w) \/ PreflightEnd(w) \/ RawBegin(w) \/ Raw(w)
           \/ IrBegin(w) \/ Ir(w) \/ EvidenceBegin(w) \/ Evidence(w)
           \/ TreeBegin(w) \/ Tree(w) \/ AnalysisBegin(w) \/ Analysis(w) \/ SearchBegin(w)
    PROVE  Proceeds(w)
<1> DEFINE j == wk[w].job
           Same == Others(w) /\ wk'[w].job = j /\ InRun(w)'
           Over == {"idle", "marking", "done"}
           Quietly == UNCHANGED <<durable, open, reg, cancelling>>
<1>1. DOMAIN wk = Workers /\ DOMAIN wk[w] = Fields
  BY DEF IInv, ThreadsInv, ThreadOk
<1>2. InRun(w)
  BY DEF InRun, At, Start, LoadRaw, Preflight, PreflightEnd, RawBegin, Raw, IrBegin, Ir,
         EvidenceBegin, Evidence, TreeBegin, Tree, AnalysisBegin, Analysis, SearchBegin
<1>3. ASSUME Same, NEW s, NEW status, NEW c, set_stage(w, s, status, c) PROVE Proceeds(w)
  BY <1>2, <1>3, Moved DEF set_stage
<1>4. ASSUME Same, Quietly PROVE Proceeds(w)
  BY <1>2, <1>4, Moved DEF durable
<1>5. ASSUME NEW s, NEW status, status # "running", Stop(w, s, status) PROVE Proceeds(w)
  BY <1>2, <1>5, Stopping DEF Stop, ControlState
<1>6. ASSUME NEW s, honor_control(w, s) PROVE Proceeds(w)
  <2>1. wk[w].control \in {"none", "paused", "cancelled"} BY DEF IInv, ThreadsInv, ThreadOk
  <2> QED BY <1>5, <1>6, <2>1 DEF honor_control
<1>7. ASSUME NEW s, FailAt(w, s) PROVE Proceeds(w)
  BY <1>2, <1>7, Failing
\* Where a thread goes next and what it takes along.
<1>8. ASSUME NEW place, place \notin Over, wk' = [wk EXCEPT ![w].pc = place] PROVE Same
  BY <1>1, <1>8 DEF Others, Fields, InRun
<1>9. ASSUME NEW place, NEW s, place \notin Over, wk' = [wk EXCEPT ![w].pc = place, ![w].active = s] PROVE Same
  BY <1>1, <1>9 DEF Others, Fields, InRun
<1>10. ASSUME NEW place, NEW z, place \notin Over,
                             \/ wk' = [wk EXCEPT ![w].pc = place, ![w].raw = z]
                             \/ wk' = [wk EXCEPT ![w].pc = place, ![w].ir = z]
                             \/ wk' = [wk EXCEPT ![w].pc = place, ![w].evidence = z]
                             \/ wk' = [wk EXCEPT ![w].pc = place, ![w].tree = z]
                             \/ wk' = [wk EXCEPT ![w].pc = place, ![w].analysis = z]
      PROVE Same
  BY <1>1, <1>10 DEF Others, Fields, InRun
<1>11. ASSUME NEW place, NEW z, NEW d, place \notin Over,
                                    \/ wk' = [wk EXCEPT ![w].pc = place, ![w].active = z, ![w].dup = d]
                                    \/ wk' = [wk EXCEPT ![w].pc = place, ![w].evidence = z, ![w].dup = d]
                                    \/ wk' = [wk EXCEPT ![w].pc = place, ![w].active = z, ![w].tree = d]
      PROVE Same
  BY <1>1, <1>11 DEF Others, Fields, InRun
<1>12. ASSUME NEW s, NEW place, place \notin Over, EnterStage(w, s, place) PROVE Proceeds(w)
  BY <1>3, <1>6, <1>9, <1>12 DEF EnterStage
<1>0. \A place \in {"load", "preflight"} \cup Pipeline : place \notin Over BY DEF Pipeline
<1> HIDE DEF Same, Quietly, Over
<1>13. CASE Start(w)
  <2>1. PICK place \in {"load", "preflight"} :
          \E s : wk' = [wk EXCEPT ![w].pc = place, ![w].active = s]
    BY <1>13 DEF Start
  <2>2. Same BY <1>0, <1>9, <2>1
  <2> QED BY <1>4, <1>13, <2>2 DEF Start, Quietly
<1>14. CASE LoadRaw(w) BY <1>0, <1>4, <1>7, <1>10, <1>14 DEF LoadRaw, Fail, Quietly, Pipeline
<1>15. CASE Preflight(w) BY <1>0, <1>3, <1>4, <1>6, <1>10, <1>15 DEF Preflight, Quietly, Pipeline
<1>16. CASE PreflightEnd(w) BY <1>0, <1>3, <1>8, <1>16 DEF PreflightEnd, Pipeline
<1>17. CASE RawBegin(w) BY <1>0, <1>3, <1>6, <1>8, <1>17 DEF RawBegin, Pipeline
<1>18. CASE Raw(w) BY <1>0, <1>3, <1>8, <1>18 DEF Raw, Pipeline
<1>19. CASE IrBegin(w) BY <1>0, <1>4, <1>7, <1>10, <1>12, <1>19 DEF IrBegin, Fail, Quietly, Pipeline
<1>20. CASE Ir(w) BY <1>0, <1>3, <1>10, <1>20 DEF Ir, Pipeline
<1>21. CASE EvidenceBegin(w)
  <2> DEFINE saved == ckpt[j]["evidence"]
  <2>1. ASSUME NEW d, set_stage(w, "evidence", "running", None),
               wk' = [wk EXCEPT ![w].pc = "evidence", ![w].active = "evidence", ![w].dup = d]
        PROVE  Proceeds(w)
    BY <1>0, <1>3, <1>11, <2>1 DEF Pipeline
  <2>2. ASSUME NEW d, UNCHANGED <<durable, open, reg, cancelling>>,
               wk' = [wk EXCEPT ![w].pc = "tree_begin", ![w].evidence = saved, ![w].dup = d]
        PROVE  Proceeds(w)
    BY <1>0, <1>4, <1>11, <2>2 DEF Quietly, Pipeline
  <2>3. CASE honor_control(w, "evidence") BY <1>6, <2>3
  <2>4. CASE Fail(w) BY <1>7, <2>4 DEF Fail
  <2> QED BY <1>21, <2>1, <2>2, <2>3, <2>4 DEF EvidenceBegin
<1>22. CASE Evidence(w) BY <1>0, <1>3, <1>10, <1>22 DEF Evidence, Pipeline
<1>23. CASE TreeBegin(w)
  <2> DEFINE s == "deterministic_page_tree"
             saved == ckpt[j][s]
  <2>1. CASE EnterStage(w, s, "tree") BY <1>0, <1>12, <2>1 DEF Pipeline
  <2>2. CASE /\ wk' = [wk EXCEPT ![w].pc = AfterTree(w), ![w].active = s, ![w].tree = saved]
             /\ UNCHANGED <<durable, open, reg, cancelling>>
    BY <1>0, <1>4, <1>11, <2>2 DEF Quietly, AfterTree, Pipeline
  <2>3. CASE FailAt(w, s) BY <1>7, <2>3
  <2> QED BY <1>23, <2>1, <2>2, <2>3 DEF TreeBegin
<1>24. CASE Tree(w) BY <1>0, <1>3, <1>10, <1>24 DEF Tree, AfterTree, Pipeline
<1>25. CASE AnalysisBegin(w)
  BY <1>0, <1>4, <1>7, <1>10, <1>12, <1>25 DEF AnalysisBegin, Fail, Quietly, Pipeline
<1>26. CASE Analysis(w) BY <1>0, <1>3, <1>5, <1>6, <1>10, <1>26 DEF Analysis, Pipeline
<1>27. CASE SearchBegin(w) BY <1>0, <1>12, <1>27 DEF SearchBegin, Pipeline
<1> QED BY <1>13, <1>14, <1>15, <1>16, <1>17, <1>18, <1>19, <1>20, <1>21, <1>22, <1>23, <1>24,
           <1>25, <1>26, <1>27

\* The transactions that end a run with a document add it with a canonical root or find it
\* (publish_document_in, publish_content_duplicate_in, complete_duplicate_job).
LEMMA EndsConclude ==
    ASSUME IInv, NoTrace, NEW w \in Workers,
           complete_duplicate_job(w) \/ publish_document(w) \/ complete_content_duplicate_job(w)
    PROVE  Proceeds(w) \/ \E b \in Bytes : Concludes(w, b)
<1> DEFINE j == wk[w].job
           raw == wk[w].raw
           dup == wk[w].dup
           z == wk[w].ir.of
<1>1. ThreadOk(wk[w], docs) BY DEF IInv, ThreadsInv
<1>2. /\ InRun(w) /\ raw \in Bytes
      /\ complete_duplicate_job(w) => docs[raw] # None
      /\ publish_document(w) => z \in Bytes
      /\ complete_content_duplicate_job(w) => z \in Bytes /\ HasBody(docs, dup, z)
  BY <1>1 DEF ThreadOk, complete_duplicate_job, publish_document, At, InRun,
              complete_content_duplicate_job, Pipeline, HasIr, MayReuse
<1>3. ASSUME NEW done, NEW skipped, Complete(w, raw, done, skipped),
             Adds(w, raw) \/ Reuses(raw)
      PROVE  Concludes(w, raw)
  BY <1>2, <1>3 DEF Complete, Concludes
<1>4. ASSUME NEW done, NEW skipped, Complete(w, raw, done, skipped), UNCHANGED docs,
             find_available_document(raw) \/ docs[raw] # None
      PROVE  Concludes(w, raw)
  BY <1>3, <1>4 DEF Reuses, find_available_document
<1>5. ASSUME NEW root \in {raw} \cup {c \in Bytes : docs[c] # None /\ docs[c].root = c},
             NEW done, NEW skipped, z \in Bytes, wk[w].pc \in {"search", "content_duplicate"},
             Publish(w, [ir |-> z, root |-> root, available |-> TRUE], done, skipped)
      PROVE  Proceeds(w) \/ Concludes(w, raw)
  <2>1. CASE Fail(w) BY <1>2, <2>1, Failing DEF Fail
  <2>2. CASE /\ docs[raw] = None
             /\ docs' = [docs EXCEPT ![raw] = [ir |-> z, root |-> root, available |-> TRUE]]
             /\ Complete(w, raw, done, skipped)
    <3>1. Adds(w, raw) BY <1>5, <2>2 DEF Adds
    <3> QED BY <1>3, <2>2, <3>1
  <2> QED BY <1>5, <2>1, <2>2 DEF Publish
<1>6. CASE complete_duplicate_job(w)
  BY <1>2, <1>4, <1>6 DEF complete_duplicate_job
<1>7. CASE publish_document(w)
  BY <1>2, <1>4, <1>5, <1>7 DEF publish_document, At
<1>8. CASE complete_content_duplicate_job(w)
  <2>1. CASE /\ find_available_document(raw)
             /\ Complete(w, raw, "document_ir", After("document_ir"))
             /\ UNCHANGED docs
    BY <1>2, <1>4, <2>1
  <2>2. CASE Publish(w, [ir |-> z, root |-> docs[dup].root, available |-> TRUE],
                     "search", {"model_analysis"})
    <3> DEFINE root == docs[dup].root
               skipped == {"model_analysis"}
    <3>1. dup \in Bytes /\ docs[dup] # None BY <1>2, <1>8 DEF HasBody
    <3>2. docs[dup] \in Documents BY <3>1 DEF IInv, LibraryInv, MaybeNone
    <3>3. root \in Bytes BY <3>2 DEF Documents
    <3>4. docs[root] # None /\ docs[root].root = root
      BY <3>1 DEF IInv, LibraryInv, CanonicalRoots
    <3>5. z \in Bytes BY <1>2, <1>8
    <3>6. root \in {raw} \cup {c \in Bytes : docs[c] # None /\ docs[c].root = c} BY <3>3, <3>4
    <3> HIDE DEF root, skipped
    <3>7. Publish(w, [ir |-> z, root |-> root, available |-> TRUE], "search", skipped)
      BY <2>2 DEF root, skipped
    <3> QED BY <1>2, <1>5, <1>8, <3>5, <3>6, <3>7 DEF complete_content_duplicate_job, At
  <2>3. CASE /\ ~find_available_document(dup) /\ Finish(w)
             /\ UNCHANGED <<durable, open, reg, cancelling>>
    <3>1. ~Unspoiled(j)
      BY <1>2, <1>8, <2>3 DEF HasBody, NoTrace, find_available_document, Unspoiled
    <3> QED BY <1>2, <2>3, <3>1, Stopping DEF durable
  <2> QED BY <1>8, <2>1, <2>2, <2>3 DEF complete_content_duplicate_job
<1> QED BY <1>6, <1>7, <1>8

\* The ways in which a run ends early (await_model_configuration, quarantine, fail_job).
LEMMA TroubleProceeds ==
    ASSUME IInv, NEW w \in Workers, Trouble(w)
    PROVE  Proceeds(w)
<1>1. CASE AwaitModelConfiguration(w)
  <2>1. InRun(w) BY <1>1 DEF AwaitModelConfiguration, At, InRun
  <2> QED BY <1>1, <2>1, Stopping DEF AwaitModelConfiguration, Stop, ControlState
<1>2. CASE LoseGate(w)
  <2>1. InRun(w) BY <1>2 DEF LoseGate, At, InRun
  <2>2. ~Unspoiled(wk[w].job) BY <1>2 DEF LoseGate, Unspoiled
  <2> QED BY <1>2, <2>1, <2>2, Stopping DEF LoseGate, durable
<1>3. CASE StepFails(w)
  <2>1. InRun(w) BY <1>3 DEF StepFails, Working, InRun
  <2> QED BY <1>3, <2>1, Failing DEF StepFails, Fail
<1>4. CASE quarantine(w)
  <2>1. InRun(w) BY <1>4 DEF quarantine, InRun
  <2> QED BY <1>4, <2>1, Stopping DEF quarantine
<1> QED BY <1>1, <1>2, <1>3, <1>4 DEF Trouble

\* A thread that ends, or whose control is set, begins no run.
LEMMA ThreadsRest ==
    ASSUME IInv, NEW w, NEW t, wk' = [wk EXCEPT ![w] = t],
           \/ t.pc \in {"idle", "marking", "done"} /\ ~InRun(w)
           \/ t.pc = wk[w].pc /\ t.job = wk[w].job
    PROVE  \A u \in Workers : /\ InRun(u)' <=> InRun(u)
                              /\ InRun(u)' => wk'[u].job = wk[u].job
<1>1. DOMAIN wk = Workers BY DEF IInv, ThreadsInv
<1>2. SUFFICES ASSUME NEW u \in Workers
               PROVE  /\ InRun(u)' <=> InRun(u)
                      /\ InRun(u)' => wk'[u].job = wk[u].job
  OBVIOUS
<1>3. CASE u = w
  <2>1. wk'[u] = t BY <1>1, <1>3
  <2> QED BY <1>2, <1>3, <2>1 DEF InRun
<1>4. CASE u # w
  <2>1. wk'[u] = wk[u] BY <1>1, <1>4
  <2> QED BY <1>2, <2>1 DEF InRun
<1> QED BY <1>3, <1>4

\* Requests, the ends of threads, and what happens to the files and the engine.
LEMMA OthersRest ==
    ASSUME IInv, NoTrace,
           \/ \E w \in Workers : mark_failed(w) \/ Release(w) \/ RequestPause(w)
           \/ \E j \in Jobs : \/ RequestCancel(j) \/ EditSource(j)
                              \/ CancelPausedCheck(j) \/ CancelPausedPick(j)
           \/ \E b \in Bytes : WithdrawDocument(b)
           \/ Crash
           \/ UNCHANGED vars
    PROVE  Rests
<1> DEFINE Threads == \A u \in Workers : /\ InRun(u)' <=> InRun(u)
                                         /\ InRun(u)' => wk'[u].job = wk[u].job
<1>1. ASSUME UNCHANGED docs
      PROVE  \A b \in Bytes : SameButAvailable(b)
  BY <1>1 DEF SameButAvailable
<1>2. ASSUME Threads, UNCHANGED <<docs, job, document, open>>, NoTrace' PROVE Rests
  BY <1>1, <1>2 DEF Rests
<1>3. ASSUME UNCHANGED <<cancelling, docs>> PROVE NoTrace' BY <1>3 DEF NoTrace
<1>4. ASSUME UNCHANGED wk PROVE Threads BY <1>4 DEF InRun
<1>5. DOMAIN wk = Workers BY DEF IInv, ThreadsInv
<1> HIDE DEF Threads
<1>6. ASSUME NEW w \in Workers, mark_failed(w) PROVE Rests
  <2>1. Threads BY <1>6, ThreadsRest DEF mark_failed, At, InRun, Finish, Thread, Threads
  <2> QED BY <1>2, <1>3, <1>6, <2>1 DEF mark_failed
<1>7. ASSUME NEW w \in Workers, Release(w) PROVE Rests
  <2>1. Threads BY <1>7, ThreadsRest DEF Release, At, InRun, Thread, Threads
  <2> QED BY <1>2, <1>3, <1>7, <2>1 DEF Release, durable
<1>8. ASSUME NEW w, NEW c, wk' = [wk EXCEPT ![w].control = c],
             UNCHANGED <<durable, cancelling, open>>
      PROVE  Rests
  <2> DEFINE t == [wk[w] EXCEPT !.control = c]
  <2>1. CASE w \in Workers
    <3>1. DOMAIN wk[w] = Fields BY <2>1 DEF IInv, ThreadsInv, ThreadOk
    <3>2. t.pc = wk[w].pc /\ t.job = wk[w].job BY <3>1 DEF Fields
    <3>3. wk' = [wk EXCEPT ![w] = t] BY <1>8
    <3> HIDE DEF t
    <3>4. Threads BY <3>2, <3>3, ThreadsRest DEF Threads
    <3> QED BY <1>2, <1>3, <1>8, <3>4 DEF durable
  <2>2. CASE w \notin Workers
    <3>1. Threads BY <1>5, <1>8, <2>2 DEF InRun, Threads
    <3> QED BY <1>2, <1>3, <1>8, <3>1 DEF durable
  <2> QED BY <2>1, <2>2
<1>9. ASSUME NEW w \in Workers, RequestPause(w) PROVE Rests
  BY <1>8, <1>9 DEF RequestPause
<1>10. ASSUME NEW j \in Jobs, RequestCancel(j) PROVE Rests
  BY <1>8, <1>10 DEF RequestCancel
<1>11. ASSUME NEW j \in Jobs, EditSource(j) PROVE Rests
  BY <1>2, <1>3, <1>4, <1>11 DEF EditSource
<1>12. ASSUME NEW j \in Jobs, CancelPausedCheck(j) \/ CancelPausedPick(j) PROVE Rests
  <2>1. /\ "cancel_paused" \in Env[j] /\ DOMAIN cancelling' = Jobs
        /\ \A i \in Jobs \ {j} : cancelling'[i] = cancelling[i]
    BY <1>12 DEF CancelPausedCheck, CancelPausedPick, NoTrace
  <2>2. NoTrace'
    BY <1>12, <2>1 DEF NoTrace, CancelPausedCheck, CancelPausedPick, durable
  <2> QED BY <1>2, <1>4, <1>12, <2>2 DEF CancelPausedCheck, CancelPausedPick, durable
<1>13. ASSUME NEW b \in Bytes, WithdrawDocument(b) PROVE Rests
  <2> DEFINE new == [docs[b] EXCEPT !.available = FALSE]
  <2>1. docs[b] \in Documents /\ DOMAIN docs = Bytes
    BY <1>13 DEF IInv, LibraryInv, WithdrawDocument, find_available_document, MaybeNone
  <2>2. new \in Documents /\ new.root = docs[b].root /\ new.ir = docs[b].ir
    BY <2>1 DEF Documents
  <2>3. new # None /\ docs[b] # None BY <2>1, <2>2, ImportAssumption DEF ImportAssumption
  <2>4. docs' = [docs EXCEPT ![b] = new] BY <1>13 DEF WithdrawDocument
  <2> HIDE DEF new
  <2>5. \A a \in Bytes : SameButAvailable(a)
    BY <2>1, <2>2, <2>3, <2>4 DEF SameButAvailable
  <2>6. Threads /\ NoTrace' BY <1>4, <1>13 DEF WithdrawDocument, NoTrace
  <2> QED BY <1>13, <2>5, <2>6 DEF WithdrawDocument, Rests, Threads
<1>14. CASE Crash
  <2>1. \A u \in Workers : ~(InRun(u)') BY <1>14 DEF Crash, Thread, InRun
  <2>2. NoTrace' BY <1>14 DEF Crash, NoTrace, durable
  <2> QED BY <1>1, <1>14, <2>1, <2>2 DEF Crash, durable, Rests
<1>15. CASE UNCHANGED vars BY <1>2, <1>3, <1>4, <1>15 DEF vars, durable
<1> QED BY <1>6, <1>7, <1>9, <1>10, <1>11, <1>12, <1>13, <1>14, <1>15

\* So every step of the imports is of one of the kinds.
LEMMA StepsHaveKinds ==
    ASSUME IInv, NoTrace, NoTakeOver, [Next]_vars
    PROVE  Kinds
<1>1. ASSUME NEW w \in Workers, Work(w) PROVE Kinds
  <2>1. CASE mark_failed(w) \/ Release(w) BY <2>1, OthersRest DEF Kinds
  <2>2. CASE \/ complete_duplicate_job(w) \/ publish_document(w)
             \/ complete_content_duplicate_job(w)
    BY <2>2, EndsConclude DEF Kinds
  <2>3. CASE \/ Start(w) \/ LoadRaw(w) \/ Preflight(w) \/ PreflightEnd(w) \/ RawBegin(w)
             \/ Raw(w) \/ IrBegin(w) \/ Ir(w) \/ EvidenceBegin(w) \/ Evidence(w)
             \/ TreeBegin(w) \/ Tree(w) \/ AnalysisBegin(w) \/ Analysis(w) \/ SearchBegin(w)
    BY <2>3, StagesProceed DEF Kinds
  <2> QED BY <1>1, <2>1, <2>2, <2>3 DEF Work
<1>2. ASSUME NEW w \in Workers, Trouble(w) PROVE Kinds
  BY <1>2, TroubleProceeds DEF Kinds
<1>3. ASSUME NEW w \in Workers, RequestPause(w) PROVE Kinds
  BY <1>3, OthersRest DEF Kinds
<1>4. ASSUME NEW w \in Workers, NEW j \in Jobs, Begin(w, j) PROVE Kinds
  BY <1>4, BeginTakesUp DEF Kinds
<1>5. ASSUME NEW j \in Jobs, \/ RequestCancel(j) \/ EditSource(j)
                             \/ CancelPausedCheck(j) \/ CancelPausedPick(j)
      PROVE  Kinds
  BY <1>5, OthersRest DEF Kinds
<1>6. ASSUME NEW j \in Jobs, CancelPausedWrite(j) PROVE Kinds
  BY <1>6 DEF Kinds
<1>7. ASSUME NEW b \in Bytes, WithdrawDocument(b) PROVE Kinds
  BY <1>7, OthersRest DEF Kinds
<1>8. CASE Crash \/ UNCHANGED vars BY <1>8, OthersRest DEF Kinds
<1>9. CASE OpenKnowledgeBase BY <1>9 DEF Kinds
<1> QED BY <1>1, <1>2, <1>3, <1>4, <1>5, <1>6, <1>7, <1>8, <1>9 DEF Next

\* What RunsInv says of a thread and its job is kept by the step of that thread, and by those
\* of others because their jobs differ (resume_job and begin of a recovery test the status).
LEMMA RunsKept ==
    ASSUME IInv, RunsInv, Kinds
    PROVE  RunsInv'
<1>1. /\ DOMAIN wk = Workers /\ DOMAIN job = Jobs /\ DOMAIN document = Jobs
      /\ \A w \in Workers : InRun(w) => wk[w].job \in Jobs
  BY DEF IInv, ThreadsInv, ThreadOk, JobsInv, InRun
<1>2. /\ \A w \in Workers : InRun(w) =>
           /\ job[wk[w].job] \in Held(wk[w].job) /\ document[wk[w].job] = None
           /\ \A u \in Workers \ {w} : InRun(u) => wk[u].job # wk[w].job
      /\ \A j \in Jobs : document[j] # None => job[j] \in Ended(j)
      /\ NoTrace
  BY DEF RunsInv
<1>3. \A j \in Jobs : "running" \in Held(j) /\ "completed" \in Ended(j) BY DEF Held, Ended
<1>4. ASSUME UNCHANGED <<cancelling, docs>> PROVE NoTrace' BY <1>2, <1>4 DEF NoTrace
<1>5. ASSUME NEW w \in Workers, Proceeds(w) PROVE RunsInv'
  <2> DEFINE j == wk[w].job
  <2>1. /\ InRun(w) /\ j \in Jobs
        /\ \A u \in Workers \ {w} : wk'[u] = wk[u] /\ (InRun(u)' <=> InRun(u))
        /\ \A i \in Jobs \ {j} : job'[i] = job[i]
        /\ InRun(w)' => wk'[w].job = j /\ job'[j] \in Held(j)
        /\ document' = document /\ NoTrace'
    BY <1>1, <1>2, <1>3, <1>4, <1>5 DEF Proceeds, Others, InRun
  <2>2. ASSUME NEW u \in Workers, InRun(u)'
        PROVE  /\ InRun(u) /\ wk'[u].job = wk[u].job
               /\ job'[wk'[u].job] \in Held(wk'[u].job) /\ document'[wk'[u].job] = None
    BY <1>1, <1>2, <2>1, <2>2
  <2>3. ASSUME NEW i \in Jobs, document'[i] # None PROVE job'[i] \in Ended(i)
    BY <1>2, <2>1, <2>3
  <2> QED BY <1>2, <2>1, <2>2, <2>3 DEF RunsInv
<1>6. ASSUME NEW w \in Workers, NEW b \in Bytes, Concludes(w, b) PROVE RunsInv'
  <2> DEFINE j == wk[w].job
  <2>1. InRun(w) /\ j \in Jobs BY <1>1, <1>6 DEF Concludes
  <2>2. wk'[w].pc = "done" /\ \A u \in Workers \ {w} : wk'[u] = wk[u]
    BY <1>1, <1>6 DEF Concludes, Finish, Thread
  <2>3. ~(InRun(w)') /\ \A u \in Workers \ {w} : InRun(u)' <=> InRun(u)
    BY <2>2 DEF InRun
  <2>4. /\ \A i \in Jobs \ {j} : job'[i] = job[i] /\ document'[i] = document[i]
        /\ job'[j] \in Ended(j)
    BY <1>1, <1>3, <1>6, <2>1 DEF Concludes
  <2>5. ASSUME NEW u \in Workers, InRun(u)'
        PROVE  /\ InRun(u) /\ wk'[u].job = wk[u].job
               /\ job'[wk'[u].job] \in Held(wk'[u].job) /\ document'[wk'[u].job] = None
    BY <1>1, <1>2, <2>1, <2>2, <2>3, <2>4, <2>5
  <2>6. \A i \in Jobs : document'[i] # None => job'[i] \in Ended(i)
    BY <1>2, <2>4
  <2>7. NoTrace'
    <3>1. CASE Reuses(b) BY <1>4, <1>6, <3>1 DEF Concludes, Reuses
    <3>2. CASE Adds(w, b)
      <4>1. DOMAIN docs = Bytes BY DEF IInv, LibraryInv
      <4>2. \A a \in Bytes : (docs'[a] # None /\ docs'[a].available) \/ docs'[a] = docs[a]
        BY <3>2, <4>1, ImportAssumption DEF Adds, Documents, ImportAssumption
      <4> QED BY <1>2, <1>6, <4>2 DEF Concludes, NoTrace
    <3> QED BY <1>6, <3>1, <3>2 DEF Concludes
  <2> QED BY <1>2, <2>4, <2>5, <2>6, <2>7 DEF RunsInv
<1>7. ASSUME NEW w \in Workers, NEW j \in Jobs, TakesUp(w, j) PROVE RunsInv'
  <2>1. /\ ~InRun(w) /\ wk'[w].job = j /\ job[j] \notin Held(j) \cup Ended(j)
        /\ \A u \in Workers \ {w} : wk'[u] = wk[u] /\ (InRun(u)' <=> InRun(u))
        /\ job'[j] = "running" /\ \A i \in Jobs \ {j} : job'[i] = job[i]
        /\ document' = document /\ NoTrace'
    BY <1>1, <1>4, <1>7 DEF TakesUp, Others, InRun
  <2>2. \A u \in Workers \ {w} : InRun(u) => wk[u].job # j
    BY <1>2, <2>1
  <2>3. document[j] = None BY <1>2, <2>1
  <2>4. \A u \in Workers : InRun(u)' =>
          /\ job'[wk'[u].job] \in Held(wk'[u].job) /\ document'[wk'[u].job] = None
          /\ u # w => InRun(u) /\ wk'[u].job = wk[u].job /\ wk[u].job # j
    BY <1>1, <1>2, <1>3, <2>1, <2>2, <2>3
  <2>5. \A i \in Jobs : document'[i] # None => job'[i] \in Ended(i)
    BY <1>2, <2>1, <2>3
  <2> QED BY <1>2, <2>1, <2>4, <2>5 DEF RunsInv
<1>8. CASE Rests
  <2>1. /\ \A u \in Workers : InRun(u)' => InRun(u) /\ wk'[u].job = wk[u].job
        /\ job' = job /\ document' = document /\ NoTrace'
    BY <1>8 DEF Rests
  <2> QED BY <1>2, <2>1 DEF RunsInv
<1>9. ASSUME NEW j \in Jobs, CancelPausedWrite(j) PROVE RunsInv'
  <2>1. "no" \notin Stages BY DEF Stages, IMPORT_STAGES
  <2>2. "cancel_paused" \in Env[j] BY <1>2, <1>9, <2>1 DEF CancelPausedWrite, NoTrace
  <2>3. "cancelled" \in Held(j) /\ "cancelled" \in Ended(j) /\ NoTrace'
    BY <1>2, <1>9, <2>2 DEF CancelPausedWrite, ControlState, Held, Ended, Late, NoTrace
  <2>4. /\ \A i \in Jobs : job'[i] = IF i = j THEN "cancelled" ELSE job[i]
        /\ document' = document /\ wk' = wk
    BY <1>1, <1>9 DEF CancelPausedWrite, ControlState
  <2>5. \A u \in Workers : InRun(u)' <=> InRun(u) BY <2>4 DEF InRun
  <2> QED BY <1>1, <1>2, <2>3, <2>4, <2>5 DEF RunsInv
<1>10. CASE OpenKnowledgeBase
  <2>1. wk' = wk /\ \A w \in Workers : ~InRun(w) /\ ~(InRun(w)')
    BY <1>10 DEF OpenKnowledgeBase, InRun
  <2>2. /\ \A i \in Jobs : job[i] # "running" => job'[i] = job[i]
        /\ document' = document /\ NoTrace'
    BY <1>1, <1>4, <1>10 DEF OpenKnowledgeBase
  <2>3. \A j \in Jobs : "running" \notin Ended(j) BY DEF Ended, Late
  <2> QED BY <1>2, <2>1, <2>2, <2>3 DEF RunsInv
<1> QED BY <1>5, <1>6, <1>7, <1>8, <1>9, <1>10 DEF Kinds

\* No step leaves a job behind that shows as running, unless the job is one of those that may be
\* spoiled (pause_job, fail_job, await_model_configuration, _recover_interrupted_import_jobs).
LEMMA AttendanceKept ==
    ASSUME IInv, RunsInv, WorkIsAttended, Kinds
    PROVE  WorkIsAttended'
<1>1. DOMAIN wk = Workers /\ DOMAIN job = Jobs BY DEF IInv, ThreadsInv, JobsInv
<1>2. SUFFICES ASSUME open', NEW i \in Jobs, job'[i] = "running", Unspoiled(i)
               PROVE  Worked(i)'
  BY DEF WorkIsAttended
\* It is enough that the job was running and that a thread that works on it goes on doing so.
<1>3. ASSUME open, job[i] = "running",
             \A u \in Workers : InRun(u) /\ wk[u].job = i => InRun(u)' /\ wk'[u].job = i
      PROVE  Worked(i)'
  BY <1>2, <1>3 DEF WorkIsAttended, Worked
<1>4. ASSUME NEW w \in Workers, Proceeds(w) PROVE Worked(i)'
  <2>1. \A u \in Workers \ {w} : wk'[u] = wk[u] /\ (InRun(u)' <=> InRun(u))
    BY <1>4 DEF Proceeds, Others, InRun
  <2>2. CASE i = wk[w].job
    <3>1. InRun(w)' /\ wk'[w].job = i BY <1>2, <1>4, <2>2 DEF Proceeds
    <3> QED BY <3>1 DEF Worked
  <2>3. CASE i # wk[w].job
    <3>1. open /\ job[i] = "running" BY <1>2, <1>4, <2>3 DEF Proceeds
    <3> QED BY <1>3, <2>1, <2>3, <3>1
  <2> QED BY <2>2, <2>3
<1>5. ASSUME NEW w \in Workers, NEW b \in Bytes, Concludes(w, b) PROVE Worked(i)'
  <2>1. i # wk[w].job /\ open /\ job[i] = "running"
    BY <1>1, <1>2, <1>5 DEF Concludes
  <2>2. \A u \in Workers \ {w} : wk'[u] = wk[u] /\ (InRun(u)' <=> InRun(u))
    BY <1>1, <1>5 DEF Concludes, Finish, InRun
  <2> QED BY <1>3, <2>1, <2>2
<1>6. ASSUME NEW w \in Workers, NEW j \in Jobs, TakesUp(w, j) PROVE Worked(i)'
  <2>1. \A u \in Workers \ {w} : wk'[u] = wk[u] /\ (InRun(u)' <=> InRun(u))
    BY <1>6 DEF TakesUp, Others, InRun
  <2>2. CASE i = j BY <1>6, <2>2 DEF TakesUp, Worked
  <2>3. CASE i # j
    <3>1. open /\ job[i] = "running" /\ ~InRun(w) BY <1>1, <1>2, <1>6, <2>3 DEF TakesUp
    <3> QED BY <1>3, <2>1, <3>1
  <2> QED BY <2>2, <2>3
<1>7. CASE Rests BY <1>2, <1>3, <1>7 DEF Rests
<1>8. ASSUME NEW j \in Jobs, CancelPausedWrite(j) PROVE Worked(i)'
  <2>1. job[i] = "running" /\ open /\ wk' = wk
    BY <1>1, <1>2, <1>8 DEF CancelPausedWrite, ControlState
  <2> QED BY <1>3, <2>1 DEF InRun
<1>9. CASE OpenKnowledgeBase BY <1>1, <1>2, <1>9 DEF OpenKnowledgeBase
<1> QED BY <1>4, <1>5, <1>6, <1>7, <1>8, <1>9 DEF Kinds

\* What readers see of library d.
RootsOf(d) == [b \in Bytes |-> IF d[b] = None THEN None ELSE d[b].root]

\* A step adds one document in the step in which its job ends, ends a job with a document that
\* is there, or changes nothing that readers see.
LEMMA StepsPublish ==
    ASSUME IInv, RunsInv, Kinds
    PROVE  [Publications!PubNext]_<<RootsOf(docs), document>>
<1>1. ASSUME UNCHANGED <<docs, document>> PROVE UNCHANGED <<RootsOf(docs), document>>
  BY <1>1 DEF RootsOf
<1>2. ASSUME NEW w \in Workers, NEW b \in Bytes, Concludes(w, b)
      PROVE  Publications!PubNext
  <2> DEFINE j == wk[w].job
  <2>1. j \in Jobs /\ document[j] = None
    BY <1>2 DEF Concludes, IInv, ThreadsInv, ThreadOk, InRun, RunsInv
  <2>2. Publications!End(j, b) BY <1>2, <2>1 DEF Concludes, Publications!End
  <2>3. CASE Reuses(b)
    <3>1. docs[b] \in Documents BY <2>3 DEF Reuses, IInv, LibraryInv, MaybeNone
    <3>2. docs[b].root # None BY <3>1, ImportAssumption DEF Documents, ImportAssumption
    <3>3. Publications!Reuse(j, b)
      BY <2>2, <2>3, <3>2 DEF Reuses, Publications!Reuse
    <3> QED BY <2>1, <3>3 DEF Publications!PubNext
  <2>4. CASE Adds(w, b)
    <3>1. PICK root \in {b} \cup {c \in Bytes : docs[c] # None /\ docs[c].root = c} :
            docs' = [docs EXCEPT ![b] = [ir |-> wk[w].ir.of, root |-> root, available |-> TRUE]]
      BY <2>4 DEF Adds
    <3> DEFINE doc == [ir |-> wk[w].ir.of, root |-> root, available |-> TRUE]
    <3>2. doc \in Documents /\ doc.root = root BY <2>4, <3>1 DEF Adds, Documents
    <3>3. doc # None BY <3>2, ImportAssumption DEF ImportAssumption
    <3>4. docs' = [docs EXCEPT ![b] = doc] /\ docs[b] = None BY <2>4, <3>1 DEF Adds
    <3>5. DOMAIN docs = Bytes BY DEF IInv, LibraryInv
    <3> HIDE DEF doc
    <3>6. RootsOf(docs') = [RootsOf(docs) EXCEPT ![b] = root]
      BY <3>2, <3>3, <3>4, <3>5 DEF RootsOf
    <3>7. root \in {b} \cup {c \in Bytes : RootsOf(docs)[c] = c}
      BY <3>1 DEF RootsOf
    <3>8. RootsOf(docs)[b] = None BY <3>4 DEF RootsOf
    <3>9. Publications!Add(j, b)
      BY <2>2, <3>6, <3>7, <3>8 DEF Publications!Add, RootsOf
    <3> QED BY <2>1, <3>9 DEF Publications!PubNext
  <2> QED BY <1>2, <2>3, <2>4 DEF Concludes
<1>3. CASE Rests
  <2>1. RootsOf(docs') = RootsOf(docs) BY <1>3 DEF Rests, SameButAvailable, RootsOf
  <2> QED BY <1>3, <2>1 DEF Rests
<1>4. CASE \/ \E w \in Workers : Proceeds(w)
           \/ \E w \in Workers, j \in Jobs : TakesUp(w, j)
           \/ \E j \in Jobs : CancelPausedWrite(j)
           \/ OpenKnowledgeBase
  <2>1. UNCHANGED <<docs, document>>
    BY <1>4 DEF Proceeds, TakesUp, CancelPausedWrite, ControlState, OpenKnowledgeBase
  <2> QED BY <1>1, <2>1
<1> QED BY <1>2, <1>3, <1>4 DEF Kinds

\* At any time a job is in the hands of one thread and shows it, whatever is paused, crashes or
\* fails (store.py: resume_job; recovery.py: begin), where no late cancel meets a recovery.
THEOREM RunsAreExclusive == ASSUME NoTakeOver PROVE Spec => []RunsInv
<1>1. Init => IInv /\ RunsInv
  <2> SUFFICES ASSUME Init PROVE RunsInv BY InitOk
  <2>1. \A w \in Workers : ~InRun(w) BY DEF Init, Thread, InRun
  <2>2. (\A j \in Jobs : document[j] = None) /\ NoTrace BY DEF Init, NoTrace
  <2> QED BY <2>1, <2>2 DEF RunsInv
<1>2. IInv /\ RunsInv /\ [Next]_vars => IInv' /\ RunsInv'
  BY NextOk, StepsHaveKinds, RunsKept, NoTakeOver DEF RunsInv
<1> QED BY <1>1, <1>2, PTL DEF Spec

\* Readers get what Publication promises: documents are added whole, once and for good, each in
\* the step in which its job ends, and a job ends with one document (_complete_job_in).
THEOREM ImportsImplementPublication == ASSUME NoTakeOver PROVE Spec => ImplementsPublication
<1>1. Init => Publications!PubInit
  BY DEF Init, Publications!PubInit
<1>2. IInv /\ RunsInv /\ [Next]_vars => [Publications!PubNext]_<<RootsOf(docs), document>>
  BY StepsHaveKinds, StepsPublish, NoTakeOver DEF RunsInv
<1>3. IInv /\ RunsInv /\ [Next]_vars =>
        [Publications!PubNext]_<<[b \in Bytes |-> IF docs[b] = None THEN None ELSE docs[b].root],
                                 document>>
  BY <1>2 DEF RootsOf
<1> QED BY <1>1, <1>3, Invariance, RunsAreExclusive, NoTakeOver, PTL
    DEF Spec, ImplementsPublication, Publications!PubSpec

\* While the knowledge base is open, a job that shows as running has a thread, so that it can be
\* paused and cancelled: no way to stop a job leaves it behind but the known ones (fail_job,
\* _set_terminal_control_state, await_model_configuration, _recover_interrupted_import_jobs).
THEOREM RunningIsAttended == ASSUME NoTakeOver PROVE Spec => []WorkIsAttended
<1>1. Init => WorkIsAttended BY DEF Init, WorkIsAttended
<1>2. IInv /\ RunsInv /\ WorkIsAttended /\ [Next]_vars => WorkIsAttended'
  BY StepsHaveKinds, AttendanceKept, NoTakeOver DEF RunsInv
<1> QED BY <1>1, <1>2, Invariance, RunsAreExclusive, NoTakeOver, PTL DEF Spec

\* No job is cancelled while its thread may be taking it up again (cancel_paused_job).
NoLateCancel == \A j \in Jobs : "cancel_paused" \notin Env[j]

\* Without late cancels, a job has one thread, and shows as running as long as it has one
\* (store.py: resume_job; recovery.py: begin).
THEOREM JobsHaveOneWorker == ASSUME NoLateCancel PROVE Spec => []OneWorkerPerJob
<1>1. NoTakeOver BY NoLateCancel DEF NoLateCancel, NoTakeOver
<1>2. IInv /\ RunsInv => OneWorkerPerJob
  BY NoLateCancel DEF NoLateCancel, RunsInv, OneWorkerPerJob, Held, Late, IInv, ThreadsInv,
                      ThreadOk, InRun
<1> QED BY <1>1, <1>2, Invariance, RunsAreExclusive, PTL

\* Nor does a job that counts as cancelled have a document: only the late write of a cancel
\* (cancel_paused_job) lets one end that way.
THEOREM CancelledStaysUnpublished == ASSUME NoLateCancel PROVE Spec => []CancelledIsUnpublished
<1>1. NoTakeOver BY NoLateCancel DEF NoLateCancel, NoTakeOver
<1>2. IInv /\ RunsInv => CancelledIsUnpublished
  BY NoLateCancel DEF NoLateCancel, RunsInv, CancelledIsUnpublished, Ended, Late
<1> QED BY <1>1, <1>2, Invariance, RunsAreExclusive, PTL

-----------------------------------------------------------------------------
(* What a run may rely on.                                                 *)

StageStates == {"pending", "running", "paused", "skipped", "completed", "failed", "cancelled"}
JobStates == Live \cup {"absent", "failed", "cancelled", "completed"}

\* The points of a run that have the evidence, or the page tree.
HasEvidence == {"tree_begin", "tree", "content_duplicate", "analysis_begin", "analysis",
                "search_begin", "search"}
HasTree == {"content_duplicate", "analysis_begin", "analysis", "search_begin", "search"}
HasAnalysis == {"search_begin", "search"}

-----------------------------------------------------------------------------
(* Types.                                                                  *)

RowsTyped ==
    /\ job \in [Jobs -> JobStates]
    /\ stage \in [Jobs -> [Stages -> StageStates]]
    /\ \A j \in Jobs, s \in Stages : ckpt[j][s] \in MaybeNone(Checkpoint(s))
    /\ quarantined \in [Jobs -> MaybeNone(Stages)]
    /\ reg \in [Jobs -> MaybeNone(Workers)]
    /\ cancelling \in [Jobs -> {"no", "checked"} \cup Stages]

ThreadTyped(t) ==
    /\ t.pc \notin {"idle", "start", "done"} => t.active \in Stages
    /\ t.pc \in HasIr => t.ir \in Artifacts
    /\ t.pc \in HasEvidence => t.evidence \in Artifacts

TypeInv == RowsTyped /\ \A w \in Workers : ThreadTyped(wk[w])

-----------------------------------------------------------------------------
(* Checkpoints and stages.                                                 *)

Finals == {"completed", "skipped"}
Made == {"document_ir", "evidence", "deterministic_page_tree", "model_analysis"}

\* The stages whose checkpoints are reused.
Reusable == Made \cup {"raw_asset"}

\* What has a checkpoint counts as done.
Kept(st, ck) == \A s \in Reusable : ck[s] # None => st[s] \in Finals

\* What was made, was made on what is saved.
Chained(st, ck) ==
    LET raw == ck["raw_asset"]  ir == ck["document_ir"]  evidence == ck["evidence"]
        tree == ck["deterministic_page_tree"]  analysis == ck["model_analysis"] IN
    /\ \A s \in Made : ck[s] # None <=> st[s] \in Finals
    /\ ir # None => st["raw_asset"] \in Finals /\ raw # None /\ ir.of = raw
    /\ evidence # None => ir # None /\ evidence.on = ir.id
    /\ tree # None => evidence # None /\ tree.on = evidence.id
    /\ analysis # None => evidence # None /\ analysis.on = evidence.id

\* What a thread works on is not done yet.
Works(t, st) ==
    /\ t.pc \in {"preflight", "preflight_end", "raw_begin", "raw"} => st["raw_asset"] \notin Finals
    /\ t.pc = "ir" => st["document_ir"] \notin Finals
    /\ t.pc = "evidence" => st["evidence"] \notin Finals
    /\ t.pc = "tree" => st["deterministic_page_tree"] \notin Finals
    /\ t.pc = "analysis" => st["model_analysis"] \notin Finals

\* What a thread holds is what is saved.
Holds(t, st, ck) ==
    /\ t.pc = "load" => st["raw_asset"] \in Finals
    /\ t.pc \in {"ir_begin", "ir"} \cup HasIr => st["raw_asset"] \in Finals /\ t.raw = ck["raw_asset"]
    /\ t.pc \in HasIr => t.ir = ck["document_ir"]
    /\ t.pc \in HasEvidence => t.evidence = ck["evidence"]
    /\ t.pc \in HasTree => t.tree = ck["deterministic_page_tree"] /\ t.tree # None
    /\ t.pc \in HasAnalysis => t.analysis = ck["model_analysis"] /\ t.analysis # None

RowOk(j) ==
    /\ job[j] = "absent" =>
         stage[j] = Fresh /\ ckpt[j] = NoCheckpoints /\ quarantined[j] = None
    /\ job[j] \in Live /\ quarantined[j] = None => Kept(stage[j], ckpt[j])
    /\ job[j] \in Live /\ "recover" \notin Env[j] => Chained(stage[j], ckpt[j])

RunOk(w) ==
    /\ Works(wk[w], stage[wk[w].job])
    /\ "recover" \notin Env[wk[w].job] => Holds(wk[w], stage[wk[w].job], ckpt[wk[w].job])

ReuseInv ==
    /\ \A j \in Jobs : RowOk(j)
    /\ \A w \in Workers : InRun(w) => RunOk(w)

\* A source that does not change is the only one a job knows.
SourceRow(j) ==
    "edit" \notin Env[j] =>
        /\ ckpt[j]["raw_asset"] \in {None, source[j]}
        /\ ckpt[j]["document_ir"] # None => ckpt[j]["document_ir"].of = source[j]

SourceRun(w) ==
    "edit" \notin Env[wk[w].job] =>
        /\ wk[w].pc \in Pipeline => wk[w].raw = source[wk[w].job]
        /\ wk[w].pc \in HasIr => wk[w].ir.of = source[wk[w].job]

SourceInv ==
    /\ \A j \in Jobs : SourceRow(j)
    /\ \A w \in Workers : InRun(w) => SourceRun(w)

-----------------------------------------------------------------------------
(* A step of a thread, in general.                                         *)

\* No job is taken over, or cancelled, while a thread works on it.
Exclusive == NoLateCancel /\ RunsInv

\* Finished work of job j is reused.
Reused1(j) ==
    \A s \in Stages \ {"preflight"} :
        ckpt[j][s] # None /\ quarantined[j] = None => ckpt'[j][s] = ckpt[j][s]

\* What a step is to keep.
Sound ==
    /\ TypeInv'
    /\ SourceInv => SourceInv'
    /\ Exclusive /\ ReuseInv => ReuseInv' /\ ReusesWork

SameRow(i) ==
    /\ job'[i] = job[i] /\ stage'[i] = stage[i] /\ ckpt'[i] = ckpt[i]
    /\ quarantined'[i] = quarantined[i]

\* The stages of a run (store.py: IMPORT_STAGES).
LEMMA StageNames ==
    /\ Stages = {"preflight", "raw_asset", "document_ir", "evidence",
                 "deterministic_page_tree", "model_analysis", "search"}
    /\ Derived = Stages \ {"preflight", "raw_asset"}
<1>1. Stages = {"preflight", "raw_asset", "document_ir", "evidence",
                "deterministic_page_tree", "model_analysis", "search"}
  BY DEF Stages, IMPORT_STAGES
<1>2. Derived = {IMPORT_STAGES[i] : i \in {3, 4, 5, 6, 7}}
  BY DEF Derived, After, IMPORT_STAGES
<1>3. Derived = Stages \ {"preflight", "raw_asset"} BY <1>1, <1>2 DEF IMPORT_STAGES
<1> QED BY <1>1, <1>3

\* A step of the thread of a job concerns no other job and no other thread, so that it is enough
\* to look at its own (resume_job and begin of a recovery test the status).
LEMMA RunStep ==
    ASSUME IInv, TypeInv, NEW w \in Workers, InRun(w), Others(w), wk'[w].job = wk[w].job,
           \A i \in Jobs \ {wk[w].job} : SameRow(i),
           RowsTyped', ThreadTyped(wk'[w]), UNCHANGED source,
           SourceInv => SourceRow(wk[w].job)' /\ SourceRun(w)',
           Exclusive /\ ReuseInv =>
               RowOk(wk[w].job)' /\ (InRun(w)' => RunOk(w)') /\ Reused1(wk[w].job)
    PROVE  Sound
<1> DEFINE j == wk[w].job
<1>1. j \in Jobs BY DEF IInv, ThreadsInv, ThreadOk, InRun
<1>2. \A u \in Workers \ {w} : wk'[u] = wk[u] /\ (InRun(u)' <=> InRun(u)) BY DEF Others, InRun
<1>3. TypeInv' BY <1>2 DEF TypeInv
<1>4. ASSUME SourceInv PROVE SourceInv'
  <2>1. \A i \in Jobs : SourceRow(i)' BY <1>4 DEF SourceInv, SourceRow, SameRow
  <2>2. ASSUME NEW u \in Workers, InRun(u)' PROVE SourceRun(u)'
    <3>1. CASE u = w BY <1>4, <3>1
    <3>2. CASE u # w BY <1>2, <1>4, <2>2, <3>2 DEF SourceInv, SourceRun
    <3> QED BY <3>1, <3>2
  <2> QED BY <2>1, <2>2 DEF SourceInv
<1>5. ASSUME Exclusive, ReuseInv PROVE ReuseInv' /\ ReusesWork
  <2>1. \A i \in Jobs : RowOk(i)' BY <1>5 DEF ReuseInv, RowOk, SameRow
  <2>2. ASSUME NEW u \in Workers, InRun(u)' PROVE RunOk(u)'
    <3>1. CASE u = w BY <1>5, <2>2, <3>1
    <3>2. CASE u # w
      <4>1. InRun(u) /\ wk[u].job \in Jobs /\ wk[u].job # j
        BY <1>2, <1>5, <2>2, <3>2 DEF Exclusive, RunsInv, IInv, ThreadsInv, ThreadOk, InRun
      <4> QED BY <1>2, <1>5, <3>2, <4>1 DEF ReuseInv, RunOk, SameRow
    <3> QED BY <3>1, <3>2
  <2>3. \A i \in Jobs : Reused1(i) BY <1>5 DEF Reused1, SameRow
  <2> QED BY <2>1, <2>2, <2>3 DEF ReuseInv, ReusesWork, Reused1
<1> QED BY <1>3, <1>4, <1>5 DEF Sound

-----------------------------------------------------------------------------
(* Rows and threads.                                                       *)

\* A row and the thread that works on it fit (q and e: its quarantine and its environment).
Fit(q, e, t, st, ck) ==
    /\ q = None => Kept(st, ck)
    /\ Works(t, st)
    /\ "recover" \notin e => Chained(st, ck) /\ Holds(t, st, ck)

FitNow(w) == LET j == wk[w].job IN Fit(quarantined[j], Env[j], wk[w], stage[j], ckpt[j])

\* What counts as done is the same.
Similar(st, ck, st2, ck2) ==
    \A s \in Reusable : ck2[s] = ck[s] /\ (st2[s] \in Finals <=> st[s] \in Finals)

\* Nothing depends on how a stage that is not done shows.
LEMMA SimilarFits ==
    ASSUME NEW st, NEW ck, NEW st2, NEW ck2, Similar(st, ck, st2, ck2)
    PROVE  /\ Kept(st, ck) => Kept(st2, ck2)
           /\ Chained(st, ck) => Chained(st2, ck2)
           /\ \A q, e, t : Fit(q, e, t, st, ck) => Fit(q, e, t, st2, ck2)
<1>1. Kept(st, ck) => Kept(st2, ck2) BY DEF Similar, Kept
<1>2. Chained(st, ck) => Chained(st2, ck2) BY DEF Similar, Chained, Reusable, Made
<1>3. \A t : Works(t, st) => Works(t, st2) BY DEF Similar, Works, Reusable, Made
<1>4. \A t : Holds(t, st, ck) => Holds(t, st2, ck2) BY DEF Similar, Holds, Reusable, Made
<1> QED BY <1>1, <1>2, <1>3, <1>4 DEF Fit

\* While a thread works on a job, its row fits.
LEMMA RunFits ==
    ASSUME IInv, NEW w \in Workers, InRun(w), Exclusive, ReuseInv
    PROVE  FitNow(w) /\ job[wk[w].job] = "running"
<1>1. wk[w].job \in Jobs BY DEF IInv, ThreadsInv, ThreadOk, InRun
<1>2. job[wk[w].job] = "running" BY <1>1 DEF Exclusive, RunsInv, NoLateCancel, Held, Late
<1> QED BY <1>1, <1>2 DEF ReuseInv, RowOk, RunOk, FitNow, Fit, Live

\* A thread that moves on with what it has read.
LEMMA GoStep ==
    ASSUME IInv, TypeInv, NEW w \in Workers, InRun(w), Others(w), wk'[w].job = wk[w].job,
           UNCHANGED <<durable, reg, cancelling>>, ThreadTyped(wk'[w]),
           SourceInv => SourceRun(w)',
           LET j == wk[w].job IN
           FitNow(w) => (InRun(w)' => Fit(quarantined[j], Env[j], wk'[w], stage[j], ckpt[j]))
    PROVE  Sound
<1> DEFINE j == wk[w].job
<1>1. j \in Jobs BY DEF IInv, ThreadsInv, ThreadOk, InRun
<1>2. \A i \in Jobs : SameRow(i) BY DEF SameRow, durable
<1>3. RowsTyped' BY DEF RowsTyped, TypeInv, durable
<1>4. SourceInv => SourceRow(j)' BY <1>1 DEF SourceInv, SourceRow, durable
<1>5. ASSUME Exclusive, ReuseInv PROVE RowOk(j)' /\ (InRun(w)' => RunOk(w)') /\ Reused1(j)
  <2>1. RowOk(j)' BY <1>1, <1>5 DEF ReuseInv, RowOk, durable
  <2>2. FitNow(w) BY <1>5, RunFits
  <2>3. InRun(w)' => Fit(quarantined[j], Env[j], wk'[w], stage[j], ckpt[j]) BY <2>2
  <2>4. InRun(w)' => RunOk(w)' BY <2>3 DEF Fit, RunOk, durable
  <2> QED BY <2>1, <2>4 DEF Reused1, durable
<1> QED BY <1>2, <1>3, <1>4, <1>5, RunStep DEF durable

-----------------------------------------------------------------------------
(* The transactions of a run.                                              *)

\* What set_stage writes.
LEMMA Written ==
    ASSUME IInv, TypeInv, NEW w \in Workers, wk[w].job \in Jobs, NEW s \in Stages, NEW status, NEW c,
           set_stage(w, s, status, c)
    PROVE  /\ \A z \in Stages : stage'[wk[w].job][z] = IF z = s THEN status ELSE stage[wk[w].job][z]
           /\ \A z \in Stages : ckpt'[wk[w].job][z] =
                  IF z = s /\ c # None THEN c ELSE ckpt[wk[w].job][z]
           /\ job'[wk[w].job] = "running"
           /\ \A i \in Jobs \ {wk[w].job} : SameRow(i)
<1> DEFINE j == wk[w].job
<1>1. /\ DOMAIN stage = Jobs /\ DOMAIN stage[j] = Stages /\ DOMAIN job = Jobs
      /\ DOMAIN ckpt = Jobs /\ DOMAIN ckpt[j] = Stages
  BY DEF TypeInv, RowsTyped, IInv, JobsInv, CheckpointsOk
<1>2. stage' = [stage EXCEPT ![j][s] = status] /\ job' = [job EXCEPT ![j] = "running"]
      /\ UNCHANGED quarantined /\ ckpt' = IF c = None THEN ckpt ELSE [ckpt EXCEPT ![j][s] = c]
  BY DEF set_stage
<1>3. stage'[j] = [stage[j] EXCEPT ![s] = status] BY <1>1, <1>2
<1>4. \A z \in Stages : stage'[j][z] = IF z = s THEN status ELSE stage[j][z] BY <1>1, <1>3
<1>5. \A z \in Stages : ckpt'[j][z] = IF z = s /\ c # None THEN c ELSE ckpt[j][z]
  <2>1. CASE c = None BY <1>2, <2>1
  <2>2. CASE c # None
    <3>1. ckpt'[j] = [ckpt[j] EXCEPT ![s] = c] BY <1>1, <1>2, <2>2
    <3> QED BY <1>1, <2>2, <3>1
  <2> QED BY <2>1, <2>2
<1>6. \A i \in Jobs \ {j} : SameRow(i) BY <1>1, <1>2 DEF SameRow
<1> QED BY <1>1, <1>2, <1>3, <1>4, <1>5, <1>6

\* A thread that writes the state of a stage, and its checkpoint.
LEMMA WriteStep ==
    ASSUME IInv, TypeInv, NEW w \in Workers, InRun(w), Others(w), wk'[w].job = wk[w].job,
           ThreadTyped(wk'[w]), NEW s \in Stages, NEW status \in {"running", "completed", "skipped"},
           NEW c \in MaybeNone(Checkpoint(s)), set_stage(w, s, status, c),
           SourceInv => SourceRun(w)',
           SourceInv /\ "edit" \notin Env[wk[w].job] =>
               /\ s = "raw_asset" => c \in {None, source[wk[w].job]}
               /\ s = "document_ir" /\ c # None => c.of = source[wk[w].job],
           FitNow(w) =>
               /\ s \in Reusable /\ c # None /\ quarantined[wk[w].job] = None =>
                    ckpt[wk[w].job][s] = None
               /\ Fit(quarantined[wk[w].job], Env[wk[w].job], wk'[w], stage'[wk[w].job],
                      ckpt'[wk[w].job]),
           s = "search" => c = None
    PROVE  Sound
<1> DEFINE j == wk[w].job
<1>1. j \in Jobs BY DEF IInv, ThreadsInv, ThreadOk, InRun
<1>2. /\ \A z \in Stages : stage'[j][z] = IF z = s THEN status ELSE stage[j][z]
      /\ \A z \in Stages : ckpt'[j][z] = IF z = s /\ c # None THEN c ELSE ckpt[j][z]
      /\ job'[j] = "running"
      /\ \A i \in Jobs \ {j} : SameRow(i)
  BY <1>1, Written
<1>3. RowsTyped'
  <2>1. job' \in [Jobs -> JobStates] /\ stage' \in [Jobs -> [Stages -> StageStates]]
        /\ reg' \in [Jobs -> MaybeNone(Workers)]
    BY <1>1 DEF TypeInv, RowsTyped, set_stage, JobStates, Live, StageStates, MaybeNone
  <2>2. ASSUME NEW i \in Jobs, NEW z \in Stages PROVE ckpt'[i][z] \in MaybeNone(Checkpoint(z))
    <3>1. ckpt[i][z] \in MaybeNone(Checkpoint(z)) BY DEF TypeInv, RowsTyped
    <3>2. CASE i = j BY <1>2, <3>1, <3>2
    <3>3. CASE i # j BY <1>2, <3>1, <3>3 DEF SameRow
    <3> QED BY <3>2, <3>3
  <2> QED BY <2>1, <2>2 DEF TypeInv, RowsTyped, set_stage
<1>4. UNCHANGED <<source, quarantined>> BY DEF set_stage
<1>5. "raw_asset" \in Stages /\ "document_ir" \in Stages BY StageNames
<1>6. SourceInv => SourceRow(j)' BY <1>1, <1>2, <1>4, <1>5 DEF SourceInv, SourceRow
<1>7. ASSUME Exclusive, ReuseInv PROVE RowOk(j)' /\ (InRun(w)' => RunOk(w)') /\ Reused1(j)
  <2>1. FitNow(w) /\ job[j] = "running" BY <1>7, RunFits
  <2>2. Fit(quarantined[j], Env[j], wk'[w], stage'[j], ckpt'[j]) BY <2>1
  <2>3. RowOk(j)' /\ RunOk(w)' BY <1>2, <1>4, <2>2 DEF Fit, RowOk, RunOk
  <2>4. Reused1(j)
    <3> SUFFICES ASSUME NEW z \in Stages \ {"preflight"}, ckpt[j][z] # None, quarantined[j] = None
                 PROVE  ckpt'[j][z] = ckpt[j][z]
      BY DEF Reused1
    <3>1. z \in Reusable \cup {"search"} BY StageNames DEF Reusable, Made
    <3> QED BY <1>2, <2>1, <3>1
  <2> QED BY <2>3, <2>4
<1> QED BY <1>2, <1>3, <1>4, <1>6, <1>7, RunStep

\* A stage that is begun, or one that no checkpoint stands for.
LEMMA BeginStep ==
    ASSUME IInv, TypeInv, NEW w \in Workers, InRun(w), Others(w), wk'[w].job = wk[w].job,
           ThreadTyped(wk'[w]), NEW s \in Stages, NEW status \in {"running", "completed"},
           NEW c \in MaybeNone(Checkpoint(s)), set_stage(w, s, status, c),
           SourceInv => SourceRun(w)',
           FitNow(w) => Fit(quarantined[wk[w].job], Env[wk[w].job], wk'[w], stage[wk[w].job],
                            ckpt[wk[w].job]),
           \/ s = "preflight"
           \/ /\ c = None /\ status = "running"
              /\ s # "search" => (FitNow(w) => stage[wk[w].job][s] \notin Finals)
    PROVE  Sound
<1> DEFINE j == wk[w].job
<1>1. j \in Jobs BY DEF IInv, ThreadsInv, ThreadOk, InRun
<1>2. /\ \A z \in Stages : stage'[j][z] = IF z = s THEN status ELSE stage[j][z]
      /\ \A z \in Stages : ckpt'[j][z] = IF z = s /\ c # None THEN c ELSE ckpt[j][z]
  BY <1>1, Written
<1>3. Reusable \subseteq Stages \ {"preflight", "search"} BY StageNames DEF Reusable, Made
<1>4. ASSUME FitNow(w)
      PROVE  Fit(quarantined[j], Env[j], wk'[w], stage'[j], ckpt'[j])
  <2>1. Similar(stage[j], ckpt[j], stage'[j], ckpt'[j]) BY <1>2, <1>3, <1>4 DEF Similar, Finals
  <2> QED BY <1>4, <2>1, SimilarFits
<1>5. s # "raw_asset" \/ c = None BY StageNames
<1>6. s # "document_ir" \/ c = None BY StageNames
<1>7. s = "search" => c = None BY StageNames
<1>8. FitNow(w) => (s \in Reusable /\ c # None /\ quarantined[j] = None => ckpt[j][s] = None)
  BY <1>3
<1> HIDE DEF j
<1>9. FitNow(w) =>
        /\ s \in Reusable /\ c # None /\ quarantined[j] = None => ckpt[j][s] = None
        /\ Fit(quarantined[j], Env[j], wk'[w], stage'[j], ckpt'[j])
  BY <1>4, <1>8
<1>10. SourceInv /\ "edit" \notin Env[j] =>
         /\ s = "raw_asset" => c \in {None, source[j]}
         /\ s = "document_ir" /\ c # None => c.of = source[j]
  BY <1>5, <1>6
<1>11. status \in {"running", "completed", "skipped"} OBVIOUS
<1> QED BY <1>7, <1>9, <1>10, <1>11, WriteStep DEF j

\* A thread that is done with its run.
LEMMA RunEnds ==
    ASSUME IInv, NEW w \in Workers, Finish(w)
    PROVE  Others(w) /\ wk'[w].job = wk[w].job /\ ~(InRun(w)') /\ ThreadTyped(wk'[w])
<1>1. DOMAIN wk = Workers BY DEF IInv, ThreadsInv
<1>2. wk' = [wk EXCEPT ![w] = Thread("done", wk[w].job)] BY DEF Finish
<1>3. Others(w) BY <1>1, <1>2 DEF Others
<1>4. wk'[w] = Thread("done", wk[w].job) BY <1>1, <1>2
<1>5. wk'[w].pc = "done" /\ wk'[w].job = wk[w].job BY <1>4 DEF Thread
<1> QED BY <1>3, <1>5 DEF InRun, ThreadTyped, HasIr, HasEvidence

\* A run that ends, with what it wrote about its own job and no checkpoint.
LEMMA EndStep ==
    ASSUME IInv, TypeInv, NEW w \in Workers, InRun(w), Others(w), wk'[w].job = wk[w].job,
           ~(InRun(w)'), ThreadTyped(wk'[w]), RowsTyped', UNCHANGED <<source, ckpt>>,
           \A i \in Jobs \ {wk[w].job} : SameRow(i),
           Exclusive /\ ReuseInv => RowOk(wk[w].job)'
    PROVE  Sound
<1> DEFINE j == wk[w].job
<1>1. j \in Jobs BY DEF IInv, ThreadsInv, ThreadOk, InRun
<1>2. SourceInv => SourceRow(j)' BY <1>1 DEF SourceInv, SourceRow
<1>3. SourceInv => SourceRun(w)'
  BY DEF SourceRun, InRun, Pipeline, HasIr
<1>4. Reused1(j) BY DEF Reused1
<1> QED BY <1>2, <1>3, <1>4, RunStep

\* A run that is paused or cancelled (_set_terminal_control_state): the stage it stops at was not
\* done.
LEMMA StopStep ==
    ASSUME IInv, TypeInv, NEW w \in Workers, InRun(w), NEW s \in Stages,
           NEW status \in {"paused", "cancelled"}, Stop(w, s, status),
           s \notin {"preflight", "search"} => (FitNow(w) => stage[wk[w].job][s] \notin Finals)
    PROVE  Sound
<1> DEFINE j == wk[w].job
<1>1. j \in Jobs BY DEF IInv, ThreadsInv, ThreadOk, InRun
<1>2. Others(w) /\ wk'[w].job = wk[w].job /\ ~(InRun(w)') /\ ThreadTyped(wk'[w])
  BY RunEnds DEF Stop
<1>3. /\ DOMAIN stage = Jobs /\ DOMAIN job = Jobs
      /\ \A z \in Stages : stage[j][z] \in StageStates
  BY <1>1 DEF TypeInv, RowsTyped
<1>4. UNCHANGED <<source, ckpt, quarantined>> BY DEF Stop, ControlState
<1> DEFINE new == [z \in Stages |->
              IF z = s \/ (status = "cancelled" /\ stage[j][z] \in {"pending", "paused"})
              THEN status ELSE stage[j][z]]
<1>5. stage' = [stage EXCEPT ![j] = new] /\ job' = [job EXCEPT ![j] = status]
      /\ reg' = [reg EXCEPT ![j] = w] /\ UNCHANGED cancelling
  BY DEF Stop, ControlState
<1>6. new \in [Stages -> StageStates] BY <1>3 DEF StageStates
<1>7. \A z \in Stages : z # s => (new[z] \in Finals <=> stage[j][z] \in Finals) BY DEF Finals
<1>8. new[s] \notin Finals BY DEF Finals
<1> HIDE DEF new
<1>9. stage'[j] = new /\ job'[j] = status BY <1>1, <1>3, <1>5
<1>10. \A i \in Jobs \ {j} : SameRow(i) BY <1>3, <1>4, <1>5 DEF SameRow
<1>11. RowsTyped'
  <2>1. stage' \in [Jobs -> [Stages -> StageStates]] BY <1>1, <1>5, <1>6 DEF TypeInv, RowsTyped
  <2>2. job' \in [Jobs -> JobStates] BY <1>5 DEF TypeInv, RowsTyped, JobStates, Live
  <2>3. reg' \in [Jobs -> MaybeNone(Workers)] BY <1>5 DEF TypeInv, RowsTyped, MaybeNone
  <2> QED BY <1>4, <1>5, <2>1, <2>2, <2>3 DEF TypeInv, RowsTyped
<1>12. ASSUME Exclusive, ReuseInv PROVE RowOk(j)'
  <2>1. FitNow(w) BY <1>12, RunFits
  <2>2. Reusable \subseteq Stages \ {"preflight", "search"} BY StageNames DEF Reusable, Made
  <2>3. Similar(stage[j], ckpt[j], new, ckpt[j]) BY <1>7, <1>8, <2>1, <2>2 DEF Similar
  <2>4. /\ quarantined[j] = None => Kept(new, ckpt[j])
        /\ "recover" \notin Env[j] => Chained(new, ckpt[j])
    BY <2>1, <2>3, SimilarFits DEF FitNow, Fit
  <2> QED BY <1>2, <1>4, <1>9, <2>4 DEF RowOk
<1> QED BY <1>2, <1>4, <1>10, <1>11, <1>12, EndStep

\* A run that fails (fail_job).
LEMMA FailStep ==
    ASSUME IInv, TypeInv, NEW w \in Workers, InRun(w), NEW s \in Stages, FailAt(w, s)
    PROVE  Sound
<1> DEFINE j == wk[w].job
<1>1. j \in Jobs BY DEF IInv, ThreadsInv, ThreadOk, InRun
<1>2. DOMAIN stage = Jobs /\ DOMAIN stage[j] = Stages /\ DOMAIN job = Jobs
  BY <1>1 DEF TypeInv, RowsTyped
<1>3. UNCHANGED <<source, ckpt, quarantined, cancelling>> BY DEF FailAt
<1>4. Others(w) /\ wk'[w].job = wk[w].job /\ ~(InRun(w)') /\ ThreadTyped(wk'[w])
  <2>1. CASE Finish(w) BY <2>1, RunEnds
  <2>2. CASE wk' = [wk EXCEPT ![w].pc = "marking", ![w].active = s]
    <3>1. DOMAIN wk = Workers /\ DOMAIN wk[w] = Fields BY DEF IInv, ThreadsInv, ThreadOk
    <3>2. Others(w) BY <2>2, <3>1 DEF Others
    <3>3. wk'[w].pc = "marking" /\ wk'[w].job = j /\ wk'[w].active = s
      BY <2>2, <3>1 DEF Fields
    <3> QED BY <3>2, <3>3 DEF InRun, ThreadTyped, HasIr, HasEvidence
  <2> QED BY <2>1, <2>2 DEF FailAt
<1>5. CASE UNCHANGED <<stage, job, reg>>
  <2>1. \A i \in Jobs : SameRow(i) BY <1>3, <1>5 DEF SameRow
  <2>2. RowsTyped' BY <1>3, <1>5 DEF TypeInv, RowsTyped
  <2>3. ReuseInv => RowOk(j)' BY <1>1, <1>3, <1>4, <1>5 DEF ReuseInv, RowOk
  <2> QED BY <1>3, <1>4, <2>1, <2>2, <2>3, EndStep
<1>6. CASE /\ stage' = [stage EXCEPT ![j][s] = "failed"]
           /\ job' = [job EXCEPT ![j] = "failed"]
           /\ reg' = [reg EXCEPT ![j] = w]
  <2>1. \A i \in Jobs \ {j} : SameRow(i) BY <1>2, <1>3, <1>6 DEF SameRow
  <2>2. RowsTyped'
    BY <1>1, <1>3, <1>6 DEF TypeInv, RowsTyped, StageStates, JobStates, Live, MaybeNone
  <2>3. job'[j] = "failed" BY <1>1, <1>2, <1>6
  <2>4. RowOk(j)' BY <1>4, <2>3 DEF RowOk, Live
  <2> QED BY <1>3, <1>4, <2>1, <2>2, <2>4, EndStep
<1> QED BY <1>5, <1>6 DEF FailAt

\* A run that completes its job (_complete_job_in).
LEMMA CompleteStep ==
    ASSUME IInv, TypeInv, NEW w \in Workers, InRun(w), NEW doc, NEW done, NEW skipped,
           Complete(w, doc, done, skipped)
    PROVE  Sound
<1> DEFINE j == wk[w].job
<1>1. j \in Jobs BY DEF IInv, ThreadsInv, ThreadOk, InRun
<1>2. DOMAIN stage = Jobs /\ DOMAIN job = Jobs /\ DOMAIN quarantined = Jobs
      /\ \A z \in Stages : stage[j][z] \in StageStates
  BY <1>1 DEF TypeInv, RowsTyped
<1>3. Others(w) /\ wk'[w].job = wk[w].job /\ ~(InRun(w)') /\ ThreadTyped(wk'[w])
  BY RunEnds DEF Complete
<1> DEFINE new == [z \in Stages |->
              IF z = done THEN "completed" ELSE IF z \in skipped THEN "skipped" ELSE stage[j][z]]
<1>4. /\ stage' = [stage EXCEPT ![j] = new] /\ job' = [job EXCEPT ![j] = "completed"]
      /\ quarantined' = [quarantined EXCEPT ![j] = None] /\ reg' = [reg EXCEPT ![j] = w]
      /\ UNCHANGED <<source, ckpt, cancelling>>
  BY DEF Complete
<1>5. new \in [Stages -> StageStates] BY <1>2 DEF StageStates
<1> HIDE DEF new
<1>6. \A i \in Jobs \ {j} : SameRow(i) BY <1>2, <1>4 DEF SameRow
<1>7. RowsTyped'
  <2>1. stage' \in [Jobs -> [Stages -> StageStates]] BY <1>1, <1>4, <1>5 DEF TypeInv, RowsTyped
  <2>2. job' \in [Jobs -> JobStates] BY <1>4 DEF TypeInv, RowsTyped, JobStates
  <2>3. quarantined' \in [Jobs -> MaybeNone(Stages)] BY <1>4 DEF TypeInv, RowsTyped, MaybeNone
  <2>4. reg' \in [Jobs -> MaybeNone(Workers)] BY <1>4 DEF TypeInv, RowsTyped, MaybeNone
  <2> QED BY <1>4, <2>1, <2>2, <2>3, <2>4 DEF TypeInv, RowsTyped
<1>8. job'[j] = "completed" BY <1>1, <1>2, <1>4
<1>9. RowOk(j)' BY <1>3, <1>8 DEF RowOk, Live
<1> QED BY <1>3, <1>4, <1>6, <1>7, <1>9, EndStep

\* A run that ends with its document in quarantine.
LEMMA QuarantineStep ==
    ASSUME IInv, TypeInv, NEW w \in Workers, quarantine(w)
    PROVE  Sound
<1> DEFINE j == wk[w].job
<1>1. InRun(w) /\ wk[w].active \in Stages
  BY DEF quarantine, InRun, TypeInv, ThreadTyped
<1>2. j \in Jobs BY <1>1 DEF IInv, ThreadsInv, ThreadOk, InRun
<1>3. DOMAIN stage = Jobs /\ DOMAIN stage[j] = Stages /\ DOMAIN job = Jobs /\ DOMAIN quarantined = Jobs
  BY <1>2 DEF TypeInv, RowsTyped
<1>4. Others(w) /\ wk'[w].job = wk[w].job /\ ~(InRun(w)') /\ ThreadTyped(wk'[w])
  BY RunEnds DEF quarantine
<1>5. \A i \in Jobs \ {j} : SameRow(i) BY <1>3 DEF quarantine, SameRow
<1>6. RowsTyped'
  BY <1>1, <1>2 DEF quarantine, TypeInv, RowsTyped, StageStates, JobStates, Live, MaybeNone
<1>7. job'[j] = "failed" BY <1>2, <1>3 DEF quarantine
<1>8. RowOk(j)' BY <1>4, <1>7 DEF RowOk, Live
<1>9. UNCHANGED <<source, ckpt>> BY DEF quarantine
<1> QED BY <1>1, <1>4, <1>5, <1>6, <1>8, <1>9, EndStep

-----------------------------------------------------------------------------
(* The stages of a run, one by one.                                        *)

\* The first stage that is not done is a stage (next_import_stage).
LEMMA NextIsStage == ASSUME NEW j PROVE next_import_stage(j) \in Stages
<1> DEFINE left == {i \in 1..7 : ~stage_completed(j, IMPORT_STAGES[i])}
           least(i) == \A k \in left : i <= k
           first == CHOOSE i \in left : least(i)
<1>0. next_import_stage(j) = IF left = {} THEN "search" ELSE IMPORT_STAGES[first]
  BY DEF next_import_stage
<1>1. CASE left = {}
  <2> HIDE DEF left, first
  <2> QED BY <1>0, <1>1, StageNames
<1>2. CASE left # {}
  <2>1. left \subseteq 1..7 OBVIOUS
  <2> HIDE DEF left
  <2>2. \E i \in left : least(i)
    <3> SUFFICES ASSUME \A i \in left : ~least(i) PROVE FALSE OBVIOUS
    <3>1. 1 \notin left BY <2>1
    <3>2. 2 \notin left BY <2>1, <3>1
    <3>3. 3 \notin left BY <2>1, <3>1, <3>2
    <3>4. 4 \notin left BY <2>1, <3>1, <3>2, <3>3
    <3>5. 5 \notin left BY <2>1, <3>1, <3>2, <3>3, <3>4
    <3>6. 6 \notin left BY <2>1, <3>1, <3>2, <3>3, <3>4, <3>5
    <3>7. 7 \notin left BY <2>1, <3>1, <3>2, <3>3, <3>4, <3>5, <3>6
    <3>8. PICK i \in left : TRUE BY <1>2
    <3>9. i \in 1..7 BY <2>1, <3>8
    <3>10. i = 1 \/ i = 2 \/ i = 3 \/ i = 4 \/ i = 5 \/ i = 6 \/ i = 7 BY <3>9
    <3> QED BY <3>1, <3>2, <3>3, <3>4, <3>5, <3>6, <3>7, <3>8, <3>10
  <2>3. first \in left BY <2>2
  <2>4. first \in 1..7 BY <2>1, <2>3
  <2> HIDE DEF first
  <2>5. next_import_stage(j) = IMPORT_STAGES[first] BY <1>0, <1>2
  <2> QED BY <2>4, <2>5 DEF Stages
<1> QED BY <1>1, <1>2

\* A thread in the middle of a run.
LEMMA Running ==
    ASSUME IInv, TypeInv, NEW w \in Workers, InRun(w)
    PROVE  /\ DOMAIN wk = Workers /\ DOMAIN wk[w] = Fields /\ wk[w].job \in Jobs
           /\ wk[w].control \in {"none", "paused", "cancelled"}
           /\ wk[w].pc \in Pipeline => wk[w].raw \in Bytes
           /\ wk[w].pc # "start" => wk[w].active \in Stages
           /\ wk[w].pc \in HasIr => wk[w].ir \in Artifacts
           /\ wk[w].pc \in HasEvidence => wk[w].evidence \in Artifacts
BY DEF IInv, ThreadsInv, ThreadOk, InRun, TypeInv, ThreadTyped

\* Honoring a control before stage s is begun.
LEMMA HonorStep ==
    ASSUME IInv, TypeInv, NEW w \in Workers, InRun(w), NEW s \in Stages, honor_control(w, s),
           s \notin {"preflight", "search"} => (FitNow(w) => stage[wk[w].job][s] \notin Finals)
    PROVE  Sound
<1>1. wk[w].control \in {"paused", "cancelled"} BY Running DEF honor_control
<1> QED BY <1>1, StopStep DEF honor_control

\* The head of _run, and _raw_input up to the first write.
LEMMA StartSound ==
    ASSUME IInv, TypeInv, NEW w \in Workers, Start(w)
    PROVE  Sound
<1> DEFINE j == wk[w].job
           raw_done == stage_completed(j, "raw_asset")
           place == IF raw_done THEN "load" ELSE "preflight"
           s == IF raw_done THEN "raw_asset" ELSE next_import_stage(j)
<1>1. InRun(w) /\ wk[w].pc = "start" BY DEF Start, At, InRun
<1>2. DOMAIN wk = Workers /\ DOMAIN wk[w] = Fields BY <1>1, Running
<1>3. s \in Stages BY StageNames, NextIsStage
<1>4. wk' = [wk EXCEPT ![w].pc = place, ![w].active = s] BY DEF Start
<1>5. \/ place = "load" /\ stage[j]["raw_asset"] \in Finals
      \/ place = "preflight" /\ stage[j]["raw_asset"] \notin Finals
  <2>1. raw_done <=> stage[j]["raw_asset"] \in Finals BY DEF stage_completed, Finals
  <2> HIDE DEF raw_done
  <2> QED BY <2>1
<1> HIDE DEF place, s, raw_done
<1>6. Others(w) BY <1>2, <1>4 DEF Others
<1>7. wk'[w].pc = place /\ wk'[w].job = j /\ wk'[w].active = s BY <1>2, <1>4 DEF Fields
<1>8. ThreadTyped(wk'[w]) BY <1>3, <1>5, <1>7 DEF ThreadTyped, HasIr, HasEvidence
<1>9. SourceRun(w)' BY <1>5, <1>7 DEF SourceRun, Pipeline, HasIr
<1>10. FitNow(w) => Fit(quarantined[j], Env[j], wk'[w], stage[j], ckpt[j])
  BY <1>5, <1>7 DEF FitNow, Fit, Works, Holds, HasIr, HasEvidence, HasTree, HasAnalysis
<1> QED BY <1>1, <1>6, <1>7, <1>8, <1>9, <1>10, GoStep DEF Start

\* _raw_input: the saved raw asset, or the current source in two stages.
LEMMA RawInputSound ==
    ASSUME IInv, TypeInv, NEW w \in Workers,
           LoadRaw(w) \/ Preflight(w) \/ PreflightEnd(w) \/ RawBegin(w) \/ Raw(w)
    PROVE  Sound
<1> DEFINE j == wk[w].job
           Quietly == UNCHANGED <<durable, open, reg, cancelling>>
           Next1(place, raw) == /\ Others(w) /\ wk'[w].job = j /\ wk'[w].pc = place /\ wk'[w].raw = raw
                             /\ wk'[w].active = wk[w].active
<1>1. /\ InRun(w) /\ wk[w].active \in Stages
      /\ wk[w].pc \in {"load", "preflight", "preflight_end", "raw_begin", "raw"}
  BY DEF LoadRaw, Preflight, PreflightEnd, RawBegin, Raw, At, InRun, TypeInv, ThreadTyped
<1>2. DOMAIN wk = Workers /\ DOMAIN wk[w] = Fields /\ j \in Jobs BY <1>1, Running
<1>3. "preflight" \in Stages /\ "raw_asset" \in Stages BY StageNames
<1>4. ASSUME NEW place, NEW raw, wk' = [wk EXCEPT ![w].pc = place, ![w].raw = raw] PROVE Next1(place, raw)
  BY <1>2, <1>4 DEF Others, Fields
<1>5. ASSUME NEW place, wk' = [wk EXCEPT ![w].pc = place] PROVE Next1(place, wk[w].raw)
  BY <1>2, <1>5 DEF Others, Fields
<1>6. source[j] \in Bytes /\ source \in [Jobs -> Bytes] BY <1>2 DEF IInv, JobsInv
<1>7. CASE LoadRaw(w)
  <2> DEFINE saved == ckpt[j]["raw_asset"]
  <2>1. CASE Fail(w) BY <1>1, <2>1, FailStep DEF Fail
  <2>2. CASE saved # None /\ wk' = [wk EXCEPT ![w].pc = "ir_begin", ![w].raw = saved] /\ Quietly
    <3>1. Next1("ir_begin", saved) BY <1>4, <2>2
    <3>2. ThreadTyped(wk'[w]) BY <1>1, <3>1 DEF ThreadTyped, HasIr, HasEvidence
    <3>3. ASSUME SourceInv PROVE SourceRun(w)'
      BY <1>2, <2>2, <3>1, <3>3 DEF SourceInv, SourceRow, SourceRun, durable, HasIr
    <3>4. FitNow(w) => Fit(quarantined[j], Env[j], wk'[w], stage[j], ckpt[j])
      BY <1>7, <3>1 DEF LoadRaw, At, FitNow, Fit, Works, Holds, HasIr, HasEvidence, HasTree, HasAnalysis
    <3> QED BY <1>1, <2>2, <3>1, <3>2, <3>3, <3>4, GoStep
  <2> QED BY <1>7, <2>1, <2>2 DEF LoadRaw
<1>8. CASE Preflight(w)
  <2>1. CASE honor_control(w, "preflight") BY <1>1, <1>3, <2>1, HonorStep
  <2>2. CASE wk' = [wk EXCEPT ![w].pc = "raw_begin", ![w].raw = source[j]] /\ Quietly
    <3>1. Next1("raw_begin", source[j]) BY <1>4, <2>2
    <3>2. ThreadTyped(wk'[w]) BY <1>1, <3>1 DEF ThreadTyped, HasIr, HasEvidence
    <3>3. SourceRun(w)' BY <2>2, <3>1 DEF SourceRun, durable, HasIr
    <3>4. FitNow(w) => Fit(quarantined[j], Env[j], wk'[w], stage[j], ckpt[j])
      BY <1>8, <3>1 DEF Preflight, At, FitNow, Fit, Works, Holds, HasIr, HasEvidence, HasTree, HasAnalysis
    <3> QED BY <1>1, <2>2, <3>1, <3>2, <3>3, <3>4, GoStep
  <2>3. CASE /\ wk' = [wk EXCEPT ![w].pc = "preflight_end", ![w].raw = source[j]]
             /\ set_stage(w, "preflight", "running", None)
    <3>1. Next1("preflight_end", source[j]) BY <1>4, <2>3
    <3>2. ThreadTyped(wk'[w]) BY <1>1, <3>1 DEF ThreadTyped, HasIr, HasEvidence
    <3>3. SourceRun(w)' BY <2>3, <3>1 DEF SourceRun, set_stage, HasIr
    <3>4. FitNow(w) => Fit(quarantined[j], Env[j], wk'[w], stage[j], ckpt[j])
      BY <1>8, <3>1 DEF Preflight, At, FitNow, Fit, Works, Holds, HasIr, HasEvidence, HasTree, HasAnalysis
    <3>5. None \in MaybeNone(Checkpoint("preflight")) BY DEF MaybeNone
    <3> QED BY <1>1, <1>3, <2>3, <3>1, <3>2, <3>3, <3>4, <3>5, BeginStep
  <2> QED BY <1>8, <2>1, <2>2, <2>3 DEF Preflight
<1>9. CASE PreflightEnd(w)
  <2>1. Next1("raw_begin", wk[w].raw) BY <1>5, <1>9 DEF PreflightEnd
  <2>2. ThreadTyped(wk'[w]) BY <1>1, <2>1 DEF ThreadTyped, HasIr, HasEvidence
  <2>3. wk[w].pc = "preflight_end" /\ set_stage(w, "preflight", "completed", wk[w].raw)
    BY <1>9 DEF PreflightEnd, At
  <2>4. SourceInv => SourceRun(w)'
    BY <1>1, <2>1, <2>3 DEF SourceInv, SourceRun, set_stage, HasIr, Pipeline
  <2>5. FitNow(w) => Fit(quarantined[j], Env[j], wk'[w], stage[j], ckpt[j])
    BY <2>1, <2>3 DEF FitNow, Fit, Works, Holds, HasIr, HasEvidence, HasTree, HasAnalysis
  <2>6. wk[w].raw \in Bytes BY <1>1, <2>3, Running DEF Pipeline
  <2>7. wk[w].raw \in MaybeNone(Checkpoint("preflight")) BY <2>6 DEF MaybeNone, Checkpoint
  <2> QED BY <1>1, <1>3, <2>1, <2>2, <2>3, <2>4, <2>5, <2>7, BeginStep
<1>10. CASE RawBegin(w)
  <2>1. wk[w].pc = "raw_begin" BY <1>10 DEF RawBegin, At
  <2>2. FitNow(w) => stage[j]["raw_asset"] \notin Finals BY <2>1 DEF FitNow, Fit, Works
  <2>3. CASE honor_control(w, "raw_asset") BY <1>1, <1>3, <2>2, <2>3, HonorStep
  <2>4. CASE wk' = [wk EXCEPT ![w].pc = "raw"] /\ set_stage(w, "raw_asset", "running", None)
    <3>1. Next1("raw", wk[w].raw) BY <1>5, <2>4
    <3>2. ThreadTyped(wk'[w]) BY <1>1, <3>1 DEF ThreadTyped, HasIr, HasEvidence
    <3>3. SourceInv => SourceRun(w)'
      BY <1>1, <2>1, <2>4, <3>1 DEF SourceInv, SourceRun, set_stage, HasIr, Pipeline
    <3>4. FitNow(w) => Fit(quarantined[j], Env[j], wk'[w], stage[j], ckpt[j])
      BY <2>1, <3>1 DEF FitNow, Fit, Works, Holds, HasIr, HasEvidence, HasTree, HasAnalysis
    <3>5. None \in MaybeNone(Checkpoint("raw_asset")) BY DEF MaybeNone
    <3> QED BY <1>1, <1>3, <2>2, <2>4, <3>1, <3>2, <3>3, <3>4, <3>5, BeginStep
  <2> QED BY <1>10, <2>3, <2>4 DEF RawBegin
<1>11. CASE Raw(w)
  <2> DEFINE raw == wk[w].raw
  <2>1. PICK c \in {None, raw} :
          /\ set_stage(w, "raw_asset", "completed", c)
          /\ \/ c = None /\ wk' = [wk EXCEPT ![w].pc = "duplicate"]
             \/ c # None /\ wk' = [wk EXCEPT ![w].pc = "ir_begin"]
    <3>1. raw \in Bytes BY <1>1, <1>11, Running DEF Raw, At, Pipeline
    <3>2. raw # None BY <3>1, ImportAssumption DEF ImportAssumption
    <3> QED BY <1>11, <3>2 DEF Raw
  <2>2. wk[w].pc = "raw" /\ raw \in Bytes
    BY <1>1, <1>11, Running DEF Raw, At, Pipeline
  <2>3. Next1(wk'[w].pc, raw) /\ wk'[w].pc = IF c = None THEN "duplicate" ELSE "ir_begin"
    BY <1>5, <2>1
  <2>4. ThreadTyped(wk'[w]) BY <1>1, <2>3 DEF ThreadTyped, HasIr, HasEvidence
  <2>5. ASSUME SourceInv PROVE SourceRun(w)' /\ ("edit" \notin Env[j] => c \in {None, source[j]})
    BY <1>1, <2>1, <2>2, <2>3, <2>5 DEF SourceInv, SourceRun, set_stage, HasIr, Pipeline
  <2>6. c \in MaybeNone(Checkpoint("raw_asset")) BY <2>2 DEF MaybeNone, Checkpoint
  <2>7. /\ \A z \in Stages :
             stage'[j][z] = IF z = "raw_asset" THEN "completed" ELSE stage[j][z]
        /\ \A z \in Stages :
             ckpt'[j][z] = IF z = "raw_asset" /\ c # None THEN c ELSE ckpt[j][z]
    BY <1>2, <1>3, <2>1, Written
  <2>8. ASSUME FitNow(w)
        PROVE  /\ c # None /\ quarantined[j] = None => ckpt[j]["raw_asset"] = None
               /\ Fit(quarantined[j], Env[j], wk'[w], stage'[j], ckpt'[j])
    <3>1. stage[j]["raw_asset"] \notin Finals BY <2>2, <2>8 DEF FitNow, Fit, Works
    <3>2. quarantined[j] = None => Kept(stage'[j], ckpt'[j]) /\ ckpt[j]["raw_asset"] = None
      BY <2>7, <2>8, <3>1, StageNames DEF FitNow, Fit, Kept, Reusable, Made, Finals
    <3>3. Works(wk'[w], stage'[j]) BY <2>3 DEF Works
    <3>4. ASSUME "recover" \notin Env[j] PROVE Chained(stage'[j], ckpt'[j])
      <4>1. Chained(stage[j], ckpt[j]) BY <2>8, <3>4 DEF FitNow, Fit
      <4>2. ckpt[j]["document_ir"] = None BY <3>1, <4>1 DEF Chained
      <4> QED BY <2>7, <4>1, <4>2, StageNames DEF Chained, Made
    <3>5. Holds(wk'[w], stage'[j], ckpt'[j])
      BY <2>3, <2>7, StageNames DEF Holds, HasIr, HasEvidence, HasTree, HasAnalysis, Finals
    <3> QED BY <3>2, <3>3, <3>4, <3>5 DEF Fit
  <2> QED BY <1>1, <1>3, <2>1, <2>3, <2>4, <2>5, <2>6, <2>8, WriteStep
<1> QED BY <1>7, <1>8, <1>9, <1>10, <1>11

\* Entering a stage that is not done.
LEMMA EnterSound ==
    ASSUME IInv, TypeInv, NEW w \in Workers, NEW s, NEW place, EnterStage(w, s, place),
           \/ wk[w].pc = "ir_begin" /\ s = "document_ir" /\ place = "ir"
           \/ wk[w].pc = "tree_begin" /\ s = "deterministic_page_tree" /\ place = "tree"
           \/ wk[w].pc = "analysis_begin" /\ s = "model_analysis" /\ place = "analysis"
           \/ wk[w].pc = "search_begin" /\ s = "search" /\ place = "search",
           s # "search" => ~stage_completed(wk[w].job, s)
    PROVE  Sound
<1> DEFINE j == wk[w].job
<1>1. InRun(w) /\ s \in Stages /\ s # "preflight" BY StageNames DEF InRun
<1>2. DOMAIN wk = Workers /\ DOMAIN wk[w] = Fields BY <1>1, Running
<1>3. s # "search" => stage[j][s] \notin Finals BY DEF stage_completed, Finals
<1>4. CASE honor_control(w, s) BY <1>1, <1>3, <1>4, HonorStep
<1>5. CASE /\ wk' = [wk EXCEPT ![w].pc = place, ![w].active = s]
           /\ set_stage(w, s, "running", None)
  <2>1. /\ Others(w) /\ wk'[w].job = j /\ wk'[w].pc = place /\ wk'[w].active = s
        /\ wk'[w].raw = wk[w].raw /\ wk'[w].ir = wk[w].ir /\ wk'[w].evidence = wk[w].evidence
        /\ wk'[w].tree = wk[w].tree /\ wk'[w].analysis = wk[w].analysis
    BY <1>2, <1>5 DEF Others, Fields
  <2>2. ThreadTyped(wk'[w]) BY <1>1, <2>1, Running DEF ThreadTyped, HasIr, HasEvidence
  <2>3. SourceInv => SourceRun(w)'
    BY <1>1, <1>5, <2>1 DEF SourceInv, SourceRun, set_stage, HasIr, Pipeline
  <2>4. FitNow(w) => Fit(quarantined[j], Env[j], wk'[w], stage[j], ckpt[j])
    BY <1>3, <2>1 DEF FitNow, Fit, Works, Holds, HasIr, HasEvidence, HasTree, HasAnalysis
  <2>5. None \in MaybeNone(Checkpoint(s)) BY DEF MaybeNone
  <2> QED BY <1>1, <1>3, <1>5, <2>1, <2>2, <2>3, <2>4, <2>5, BeginStep
<1> QED BY <1>4, <1>5 DEF EnterStage

\* What a step of the pipeline makes is an artifact.
LEMMA ArtifactTyped ==
    ASSUME NEW of \in Bytes, NEW on \in Stamps \cup {0}, NEW id \in Stamps \cup {0}
    PROVE  /\ Artifact(of, on, id) \in Artifacts /\ Artifact(of, on, id) # None
           /\ Artifact(of, on, id).of = of /\ Artifact(of, on, id).on = on
<1>1. Artifact(of, on, id) \in Artifacts BY DEF Artifact, Artifacts
<1> QED BY <1>1, ImportAssumption DEF Artifact, ImportAssumption

\* Checkpoint c of stage s is made on what is saved.
MadeOn(s, c, st, ck) ==
    /\ s = "document_ir" => /\ st["raw_asset"] \in Finals
                            /\ ck["raw_asset"] # None /\ c.of = ck["raw_asset"]
    /\ s = "evidence" => ck["document_ir"] # None /\ c.on = ck["document_ir"].id
    /\ s \in {"deterministic_page_tree", "model_analysis"} =>
           ck["evidence"] # None /\ c.on = ck["evidence"].id

\* Only stage s of f changes.
Sets(f, g, s, v) == \A z \in Stages : g[z] = IF z = s THEN v ELSE f[z]

\* A checkpoint that is made (set_stage with a checkpoint): it is the first one of its stage, and
\* made on what is saved.
LEMMA MadeFits ==
    ASSUME NEW w \in Workers, FitNow(w), NEW s \in Made, NEW c, c # None,
           stage[wk[w].job][s] \notin Finals,
           NEW st, NEW status \in Finals, Sets(stage[wk[w].job], st, s, status),
           NEW ck, Sets(ckpt[wk[w].job], ck, s, c),
           "recover" \notin Env[wk[w].job] => MadeOn(s, c, st, ck)
    PROVE  LET j == wk[w].job IN
           /\ quarantined[j] = None => Kept(st, ck) /\ ckpt[j][s] = None
           /\ "recover" \notin Env[j] => Chained(st, ck) /\ Chained(stage[j], ckpt[j])
<1> DEFINE j == wk[w].job
<1>0. /\ \A z \in Stages : st[z] = IF z = s THEN status ELSE stage[j][z]
      /\ \A z \in Stages : ck[z] = IF z = s THEN c ELSE ckpt[j][z]
  BY DEF Sets
<1>1. Reusable \subseteq Stages BY StageNames DEF Reusable, Made
<1>2. ASSUME quarantined[j] = None PROVE Kept(st, ck) /\ ckpt[j][s] = None
  BY <1>0, <1>1, <1>2 DEF FitNow, Fit, Kept, Reusable, Made
<1>3. ASSUME "recover" \notin Env[j] PROVE Chained(st, ck) /\ Chained(stage[j], ckpt[j])
  <2>1. Chained(stage[j], ckpt[j]) BY <1>3 DEF FitNow, Fit
  <2>2. ckpt[j][s] = None BY <2>1 DEF Chained
  <2>3. \A z \in Made : ck[z] # None <=> st[z] \in Finals
    BY <1>0, <1>1, <2>1 DEF Chained, Reusable
  <2>4. /\ ck["document_ir"] # None => /\ st["raw_asset"] \in Finals /\ ck["raw_asset"] # None
                                       /\ ck["document_ir"].of = ck["raw_asset"]
        /\ ck["evidence"] # None =>
             ck["document_ir"] # None /\ ck["evidence"].on = ck["document_ir"].id
        /\ ck["deterministic_page_tree"] # None =>
             ck["evidence"] # None /\ ck["deterministic_page_tree"].on = ck["evidence"].id
        /\ ck["model_analysis"] # None =>
             ck["evidence"] # None /\ ck["model_analysis"].on = ck["evidence"].id
    BY <1>0, <1>3, <2>1, <2>2, StageNames DEF Chained, Made, MadeOn
  <2> QED BY <2>1, <2>3, <2>4 DEF Chained
<1> QED BY <1>2, <1>3

\* A thread that has made the checkpoint of a stage and takes it along.
LEMMA MakeStep ==
    ASSUME IInv, TypeInv, NEW w \in Workers, InRun(w), Others(w), wk'[w].job = wk[w].job,
           ThreadTyped(wk'[w]), NEW s \in Made, NEW status \in {"completed", "skipped"},
           NEW c \in Artifacts, c # None, set_stage(w, s, status, c),
           SourceInv => SourceRun(w)',
           SourceInv /\ "edit" \notin Env[wk[w].job] /\ s = "document_ir" => c.of = source[wk[w].job],
           FitNow(w) => stage[wk[w].job][s] \notin Finals,
           FitNow(w) /\ "recover" \notin Env[wk[w].job] =>
               MadeOn(s, c, stage[wk[w].job], ckpt[wk[w].job]),
           wk'[w].pc \in {"evidence_begin", "tree_begin", "content_duplicate", "analysis_begin",
                          "search_begin"},
           FitNow(w) /\ "recover" \notin Env[wk[w].job] =>
               Holds(wk'[w], stage'[wk[w].job], ckpt'[wk[w].job])
    PROVE  Sound
<1> DEFINE j == wk[w].job
<1>1. /\ s \in Stages \ {"raw_asset", "preflight", "search"}
      /\ Made \subseteq Stages /\ "raw_asset" \in Stages
  BY StageNames DEF Made
<1>2. j \in Jobs BY Running
<1>3. /\ \A z \in Stages : stage'[j][z] = IF z = s THEN status ELSE stage[j][z]
      /\ \A z \in Stages : ckpt'[j][z] = IF z = s /\ c # None THEN c ELSE ckpt[j][z]
  BY <1>1, <1>2, Written
<1>4. c \in MaybeNone(Checkpoint(s)) BY <1>1 DEF MaybeNone, Checkpoint
<1>5. ASSUME FitNow(w)
      PROVE  /\ quarantined[j] = None => ckpt[j][s] = None
             /\ Fit(quarantined[j], Env[j], wk'[w], stage'[j], ckpt'[j])
  <2> DEFINE st == stage'[j]
             ck == ckpt'[j]
  <2>1. Sets(stage[j], st, s, status) BY <1>3 DEF Sets
  <2>2. Sets(ckpt[j], ck, s, c) BY <1>3 DEF Sets
  <2>3. status \in Finals BY DEF Finals
  <2>4. "recover" \notin Env[j] => MadeOn(s, c, st, ck)
    BY <1>1, <1>5, <2>1, <2>2 DEF Made, MadeOn, Sets
  <2>5. stage[j][s] \notin Finals BY <1>5
  <2>6. "recover" \notin Env[j] => Holds(wk'[w], st, ck) BY <1>5
  <2> HIDE DEF st, ck
  <2>7. /\ quarantined[j] = None => Kept(st, ck) /\ ckpt[j][s] = None
        /\ "recover" \notin Env[j] => Chained(st, ck)
    BY <1>5, <2>1, <2>2, <2>3, <2>4, <2>5, MadeFits
  <2>8. Works(wk'[w], st) BY DEF Works
  <2>9. Fit(quarantined[j], Env[j], wk'[w], st, ck) BY <2>6, <2>7, <2>8 DEF Fit
  <2> QED BY <2>7, <2>9 DEF st, ck
<1> QED BY <1>1, <1>4, <1>5, WriteStep

\* document_ir: parsed from the raw bytes, or read from its checkpoint.
LEMMA IrSound ==
    ASSUME IInv, TypeInv, NEW w \in Workers, IrBegin(w) \/ Ir(w)
    PROVE  Sound
<1> DEFINE j == wk[w].job
           s == "document_ir"
           Next1(ir) == /\ Others(w) /\ wk'[w].job = j /\ wk'[w].pc = "evidence_begin"
                        /\ wk'[w].raw = wk[w].raw /\ wk'[w].ir = ir /\ wk'[w].active = wk[w].active
<1>1. /\ InRun(w) /\ wk[w].active \in Stages /\ wk[w].pc \in {"ir_begin", "ir"}
  BY DEF IrBegin, Ir, At, InRun, TypeInv, ThreadTyped
<1>2. DOMAIN wk = Workers /\ DOMAIN wk[w] = Fields /\ j \in Jobs /\ wk[w].raw \in Bytes
  BY <1>1, Running DEF Pipeline
<1>3. s \in Stages /\ "raw_asset" \in Stages /\ s \in Made BY StageNames DEF Made
<1>4. ASSUME NEW ir, wk' = [wk EXCEPT ![w].pc = "evidence_begin", ![w].ir = ir] PROVE Next1(ir)
  BY <1>2, <1>4 DEF Others, Fields
<1>5. ASSUME NEW ir \in Artifacts, Next1(ir) PROVE ThreadTyped(wk'[w])
  BY <1>1, <1>5 DEF ThreadTyped, HasEvidence
<1>6. CASE IrBegin(w)
  <2> DEFINE saved == ckpt[j][s]
  <2>1. wk[w].pc = "ir_begin" BY <1>6 DEF IrBegin, At
  <2>2. CASE ~stage_completed(j, s) /\ EnterStage(w, s, "ir") BY <2>1, <2>2, EnterSound
  <2>3. CASE Fail(w) BY <1>1, <2>3, FailStep DEF Fail
  <2>4. CASE /\ saved # None
             /\ wk' = [wk EXCEPT ![w].pc = "evidence_begin", ![w].ir = saved]
             /\ UNCHANGED <<durable, open, reg, cancelling>>
    <3>1. Next1(saved) BY <1>4, <2>4
    <3>2. saved \in Artifacts BY <1>2, <1>3, <2>4 DEF TypeInv, RowsTyped, MaybeNone, Checkpoint
    <3>3. ThreadTyped(wk'[w]) BY <1>5, <3>1, <3>2
    <3>4. ASSUME SourceInv PROVE SourceRun(w)'
      BY <1>1, <1>2, <2>4, <3>1, <3>4 DEF SourceInv, SourceRow, SourceRun, durable, Pipeline
    <3>5. FitNow(w) => Fit(quarantined[j], Env[j], wk'[w], stage[j], ckpt[j])
      BY <2>1, <3>1 DEF FitNow, Fit, Works, Holds, HasIr, HasEvidence, HasTree, HasAnalysis
    <3> QED BY <1>1, <2>4, <3>1, <3>3, <3>4, <3>5, GoStep
  <2> QED BY <1>6, <2>2, <2>3, <2>4 DEF IrBegin
<1>7. CASE Ir(w)
  <2> DEFINE id == FreshStamp(j)
             ir == Artifact(wk[w].raw, 0, id)
  <2>1. /\ wk[w].pc = "ir" /\ id \in Stamps
        /\ wk' = [wk EXCEPT ![w].pc = "evidence_begin", ![w].ir = ir]
        /\ set_stage(w, s, "completed", ir)
    BY <1>7 DEF Ir, At
  <2> HIDE DEF id
  <2>2. ir \in Artifacts /\ ir # None /\ ir.of = wk[w].raw
    <3>1. 0 \in Stamps \cup {0} /\ id \in Stamps \cup {0} BY <2>1
    <3> QED BY <1>2, <3>1, ArtifactTyped
  <2> HIDE DEF ir
  <2>3. Next1(ir) BY <1>4, <2>1
  <2>4. ThreadTyped(wk'[w]) BY <1>5, <2>2, <2>3
  <2>5. ASSUME SourceInv PROVE SourceRun(w)' /\ ("edit" \notin Env[j] => ir.of = source[j])
    BY <1>1, <2>1, <2>2, <2>3, <2>5 DEF SourceInv, SourceRun, set_stage, Pipeline
  <2>6. ASSUME FitNow(w) PROVE stage[j][s] \notin Finals BY <2>1, <2>6 DEF FitNow, Fit, Works
  <2>7. ASSUME FitNow(w), "recover" \notin Env[j]
        PROVE  /\ stage[j]["raw_asset"] \in Finals /\ ckpt[j]["raw_asset"] = wk[w].raw
               /\ MadeOn(s, ir, stage[j], ckpt[j])
    BY <1>2, <2>1, <2>2, <2>7, ImportAssumption DEF FitNow, Fit, Holds, ImportAssumption, MadeOn
  <2>8. ASSUME FitNow(w), "recover" \notin Env[j] PROVE Holds(wk'[w], stage'[j], ckpt'[j])
    <3>1. /\ stage'[j]["raw_asset"] = stage[j]["raw_asset"]
          /\ ckpt'[j]["raw_asset"] = ckpt[j]["raw_asset"] /\ ckpt'[j][s] = ir
      BY <1>2, <1>3, <2>1, <2>2, Written
    <3> QED BY <2>3, <2>7, <2>8, <3>1 DEF Holds, HasIr, HasEvidence, HasTree, HasAnalysis
  <2>9. "completed" \in {"completed", "skipped"} OBVIOUS
  <2> QED BY <1>1, <1>3, <2>1, <2>2, <2>3, <2>4, <2>5, <2>6, <2>7, <2>8, <2>9, MakeStep
<1> QED BY <1>6, <1>7

\* evidence: built from the parsed document, or read if it belongs to it.
LEMMA EvidenceSound ==
    ASSUME IInv, TypeInv, NEW w \in Workers, EvidenceBegin(w) \/ Evidence(w)
    PROVE  Sound
<1> DEFINE j == wk[w].job
           s == "evidence"
           Next1(place, evidence) ==
               /\ Others(w) /\ wk'[w].job = j /\ wk'[w].pc = place /\ wk'[w].raw = wk[w].raw
               /\ wk'[w].ir = wk[w].ir /\ wk'[w].evidence = evidence /\ wk'[w].active \in Stages
<1>1. /\ InRun(w) /\ wk[w].active \in Stages /\ wk[w].pc \in {"evidence_begin", "evidence"}
      /\ wk[w].ir \in Artifacts
  BY DEF EvidenceBegin, Evidence, At, InRun, TypeInv, ThreadTyped, HasIr
<1>2. DOMAIN wk = Workers /\ DOMAIN wk[w] = Fields /\ j \in Jobs /\ wk[w].raw \in Bytes
  BY <1>1, Running DEF Pipeline
<1>3. s \in Stages /\ {"raw_asset", "document_ir"} \subseteq Stages /\ s \in Made
  BY StageNames DEF Made
<1>4. wk[w].ir # None /\ wk[w].ir.of \in Bytes /\ wk[w].ir.id \in Stamps \cup {0}
  BY <1>1, ImportAssumption DEF Artifacts, ImportAssumption
<1>5. ASSUME NEW place \in {"evidence", "tree_begin"}, NEW evidence, Next1(place, evidence),
             place = "tree_begin" => evidence \in Artifacts
      PROVE  ThreadTyped(wk'[w])
  BY <1>1, <1>5 DEF ThreadTyped, HasEvidence
<1>6. ASSUME SourceInv, UNCHANGED source, NEW place, NEW evidence, Next1(place, evidence) PROVE SourceRun(w)'
  BY <1>1, <1>6 DEF SourceInv, SourceRun, Pipeline, HasIr
<1>7. CASE EvidenceBegin(w)
  <2> DEFINE saved == ckpt[j][s]
             Same == UNCHANGED <<durable, open, reg, cancelling>>
  <2>1. wk[w].pc = "evidence_begin" BY <1>7 DEF EvidenceBegin, At
  <2>2. ASSUME ~stage_completed(j, s), honor_control(w, s) PROVE Sound
    BY <1>1, <1>3, <2>2, HonorStep DEF stage_completed, Finals
  <2>3. CASE Fail(w) BY <1>1, <2>3, FailStep DEF Fail
  <2>4. ASSUME ~stage_completed(j, s), set_stage(w, s, "running", None), NEW d,
               wk' = [wk EXCEPT ![w].pc = "evidence", ![w].active = s, ![w].dup = d]
        PROVE  Sound
    <3>1. Next1("evidence", wk[w].evidence) BY <1>2, <1>3, <2>4 DEF Others, Fields
    <3>2. ThreadTyped(wk'[w]) BY <1>5, <3>1
    <3>3. SourceInv => SourceRun(w)' BY <1>6, <2>4, <3>1 DEF set_stage
    <3>4. stage[j][s] \notin Finals BY <2>4 DEF stage_completed, Finals
    <3>5. FitNow(w) => Fit(quarantined[j], Env[j], wk'[w], stage[j], ckpt[j])
      BY <2>1, <3>1, <3>4 DEF FitNow, Fit, Works, Holds, HasIr, HasEvidence, HasTree, HasAnalysis
    <3>6. None \in MaybeNone(Checkpoint(s)) BY DEF MaybeNone
    <3> QED BY <1>1, <1>3, <2>4, <3>1, <3>2, <3>3, <3>4, <3>5, <3>6, BeginStep
  <2>5. ASSUME saved # None, Same, NEW d,
               wk' = [wk EXCEPT ![w].pc = "tree_begin", ![w].evidence = saved, ![w].dup = d]
        PROVE  Sound
    <3>1. Next1("tree_begin", saved) BY <1>1, <1>2, <2>5 DEF Others, Fields
    <3>2. saved \in Artifacts BY <1>2, <1>3, <2>5 DEF TypeInv, RowsTyped, MaybeNone, Checkpoint
    <3>3. ThreadTyped(wk'[w]) BY <1>5, <3>1, <3>2
    <3>4. SourceInv => SourceRun(w)' BY <1>6, <2>5, <3>1 DEF durable
    <3>5. FitNow(w) => Fit(quarantined[j], Env[j], wk'[w], stage[j], ckpt[j])
      BY <2>1, <3>1 DEF FitNow, Fit, Works, Holds, HasIr, HasEvidence, HasTree, HasAnalysis
    <3> QED BY <1>1, <2>5, <3>1, <3>3, <3>4, <3>5, GoStep
  <2> QED BY <1>7, <2>2, <2>3, <2>4, <2>5 DEF EvidenceBegin
<1>8. CASE Evidence(w)
  <2> DEFINE id == FreshStamp(j)
             evidence == Artifact(wk[w].ir.of, wk[w].ir.id, id)
             status == IF wk[w].dup = None THEN "completed" ELSE "skipped"
  <2>1. /\ wk[w].pc = "evidence" /\ id \in Stamps
        /\ wk' = [wk EXCEPT ![w].pc = "tree_begin", ![w].evidence = evidence]
        /\ set_stage(w, s, status, evidence)
    BY <1>8 DEF Evidence, At
  <2>2. status \in {"completed", "skipped"} OBVIOUS
  <2> HIDE DEF id, status
  <2>3. evidence \in Artifacts /\ evidence # None /\ evidence.on = wk[w].ir.id
    <3>1. id \in Stamps \cup {0} BY <2>1
    <3> QED BY <1>4, <3>1, ArtifactTyped
  <2> HIDE DEF evidence
  <2>4. Next1("tree_begin", evidence) BY <1>1, <1>2, <2>1 DEF Others, Fields
  <2>5. ThreadTyped(wk'[w]) BY <1>5, <2>3, <2>4
  <2>6. SourceInv => SourceRun(w)' BY <1>6, <2>1, <2>4 DEF set_stage
  <2>7. ASSUME FitNow(w) PROVE stage[j][s] \notin Finals BY <2>1, <2>7 DEF FitNow, Fit, Works
  <2>8. ASSUME FitNow(w), "recover" \notin Env[j]
        PROVE  /\ stage[j]["raw_asset"] \in Finals /\ ckpt[j]["raw_asset"] = wk[w].raw
               /\ ckpt[j]["document_ir"] = wk[w].ir /\ MadeOn(s, evidence, stage[j], ckpt[j])
    BY <1>4, <2>1, <2>3, <2>8 DEF FitNow, Fit, Holds, MadeOn, HasIr
  <2>9. ASSUME FitNow(w), "recover" \notin Env[j] PROVE Holds(wk'[w], stage'[j], ckpt'[j])
    <3>1. /\ stage'[j]["raw_asset"] = stage[j]["raw_asset"]
          /\ ckpt'[j]["raw_asset"] = ckpt[j]["raw_asset"]
          /\ ckpt'[j]["document_ir"] = ckpt[j]["document_ir"] /\ ckpt'[j][s] = evidence
      BY <1>2, <1>3, <2>1, <2>3, Written
    <3> QED BY <2>4, <2>8, <2>9, <3>1 DEF Holds, HasIr, HasEvidence, HasTree, HasAnalysis
  <2> QED BY <1>1, <1>3, <2>1, <2>2, <2>3, <2>4, <2>5, <2>6, <2>7, <2>8, <2>9, MakeStep
<1> QED BY <1>7, <1>8

\* deterministic_page_tree: built over the evidence, or read.
LEMMA TreeSound ==
    ASSUME IInv, TypeInv, NEW w \in Workers, TreeBegin(w) \/ Tree(w)
    PROVE  Sound
<1> DEFINE j == wk[w].job
           s == "deterministic_page_tree"
           Next1(tree) ==
               /\ Others(w) /\ wk'[w].job = j /\ wk'[w].pc \in {"analysis_begin", "content_duplicate"}
               /\ wk'[w].raw = wk[w].raw /\ wk'[w].ir = wk[w].ir
               /\ wk'[w].evidence = wk[w].evidence /\ wk'[w].tree = tree /\ wk'[w].active \in Stages
<1>1. /\ InRun(w) /\ wk[w].active \in Stages /\ wk[w].pc \in {"tree_begin", "tree"}
      /\ wk[w].ir \in Artifacts /\ wk[w].evidence \in Artifacts
  BY DEF TreeBegin, Tree, At, InRun, TypeInv, ThreadTyped, HasIr, HasEvidence
<1>2. DOMAIN wk = Workers /\ DOMAIN wk[w] = Fields /\ j \in Jobs /\ wk[w].raw \in Bytes
  BY <1>1, Running DEF Pipeline
<1>3. s \in Stages /\ {"raw_asset", "document_ir", "evidence"} \subseteq Stages /\ s \in Made
  BY StageNames DEF Made
<1>4. /\ wk[w].evidence # None /\ wk[w].evidence.of \in Bytes
      /\ wk[w].evidence.id \in Stamps \cup {0}
  BY <1>1, ImportAssumption DEF Artifacts, ImportAssumption
<1>5. AfterTree(w) \in {"analysis_begin", "content_duplicate"} BY DEF AfterTree
<1>6. ASSUME NEW tree, Next1(tree) PROVE ThreadTyped(wk'[w])
  BY <1>1, <1>6 DEF ThreadTyped
<1>7. ASSUME SourceInv, UNCHANGED source, NEW tree, Next1(tree) PROVE SourceRun(w)'
  BY <1>1, <1>7 DEF SourceInv, SourceRun, Pipeline, HasIr
<1>8. CASE TreeBegin(w)
  <2> DEFINE saved == ckpt[j][s]
  <2>1. wk[w].pc = "tree_begin" BY <1>8 DEF TreeBegin, At
  <2>2. CASE ~stage_completed(j, s) /\ EnterStage(w, s, "tree") BY <2>1, <2>2, EnterSound
  <2>3. CASE FailAt(w, s) BY <1>1, <1>3, <2>3, FailStep
  <2>4. CASE /\ saved # None
             /\ wk' = [wk EXCEPT ![w].pc = AfterTree(w), ![w].active = s, ![w].tree = saved]
             /\ UNCHANGED <<durable, open, reg, cancelling>>
    <3>1. Next1(saved) BY <1>1, <1>2, <1>3, <1>5, <2>4 DEF Others, Fields
    <3>2. ThreadTyped(wk'[w]) BY <1>6, <3>1
    <3>3. SourceInv => SourceRun(w)' BY <1>7, <2>4, <3>1 DEF durable
    <3>4. FitNow(w) => Fit(quarantined[j], Env[j], wk'[w], stage[j], ckpt[j])
      BY <2>1, <2>4, <3>1 DEF FitNow, Fit, Works, Holds, HasIr, HasEvidence, HasTree, HasAnalysis
    <3> QED BY <1>1, <2>4, <3>1, <3>2, <3>3, <3>4, GoStep
  <2> QED BY <1>8, <2>2, <2>3, <2>4 DEF TreeBegin
<1>9. CASE Tree(w)
  <2> DEFINE tree == Artifact(wk[w].evidence.of, wk[w].evidence.id, 0)
  <2>1. /\ wk[w].pc = "tree" /\ set_stage(w, s, "completed", tree)
        /\ wk' = [wk EXCEPT ![w].pc = AfterTree(w), ![w].tree = tree]
    BY <1>9 DEF Tree, At
  <2>2. tree \in Artifacts /\ tree # None /\ tree.on = wk[w].evidence.id
    <3>1. 0 \in Stamps \cup {0} OBVIOUS
    <3> QED BY <1>4, <3>1, ArtifactTyped
  <2> HIDE DEF tree
  <2>3. Next1(tree) BY <1>1, <1>2, <1>5, <2>1 DEF Others, Fields
  <2>4. ThreadTyped(wk'[w]) BY <1>6, <2>3
  <2>5. SourceInv => SourceRun(w)' BY <1>7, <2>1, <2>3 DEF set_stage
  <2>6. ASSUME FitNow(w) PROVE stage[j][s] \notin Finals BY <2>1, <2>6 DEF FitNow, Fit, Works
  <2>7. ASSUME FitNow(w), "recover" \notin Env[j]
        PROVE  /\ stage[j]["raw_asset"] \in Finals /\ ckpt[j]["raw_asset"] = wk[w].raw
               /\ ckpt[j]["document_ir"] = wk[w].ir /\ ckpt[j]["evidence"] = wk[w].evidence
               /\ MadeOn(s, tree, stage[j], ckpt[j])
    BY <1>4, <2>1, <2>2, <2>7 DEF FitNow, Fit, Holds, MadeOn, HasIr, HasEvidence
  <2>8. ASSUME FitNow(w), "recover" \notin Env[j] PROVE Holds(wk'[w], stage'[j], ckpt'[j])
    <3>1. /\ stage'[j]["raw_asset"] = stage[j]["raw_asset"]
          /\ ckpt'[j]["raw_asset"] = ckpt[j]["raw_asset"]
          /\ ckpt'[j]["document_ir"] = ckpt[j]["document_ir"]
          /\ ckpt'[j]["evidence"] = ckpt[j]["evidence"] /\ ckpt'[j][s] = tree
      BY <1>2, <1>3, <2>1, <2>2, Written
    <3> QED BY <2>2, <2>3, <2>7, <2>8, <3>1 DEF Holds, HasIr, HasEvidence, HasTree, HasAnalysis
  <2>9. "completed" \in {"completed", "skipped"} OBVIOUS
  <2> QED BY <1>1, <1>3, <2>1, <2>2, <2>3, <2>4, <2>5, <2>6, <2>7, <2>8, <2>9, MakeStep
<1> QED BY <1>8, <1>9

\* model_analysis: made over the evidence, or read; it can be paused and cancelled.
LEMMA AnalysisSound ==
    ASSUME IInv, TypeInv, NEW w \in Workers,
           AnalysisBegin(w) \/ Analysis(w) \/ AwaitModelConfiguration(w)
    PROVE  Sound
<1> DEFINE j == wk[w].job
           s == "model_analysis"
           Next1(analysis) ==
               /\ Others(w) /\ wk'[w].job = j /\ wk'[w].pc = "search_begin"
               /\ wk'[w].raw = wk[w].raw /\ wk'[w].ir = wk[w].ir
               /\ wk'[w].evidence = wk[w].evidence /\ wk'[w].tree = wk[w].tree
               /\ wk'[w].analysis = analysis /\ wk'[w].active \in Stages
<1>1. /\ InRun(w) /\ wk[w].active \in Stages /\ wk[w].pc \in {"analysis_begin", "analysis"}
      /\ wk[w].ir \in Artifacts /\ wk[w].evidence \in Artifacts
  BY DEF AnalysisBegin, Analysis, AwaitModelConfiguration, At, InRun, TypeInv, ThreadTyped, HasIr,
         HasEvidence
<1>2. DOMAIN wk = Workers /\ DOMAIN wk[w] = Fields /\ j \in Jobs /\ wk[w].raw \in Bytes
  BY <1>1, Running DEF Pipeline
<1>3. /\ s \in Stages /\ s \in Made
      /\ {"raw_asset", "document_ir", "evidence", "deterministic_page_tree"} \subseteq Stages
  BY StageNames DEF Made
<1>4. /\ wk[w].evidence # None /\ wk[w].evidence.of \in Bytes
      /\ wk[w].evidence.id \in Stamps \cup {0}
  BY <1>1, ImportAssumption DEF Artifacts, ImportAssumption
<1>5. ASSUME NEW z, wk' = [wk EXCEPT ![w].pc = "search_begin", ![w].analysis = z] PROVE Next1(z)
  BY <1>1, <1>2, <1>5 DEF Others, Fields
<1>6. ASSUME NEW z, Next1(z) PROVE ThreadTyped(wk'[w])
  BY <1>1, <1>6 DEF ThreadTyped
<1>7. ASSUME SourceInv, UNCHANGED source, NEW z, Next1(z) PROVE SourceRun(w)'
  BY <1>1, <1>7 DEF SourceInv, SourceRun, Pipeline, HasIr
<1>8. ASSUME wk[w].pc = "analysis", FitNow(w) PROVE stage[j][s] \notin Finals
  BY <1>8 DEF FitNow, Fit, Works
<1>9. CASE AnalysisBegin(w)
  <2> DEFINE saved == ckpt[j][s]
  <2>1. wk[w].pc = "analysis_begin" BY <1>9 DEF AnalysisBegin, At
  <2>2. CASE ~stage_completed(j, s) /\ EnterStage(w, s, "analysis") BY <2>1, <2>2, EnterSound
  <2>3. CASE Fail(w) BY <1>1, <2>3, FailStep DEF Fail
  <2>4. CASE /\ saved # None
             /\ wk' = [wk EXCEPT ![w].pc = "search_begin", ![w].analysis = saved]
             /\ UNCHANGED <<durable, open, reg, cancelling>>
    <3>1. Next1(saved) BY <1>5, <2>4
    <3>2. ThreadTyped(wk'[w]) BY <1>6, <3>1
    <3>3. SourceInv => SourceRun(w)' BY <1>7, <2>4, <3>1 DEF durable
    <3>4. FitNow(w) => Fit(quarantined[j], Env[j], wk'[w], stage[j], ckpt[j])
      BY <2>1, <2>4, <3>1 DEF FitNow, Fit, Works, Holds, HasIr, HasEvidence, HasTree, HasAnalysis
    <3> QED BY <1>1, <2>4, <3>1, <3>2, <3>3, <3>4, GoStep
  <2> QED BY <1>9, <2>2, <2>3, <2>4 DEF AnalysisBegin
<1>10. CASE AwaitModelConfiguration(w)
  BY <1>1, <1>3, <1>8, <1>10, StopStep DEF AwaitModelConfiguration, At
<1>11. CASE Analysis(w)
  <2> DEFINE z == Artifact(wk[w].evidence.of, wk[w].evidence.id, 0)
  <2>1. wk[w].pc = "analysis" BY <1>11 DEF Analysis, At
  <2>2. CASE honor_control(w, s) BY <1>1, <1>3, <1>8, <2>1, <2>2, HonorStep
  <2>3. CASE Stop(w, s, "paused") BY <1>1, <1>3, <1>8, <2>1, <2>3, StopStep
  <2>4. CASE /\ wk' = [wk EXCEPT ![w].pc = "search_begin", ![w].analysis = z]
             /\ set_stage(w, s, "completed", z)
    <3>1. z \in Artifacts /\ z # None /\ z.on = wk[w].evidence.id
      <4>1. 0 \in Stamps \cup {0} OBVIOUS
      <4> QED BY <1>4, <4>1, ArtifactTyped
    <3> HIDE DEF z
    <3>2. Next1(z) BY <1>5, <2>4
    <3>3. ThreadTyped(wk'[w]) BY <1>6, <3>2
    <3>4. SourceInv => SourceRun(w)' BY <1>7, <2>4, <3>2 DEF set_stage
    <3>5. ASSUME FitNow(w), "recover" \notin Env[j]
          PROVE  /\ stage[j]["raw_asset"] \in Finals /\ ckpt[j]["raw_asset"] = wk[w].raw
                 /\ ckpt[j]["document_ir"] = wk[w].ir /\ ckpt[j]["evidence"] = wk[w].evidence
                 /\ ckpt[j]["deterministic_page_tree"] = wk[w].tree /\ wk[w].tree # None
                 /\ MadeOn(s, z, stage[j], ckpt[j])
      BY <1>4, <2>1, <3>1, <3>5 DEF FitNow, Fit, Holds, MadeOn, HasIr, HasEvidence, HasTree
    <3>6. ASSUME FitNow(w), "recover" \notin Env[j] PROVE Holds(wk'[w], stage'[j], ckpt'[j])
      <4>1. /\ stage'[j]["raw_asset"] = stage[j]["raw_asset"]
            /\ ckpt'[j]["raw_asset"] = ckpt[j]["raw_asset"]
            /\ ckpt'[j]["document_ir"] = ckpt[j]["document_ir"]
            /\ ckpt'[j]["evidence"] = ckpt[j]["evidence"]
            /\ ckpt'[j]["deterministic_page_tree"] = ckpt[j]["deterministic_page_tree"]
            /\ ckpt'[j][s] = z
        BY <1>2, <1>3, <2>4, <3>1, Written
      <4> QED BY <3>1, <3>2, <3>5, <3>6, <4>1 DEF Holds, HasIr, HasEvidence, HasTree, HasAnalysis
    <3>7. "completed" \in {"completed", "skipped"} OBVIOUS
    <3> QED BY <1>1, <1>3, <1>8, <2>1, <2>4, <3>1, <3>2, <3>3, <3>4, <3>5, <3>6, <3>7, MakeStep
  <2> QED BY <1>11, <2>2, <2>3, <2>4 DEF Analysis
<1> QED BY <1>9, <1>10, <1>11

\* A run that ends without writing (LoseGate, a document to reuse that was withdrawn).
LEMMA LeaveStep ==
    ASSUME IInv, TypeInv, NEW w \in Workers, InRun(w), Finish(w),
           UNCHANGED <<durable, open, reg, cancelling>>
    PROVE  Sound
<1>1. Others(w) /\ wk'[w].job = wk[w].job /\ ~(InRun(w)') /\ ThreadTyped(wk'[w]) BY RunEnds
<1>2. SourceRun(w)' BY <1>1 DEF SourceRun, InRun, Pipeline, HasIr
<1> QED BY <1>1, <1>2, GoStep

\* Publication, and the ways in which a run ends early.
LEMMA EndsSound ==
    ASSUME IInv, TypeInv, NEW w \in Workers,
           \/ SearchBegin(w) \/ complete_duplicate_job(w) \/ publish_document(w)
           \/ complete_content_duplicate_job(w) \/ LoseGate(w) \/ StepFails(w)
    PROVE  Sound
<1>1. InRun(w) /\ wk[w].pc # "start"
  BY DEF SearchBegin, complete_duplicate_job, publish_document, complete_content_duplicate_job,
         LoseGate, StepFails, Working, At, InRun
<1>2. wk[w].active \in Stages BY <1>1, Running
<1>3. ASSUME Fail(w) PROVE Sound BY <1>1, <1>2, <1>3, FailStep DEF Fail
<1>4. ASSUME NEW doc, NEW done, NEW skipped, Complete(w, doc, done, skipped) PROVE Sound
  BY <1>1, <1>4, CompleteStep
<1>5. ASSUME NEW doc, NEW done, NEW skipped, Publish(w, doc, done, skipped) PROVE Sound
  BY <1>3, <1>4, <1>5 DEF Publish
<1>6. CASE SearchBegin(w)
  <2>1. wk[w].pc = "search_begin" /\ EnterStage(w, "search", "search") BY <1>6 DEF SearchBegin, At
  <2> QED BY <2>1, EnterSound
<1>7. CASE complete_duplicate_job(w) BY <1>4, <1>7 DEF complete_duplicate_job
<1>8. CASE publish_document(w)
  <2>1. ASSUME Complete(w, wk[w].raw, "search", {}) PROVE Sound BY <1>4, <2>1
  <2> DEFINE doc == [ir |-> wk[w].ir.of, root |-> wk[w].raw, available |-> TRUE]
  <2>2. ASSUME Publish(w, doc, "search", {}) PROVE Sound BY <1>5, <2>2
  <2> QED BY <1>8, <2>1, <2>2 DEF publish_document
<1>9. CASE complete_content_duplicate_job(w)
  <2>1. ASSUME Complete(w, wk[w].raw, "document_ir", After("document_ir")) PROVE Sound BY <1>4, <2>1
  <2> DEFINE doc == [ir |-> wk[w].ir.of, root |-> docs[wk[w].dup].root, available |-> TRUE]
             skipped == {"model_analysis"}
  <2>2. ASSUME Publish(w, doc, "search", skipped) PROVE Sound BY <1>5, <2>2
  <2>3. ASSUME Finish(w), UNCHANGED <<durable, open, reg, cancelling>> PROVE Sound
    BY <1>1, <2>3, LeaveStep
  <2> QED BY <1>9, <2>1, <2>2, <2>3 DEF complete_content_duplicate_job
<1>10. CASE LoseGate(w) BY <1>1, <1>10, LeaveStep DEF LoseGate
<1>11. CASE StepFails(w) BY <1>3, <1>11 DEF StepFails
<1> QED BY <1>6, <1>7, <1>8, <1>9, <1>10, <1>11

-----------------------------------------------------------------------------
(* Steps around the runs.                                                  *)

\* Thread u is where it was, but for a request, or in no run any more.
Remains(u) ==
    \/ /\ wk'[u].pc \in {"idle", "done"}
    \/ /\ wk'[u].pc = wk[u].pc /\ wk'[u].job = wk[u].job /\ wk'[u].active = wk[u].active
       /\ wk'[u].raw = wk[u].raw /\ wk'[u].ir = wk[u].ir /\ wk'[u].evidence = wk[u].evidence
       /\ wk'[u].tree = wk[u].tree /\ wk'[u].analysis = wk[u].analysis

\* A step that moves no run on, and leaves what the jobs show as it is, but for the stages that
\* are not done.
LEMMA AroundStep ==
    ASSUME IInv, TypeInv, RowsTyped', \A u \in Workers : Remains(u),
           UNCHANGED ckpt,
           \A i \in Jobs : "edit" \notin Env[i] => source'[i] = source[i],
           Exclusive => \A i \in Jobs : /\ quarantined'[i] = None <=> quarantined[i] = None
                                        /\ job'[i] = "absent" <=> job[i] = "absent"
                                        /\ job[i] = "absent" => stage'[i] = stage[i]
                                        /\ job'[i] \in Live => job[i] \in Live
                                        /\ Similar(stage[i], ckpt[i], stage'[i], ckpt[i])
    PROVE  Sound
<1>1. ASSUME NEW u \in Workers, InRun(u)'
      PROVE  /\ InRun(u) /\ wk[u].job \in Jobs /\ wk'[u].job = wk[u].job
             /\ wk'[u].pc = wk[u].pc /\ wk'[u].raw = wk[u].raw /\ wk'[u].ir = wk[u].ir
  <2>1. wk'[u].pc \notin {"idle", "done"} BY <1>1 DEF InRun
  <2>2. /\ wk'[u].pc = wk[u].pc /\ wk'[u].job = wk[u].job
        /\ wk'[u].raw = wk[u].raw /\ wk'[u].ir = wk[u].ir
    BY <2>1 DEF Remains
  <2>3. InRun(u) BY <1>1, <2>2 DEF InRun
  <2> QED BY <2>2, <2>3, Running
<1>2. TypeInv'
  <2>1. \A u \in Workers : ThreadTyped(wk'[u])
    BY DEF TypeInv, ThreadTyped, Remains, HasIr, HasEvidence
  <2> QED BY <2>1 DEF TypeInv
<1>3. ASSUME SourceInv PROVE SourceInv'
  <2>1. \A j \in Jobs : SourceRow(j)' BY <1>3 DEF SourceInv, SourceRow
  <2>2. ASSUME NEW u \in Workers, InRun(u)' PROVE SourceRun(u)'
    BY <1>1, <1>3, <2>2 DEF SourceInv, SourceRun
  <2> QED BY <2>1, <2>2 DEF SourceInv
<1>4. ASSUME Exclusive, ReuseInv PROVE ReuseInv' /\ ReusesWork
  <2>1. ASSUME NEW i \in Jobs PROVE RowOk(i)'
    <3>1. RowOk(i) /\ Similar(stage[i], ckpt[i], stage'[i], ckpt[i]) BY <1>4 DEF ReuseInv
    <3>2. /\ Kept(stage[i], ckpt[i]) => Kept(stage'[i], ckpt[i])
          /\ Chained(stage[i], ckpt[i]) => Chained(stage'[i], ckpt[i])
      BY <3>1, SimilarFits
    <3>3. job'[i] \in Live => job[i] \in Live BY <1>4
    <3>4. /\ quarantined'[i] = None <=> quarantined[i] = None
          /\ job'[i] = "absent" => job[i] = "absent" /\ stage'[i] = stage[i]
      BY <1>4
    <3>5. ckpt' = ckpt OBVIOUS
    <3> QED BY <3>1, <3>2, <3>3, <3>4, <3>5 DEF RowOk
  <2>2. ASSUME NEW u \in Workers, InRun(u)' PROVE RunOk(u)'
    <3> DEFINE j == wk[u].job
    <3>1. RunOk(u) BY <1>1, <1>4, <2>2 DEF ReuseInv
    <3>2. Similar(stage[j], ckpt[j], stage'[j], ckpt[j]) BY <1>1, <1>4, <2>2
    <3>3. Works(wk[u], stage'[j]) BY <3>1, <3>2 DEF RunOk, Works, Similar, Reusable, Made
    <3>4. "recover" \notin Env[j] => Holds(wk[u], stage'[j], ckpt[j])
      BY <3>1, <3>2 DEF RunOk, Holds, Similar, Reusable, Made
    <3>5. Remains(u) /\ wk'[u].pc \notin {"idle", "done"} BY <2>2 DEF InRun
    <3>6. Works(wk'[u], stage'[j]) BY <3>3, <3>5 DEF Works, Remains
    <3>7. "recover" \notin Env[j] => Holds(wk'[u], stage'[j], ckpt[j])
      BY <3>4, <3>5 DEF Holds, Remains
    <3> QED BY <1>1, <2>2, <3>6, <3>7 DEF RunOk
  <2> QED BY <2>1, <2>2 DEF ReuseInv, ReusesWork
<1> QED BY <1>2, <1>3, <1>4 DEF Sound

\* Requests, files and the engine: nothing that was done is forgotten.
LEMMA AroundSound ==
    ASSUME IInv, TypeInv,
           \/ \E w \in Workers : Release(w) \/ RequestPause(w) \/ mark_failed(w)
           \/ \E j \in Jobs : \/ RequestCancel(j) \/ EditSource(j) \/ CancelPausedCheck(j)
                              \/ CancelPausedPick(j) \/ CancelPausedWrite(j)
           \/ \E b \in Bytes : WithdrawDocument(b)
           \/ Crash \/ OpenKnowledgeBase \/ UNCHANGED vars
    PROVE  Sound
<1>1. /\ DOMAIN wk = Workers /\ \A w \in Workers : DOMAIN wk[w] = Fields
      /\ \A w \in Workers : wk[w].pc = "marking" => wk[w].active \in Stages
  BY DEF IInv, ThreadsInv, ThreadOk, TypeInv, ThreadTyped
<1>2. /\ job \in [Jobs -> JobStates] /\ stage \in [Jobs -> [Stages -> StageStates]]
      /\ quarantined \in [Jobs -> MaybeNone(Stages)] /\ reg \in [Jobs -> MaybeNone(Workers)]
      /\ cancelling \in [Jobs -> {"no", "checked"} \cup Stages]
      /\ source \in [Jobs -> Bytes]
  BY DEF TypeInv, RowsTyped, IInv, JobsInv
<1>3. \A i \in Jobs : Similar(stage[i], ckpt[i], stage[i], ckpt[i]) BY DEF Similar
<1>4. UNCHANGED wk => \A u \in Workers : Remains(u) BY DEF Remains
\* A step that leaves the rows alone.
<1>5. ASSUME UNCHANGED <<job, stage, ckpt, quarantined>>, RowsTyped', \A u \in Workers : Remains(u),
             \A i \in Jobs : "edit" \notin Env[i] => source'[i] = source[i]
      PROVE  Sound
  BY <1>3, <1>5, AroundStep
<1>6. ASSUME NEW w \in Workers, Release(w) PROVE Sound
  <2>1. \A u \in Workers : Remains(u) BY <1>1, <1>6 DEF Release, Remains, Thread
  <2>2. reg' \in [Jobs -> MaybeNone(Workers)] BY <1>2, <1>6 DEF Release, MaybeNone
  <2>3. RowsTyped' BY <1>6, <2>2 DEF TypeInv, RowsTyped, Release, durable
  <2> QED BY <1>5, <1>6, <2>1, <2>3 DEF Release, durable
<1>7. ASSUME NEW w \in Workers, NEW c, wk' = [wk EXCEPT ![w].control = c],
             UNCHANGED <<durable, open, reg, cancelling>>
      PROVE  Sound
  <2>1. ASSUME NEW u \in Workers PROVE Remains(u)
    <3>1. CASE u = w BY <1>1, <1>7, <3>1 DEF Remains, Fields
    <3>2. CASE u # w BY <1>1, <1>7, <3>2 DEF Remains
    <3> QED BY <3>1, <3>2
  <2>2. RowsTyped' BY <1>7 DEF TypeInv, RowsTyped, durable
  <2> QED BY <1>5, <1>7, <2>1, <2>2 DEF durable
<1>8. ASSUME NEW w \in Workers, RequestPause(w) PROVE Sound BY <1>7, <1>8 DEF RequestPause
<1>9. ASSUME NEW j \in Jobs, RequestCancel(j) PROVE Sound
  <2>1. reg[j] \in Workers BY <1>2, <1>9 DEF RequestCancel, MaybeNone
  <2> QED BY <1>7, <1>9, <2>1 DEF RequestCancel
<1>10. ASSUME NEW w \in Workers, mark_failed(w) PROVE Sound
  <2> DEFINE j == wk[w].job
  <2>1. j \in Jobs /\ wk[w].active \in Stages
    BY <1>1, <1>10 DEF mark_failed, At, IInv, ThreadsInv, ThreadOk
  <2>2. \A u \in Workers : Remains(u)
    BY <1>1, <1>10 DEF mark_failed, Finish, Remains, Thread
  <2>3. \/ UNCHANGED quarantined
        \/ /\ quarantined[j] # None
           /\ quarantined' = [quarantined EXCEPT ![j] = wk[w].active]
    BY <1>2, <1>10, <2>1 DEF mark_failed
  <2>4. UNCHANGED <<source, job, stage, ckpt, reg, cancelling>> BY <1>10 DEF mark_failed
  <2>5. quarantined' \in [Jobs -> MaybeNone(Stages)] BY <1>2, <2>1, <2>3 DEF MaybeNone
  <2>6. \A i \in Jobs : quarantined'[i] = None <=> quarantined[i] = None
    BY <1>2, <2>1, <2>3, StageAssumption DEF StageAssumption
  <2>7. RowsTyped' BY <2>4, <2>5 DEF TypeInv, RowsTyped
  <2> QED BY <1>3, <2>2, <2>4, <2>6, <2>7, AroundStep
<1>11. ASSUME NEW j \in Jobs, EditSource(j) PROVE Sound
  <2>1. \A i \in Jobs : "edit" \notin Env[i] => source'[i] = source[i]
    BY <1>2, <1>11 DEF EditSource
  <2>2. RowsTyped' BY <1>11 DEF TypeInv, RowsTyped, EditSource
  <2> QED BY <1>4, <1>5, <1>11, <2>1, <2>2 DEF EditSource
<1>12. ASSUME NEW j \in Jobs, CancelPausedCheck(j) \/ CancelPausedPick(j) PROVE Sound
  <2>1. cancelling' \in [Jobs -> {"no", "checked"} \cup Stages]
    BY <1>2, <1>12, NextIsStage DEF CancelPausedCheck, CancelPausedPick
  <2>2. RowsTyped'
    BY <1>12, <2>1 DEF TypeInv, RowsTyped, CancelPausedCheck, CancelPausedPick, durable
  <2> QED BY <1>4, <1>5, <1>12, <2>2 DEF CancelPausedCheck, CancelPausedPick, durable
<1>13. ASSUME NEW b \in Bytes, WithdrawDocument(b) PROVE Sound
  <2>1. RowsTyped' BY <1>13 DEF TypeInv, RowsTyped, WithdrawDocument
  <2> QED BY <1>4, <1>5, <1>13, <2>1 DEF WithdrawDocument
<1>14. CASE Crash
  <2>1. \A u \in Workers : Remains(u) BY <1>14 DEF Crash, Remains, Thread
  <2>2. RowsTyped' BY <1>14 DEF TypeInv, RowsTyped, Crash, durable, MaybeNone
  <2> QED BY <1>5, <1>14, <2>1, <2>2 DEF Crash, durable
<1>15. CASE UNCHANGED vars
  <2>1. RowsTyped' BY <1>15 DEF TypeInv, RowsTyped, vars, durable
  <2> QED BY <1>4, <1>5, <1>15, <2>1 DEF vars, durable
<1>16. ASSUME NEW j \in Jobs, CancelPausedWrite(j) PROVE Sound
  <2>1. /\ stage' \in [Jobs -> [Stages -> StageStates]] /\ job' \in [Jobs -> JobStates]
        /\ cancelling' \in [Jobs -> {"no", "checked"} \cup Stages]
    BY <1>2, <1>16 DEF CancelPausedWrite, ControlState, StageStates, JobStates
  <2>2. RowsTyped' BY <1>16, <2>1 DEF TypeInv, RowsTyped, CancelPausedWrite, ControlState
  <2>3. ~Exclusive
    BY <1>16, StageNames DEF CancelPausedWrite, Exclusive, NoLateCancel, RunsInv, NoTrace
  <2> QED BY <1>4, <1>16, <2>2, <2>3, AroundStep DEF CancelPausedWrite, ControlState
<1>17. CASE OpenKnowledgeBase
  <2> DEFINE interrupted == {i \in Jobs : job[i] = "running"}
             new(i) == [s \in Stages |->
                 IF i \in interrupted /\ stage[i][s] = "running" THEN "paused" ELSE stage[i][s]]
  <2>1. /\ job' = [i \in Jobs |-> IF i \in interrupted THEN "recoverable" ELSE job[i]]
        /\ stage' = [i \in Jobs |-> new(i)]
        /\ UNCHANGED <<source, ckpt, quarantined, wk, reg, cancelling>>
    BY <1>17 DEF OpenKnowledgeBase
  <2>2. ASSUME NEW i \in Jobs
        PROVE  /\ new(i) \in [Stages -> StageStates]
               /\ job[i] = "absent" => new(i) = stage[i]
               /\ Similar(stage[i], ckpt[i], new(i), ckpt[i])
    <3>1. stage[i] \in [Stages -> StageStates] BY <1>2
    <3>2. new(i) \in [Stages -> StageStates] BY <3>1 DEF StageStates
    <3>3. ASSUME job[i] = "absent" PROVE new(i) = stage[i] BY <3>1, <3>3
    <3>4. \A s \in Stages : new(i)[s] \in Finals <=> stage[i][s] \in Finals BY DEF Finals
    <3>5. Reusable \subseteq Stages BY StageNames DEF Reusable, Made
    <3> HIDE DEF new
    <3> QED BY <3>2, <3>3, <3>4, <3>5 DEF Similar
  <2>3. \A i \in Jobs : stage'[i] = new(i) BY <2>1
  <2>4. stage' \in [Jobs -> [Stages -> StageStates]]
    <3> HIDE DEF new
    <3> QED BY <2>1, <2>2
  <2>5. job' \in [Jobs -> JobStates] BY <1>2, <2>1 DEF JobStates, Live
  <2>6. RowsTyped' BY <2>1, <2>4, <2>5 DEF TypeInv, RowsTyped
  <2>7. \A i \in Jobs : (job'[i] = "absent" <=> job[i] = "absent") /\ (job'[i] \in Live => job[i] \in Live)
    BY <2>1 DEF Live
  <2> HIDE DEF new
  <2> QED BY <1>4, <2>1, <2>2, <2>3, <2>6, <2>7, AroundStep
<1> QED BY <1>6, <1>8, <1>9, <1>10, <1>11, <1>12, <1>13, <1>14, <1>15, <1>16, <1>17

\* A thread that takes a job up: what is done stays done, unless the job is in quarantine.
LEMMA TakeUpStep ==
    ASSUME IInv, TypeInv, NEW w \in Workers, NEW j \in Jobs, Begin(w, j),
           RowsTyped', UNCHANGED <<source, quarantined>>,
           \A i \in Jobs \ {j} : SameRow(i),
           \A s \in Stages : ckpt'[j][s] \in {None, ckpt[j][s]},
           quarantined[j] = None => ckpt'[j] = ckpt[j],
           job'[j] = "running",
           RowOk(j) => /\ quarantined[j] = None => Kept(stage'[j], ckpt'[j])
                       /\ "recover" \notin Env[j] => Chained(stage'[j], ckpt'[j])
    PROVE  Sound
<1>1. DOMAIN wk = Workers BY DEF IInv, ThreadsInv
<1>2. Others(w) /\ wk'[w].job = j /\ wk'[w].pc = "start"
  BY <1>1 DEF Begin, create_job, resume_job, begin_recovery, Others, Thread
<1>3. \A u \in Workers \ {w} : wk'[u] = wk[u] /\ (InRun(u)' <=> InRun(u)) BY <1>2 DEF Others, InRun
<1>4. TypeInv'
  <2>1. ThreadTyped(wk'[w]) BY <1>2 DEF ThreadTyped, HasIr, HasEvidence
  <2> QED BY <1>3, <2>1 DEF TypeInv
<1>5. ASSUME SourceInv PROVE SourceInv'
  <2>1. "raw_asset" \in Stages /\ "document_ir" \in Stages BY StageNames
  <2>2. ASSUME NEW i \in Jobs PROVE SourceRow(i)'
    <3>1. CASE i = j BY <1>5, <2>1, <3>1 DEF SourceInv, SourceRow
    <3>2. CASE i # j BY <1>5, <3>2 DEF SourceInv, SourceRow, SameRow
    <3> QED BY <3>1, <3>2
  <2>3. ASSUME NEW u \in Workers, InRun(u)' PROVE SourceRun(u)'
    <3>1. CASE u = w BY <1>2, <3>1 DEF SourceRun, Pipeline, HasIr
    <3>2. CASE u # w BY <1>3, <1>5, <2>3, <3>2 DEF SourceInv, SourceRun
    <3> QED BY <3>1, <3>2
  <2> QED BY <2>2, <2>3 DEF SourceInv
<1>6. ASSUME Exclusive, ReuseInv PROVE ReuseInv' /\ ReusesWork
  <2>1. NoTakeOver BY <1>6 DEF Exclusive, NoLateCancel, NoTakeOver
  <2>2. TakesUp(w, j) BY <2>1, BeginTakesUp
  <2>3. ASSUME NEW i \in Jobs PROVE RowOk(i)'
    <3>1. CASE i = j
      <4>1. RowOk(j) BY <1>6 DEF ReuseInv
      <4> QED BY <3>1, <4>1 DEF RowOk
    <3>2. CASE i # j BY <1>6, <3>2 DEF ReuseInv, RowOk, SameRow
    <3> QED BY <3>1, <3>2
  <2>4. ASSUME NEW u \in Workers, InRun(u)' PROVE RunOk(u)'
    <3>1. CASE u = w
      BY <1>2, <3>1 DEF RunOk, Works, Holds, HasIr, HasEvidence, HasTree, HasAnalysis
    <3>2. CASE u # w
      <4>1. InRun(u) /\ wk[u].job \in Jobs /\ RunOk(u)
        BY <1>3, <1>6, <2>4, <3>2, Running DEF ReuseInv
      <4>2. wk[u].job # j BY <1>6, <2>2, <4>1 DEF TakesUp, Exclusive, RunsInv
      <4> QED BY <1>3, <3>2, <4>1, <4>2 DEF RunOk, SameRow
    <3> QED BY <3>1, <3>2
  <2>5. \A i \in Jobs : Reused1(i) BY <1>6 DEF Reused1, SameRow
  <2> QED BY <2>3, <2>4, <2>5 DEF ReuseInv, ReusesWork, Reused1
<1> QED BY <1>4, <1>5, <1>6 DEF Sound

\* Beginning a run (create_job, resume_job, begin of a recovery).
LEMMA BeginSound ==
    ASSUME IInv, TypeInv, NEW w \in Workers, NEW j \in Jobs, Begin(w, j)
    PROVE  Sound
<1>1. /\ job \in [Jobs -> JobStates] /\ stage \in [Jobs -> [Stages -> StageStates]]
      /\ quarantined \in [Jobs -> MaybeNone(Stages)] /\ reg \in [Jobs -> MaybeNone(Workers)]
      /\ \A i \in Jobs, s \in Stages : ckpt[i][s] \in MaybeNone(Checkpoint(s))
      /\ DOMAIN ckpt = Jobs /\ DOMAIN ckpt[j] = Stages
  BY DEF TypeInv, RowsTyped, IInv, JobsInv, CheckpointsOk
<1>2. Reusable \subseteq Stages /\ Made \subseteq Derived
  BY StageNames DEF Reusable, Made
<1>3. CASE create_job(w, j)
  <2>1. /\ job[j] = "absent" /\ job' = [job EXCEPT ![j] = "running"]
        /\ UNCHANGED <<source, stage, ckpt, quarantined, reg, cancelling>>
    BY <1>3 DEF create_job
  <2>2. job' \in [Jobs -> JobStates] /\ job'[j] = "running"
    BY <1>1, <2>1 DEF JobStates, Live
  <2>3. RowsTyped' BY <2>1, <2>2 DEF TypeInv, RowsTyped
  <2>4. \A i \in Jobs \ {j} : SameRow(i) BY <1>1, <2>1 DEF SameRow
  <2>5. ASSUME RowOk(j) PROVE Kept(stage'[j], ckpt'[j]) /\ Chained(stage'[j], ckpt'[j])
    <3>1. \A s \in Stages : stage'[j][s] = "pending" /\ ckpt'[j][s] = None
      BY <2>1, <2>5 DEF RowOk, Fresh, NoCheckpoints
    <3> QED BY <1>2, <3>1 DEF Kept, Chained, Reusable, Made, Finals
  <2> QED BY <2>1, <2>2, <2>3, <2>4, <2>5, TakeUpStep
<1>4. CASE resume_job(w, j)
  <2> DEFINE new == [s \in Stages |-> IF stage[j][s] = "paused" THEN "pending" ELSE stage[j][s]]
  <2>1. /\ job[j] \in Live /\ job' = [job EXCEPT ![j] = "running"]
        /\ stage' = [stage EXCEPT ![j] = new]
        /\ UNCHANGED <<source, ckpt, quarantined, reg, cancelling>>
    BY <1>4 DEF resume_job, Live
  <2>2. new \in [Stages -> StageStates] BY <1>1 DEF StageStates
  <2>3. Similar(stage[j], ckpt[j], new, ckpt[j]) BY <1>2 DEF Similar, Finals
  <2> HIDE DEF new
  <2>4. job' \in [Jobs -> JobStates] /\ job'[j] = "running"
    BY <1>1, <2>1 DEF JobStates, Live
  <2>5. stage' \in [Jobs -> [Stages -> StageStates]] /\ stage'[j] = new BY <1>1, <2>1, <2>2
  <2>6. RowsTyped' BY <2>1, <2>4, <2>5 DEF TypeInv, RowsTyped
  <2>7. \A i \in Jobs \ {j} : SameRow(i) BY <1>1, <2>1 DEF SameRow
  <2>8. RowOk(j) => /\ quarantined[j] = None => Kept(stage'[j], ckpt'[j])
                    /\ "recover" \notin Env[j] => Chained(stage'[j], ckpt'[j])
    BY <2>1, <2>3, <2>5, SimilarFits DEF RowOk
  <2> QED BY <2>1, <2>4, <2>6, <2>7, <2>8, TakeUpStep
<1>5. ASSUME NEW reparse \in BOOLEAN, begin_recovery(w, j, reparse) PROVE Sound
  <2> DEFINE new == [s \in Stages |-> IF s = quarantined[j] \/ (reparse /\ s \in Derived)
                                     THEN "pending" ELSE stage[j][s]]
             saved == [s \in Stages |-> IF reparse /\ s \in Derived THEN None ELSE ckpt[j][s]]
  <2>1. /\ quarantined[j] # None /\ (IF reparse THEN "reparse" ELSE "recover") \in Env[j]
        /\ job' = [job EXCEPT ![j] = "running"]
        /\ stage' = [stage EXCEPT ![j] = new] /\ ckpt' = [ckpt EXCEPT ![j] = saved]
        /\ reg' = [reg EXCEPT ![j] = w]
        /\ UNCHANGED <<source, quarantined, cancelling>>
    BY <1>5 DEF begin_recovery
  <2>2. new \in [Stages -> StageStates] BY <1>1 DEF StageStates
  <2>3. \A s \in Stages : saved[s] \in {None, ckpt[j][s]} OBVIOUS
  <2>4. reparse => \A s \in Made : new[s] = "pending" /\ saved[s] = None
    BY <1>2, StageNames
  <2> HIDE DEF new, saved
  <2>5. job' \in [Jobs -> JobStates] /\ job'[j] = "running"
    BY <1>1, <2>1 DEF JobStates, Live
  <2>6. stage' \in [Jobs -> [Stages -> StageStates]] /\ stage'[j] = new BY <1>1, <2>1, <2>2
  <2>7. ckpt'[j] = saved /\ \A i \in Jobs \ {j} : ckpt'[i] = ckpt[i] BY <1>1, <2>1
  <2>8. ASSUME NEW i \in Jobs, NEW s \in Stages PROVE ckpt'[i][s] \in MaybeNone(Checkpoint(s))
    <3>1. CASE i = j BY <1>1, <2>3, <2>7, <3>1 DEF MaybeNone
    <3>2. CASE i # j BY <1>1, <2>7, <3>2
    <3> QED BY <3>1, <3>2
  <2>9. reg' \in [Jobs -> MaybeNone(Workers)] BY <1>1, <2>1 DEF MaybeNone
  <2>10. RowsTyped' BY <2>1, <2>5, <2>6, <2>8, <2>9 DEF TypeInv, RowsTyped
  <2>11. \A i \in Jobs \ {j} : SameRow(i) BY <1>1, <2>1, <2>7 DEF SameRow
  <2>12. "recover" \notin Env[j] => Chained(new, saved)
    BY <2>1, <2>4 DEF Chained, Made, Finals
  <2> QED BY <2>1, <2>3, <2>5, <2>6, <2>7, <2>10, <2>11, <2>12, TakeUpStep
<1> QED BY <1>3, <1>4, <1>5 DEF Begin

-----------------------------------------------------------------------------
(* The theorems.                                                           *)

\* Every step of a worker, of a request and of the engine keeps the three invariants.
LEMMA StepSound ==
    ASSUME IInv, TypeInv, [Next]_vars
    PROVE  Sound
<1>1. ASSUME NEW w \in Workers, Work(w) PROVE Sound
  <2>1. CASE Start(w) BY <2>1, StartSound
  <2>2. CASE LoadRaw(w) \/ Preflight(w) \/ PreflightEnd(w) \/ RawBegin(w) \/ Raw(w)
    BY <2>2, RawInputSound
  <2>3. CASE IrBegin(w) \/ Ir(w) BY <2>3, IrSound
  <2>4. CASE EvidenceBegin(w) \/ Evidence(w) BY <2>4, EvidenceSound
  <2>5. CASE TreeBegin(w) \/ Tree(w) BY <2>5, TreeSound
  <2>6. CASE AnalysisBegin(w) \/ Analysis(w) BY <2>6, AnalysisSound
  <2>7. CASE \/ SearchBegin(w) \/ complete_duplicate_job(w) \/ publish_document(w)
             \/ complete_content_duplicate_job(w)
    BY <2>7, EndsSound
  <2>8. CASE mark_failed(w) \/ Release(w) BY <2>8, AroundSound
  <2> QED BY <1>1, <2>1, <2>2, <2>3, <2>4, <2>5, <2>6, <2>7, <2>8 DEF Work
<1>2. ASSUME NEW w \in Workers, Trouble(w) PROVE Sound
  BY <1>2, AnalysisSound, EndsSound, QuarantineStep DEF Trouble
<1>3. ASSUME NEW w \in Workers, NEW j \in Jobs, Begin(w, j) PROVE Sound BY <1>3, BeginSound
<1>4. ASSUME NEW w \in Workers, RequestPause(w) PROVE Sound BY <1>4, AroundSound
<1>5. ASSUME NEW j \in Jobs, \/ RequestCancel(j) \/ EditSource(j) \/ CancelPausedCheck(j)
                             \/ CancelPausedPick(j) \/ CancelPausedWrite(j)
      PROVE  Sound
  BY <1>5, AroundSound
<1>6. ASSUME NEW b \in Bytes, WithdrawDocument(b) PROVE Sound BY <1>6, AroundSound
<1>7. CASE Crash \/ OpenKnowledgeBase \/ UNCHANGED vars BY <1>7, AroundSound
<1> QED BY <1>1, <1>2, <1>3, <1>4, <1>5, <1>6, <1>7 DEF Next

\* A knowledge base without jobs satisfies them.
LEMMA RunsInit == Init => TypeInv /\ SourceInv /\ ReuseInv
<1> SUFFICES ASSUME Init PROVE TypeInv /\ SourceInv /\ ReuseInv OBVIOUS
<1>1. \A w \in Workers : wk[w].pc = "idle" /\ ~InRun(w) BY DEF Init, Thread, InRun
<1>2. "raw_asset" \in Stages /\ "document_ir" \in Stages BY StageNames
<1>3. RowsTyped
  BY DEF Init, RowsTyped, JobStates, StageStates, Fresh, NoCheckpoints, MaybeNone
<1>4. \A w \in Workers : ThreadTyped(wk[w]) BY <1>1 DEF ThreadTyped, HasIr, HasEvidence
<1>5. \A j \in Jobs : SourceRow(j) BY <1>2 DEF Init, SourceRow, NoCheckpoints
<1>6. \A j \in Jobs : RowOk(j) BY DEF Init, RowOk, Live
<1> QED BY <1>1, <1>3, <1>4, <1>5, <1>6 DEF TypeInv, SourceInv, ReuseInv

\* The types follow from the two parts of the invariant.
LEMMA TypesMean == ASSUME IInv, TypeInv PROVE TypeOK
BY DEF IInv, LibraryInv, JobsInv, ThreadsInv, ThreadOk, TypeInv, RowsTyped, ThreadTyped, TypeOK,
       JobStates, StageStates, InRun
\* Every status, checkpoint and thread is as its type says, in every environment (store.py: the
\* schema's CHECKs; runner.py: what _run hands from stage to stage).
THEOREM TypeCorrectness == Spec => []TypeOK
<1>1. Init => IInv /\ TypeInv BY InitOk, RunsInit
<1>2. IInv /\ TypeInv /\ [Next]_vars => IInv' /\ TypeInv'
  BY NextOk, StepSound DEF Sound
<1>3. IInv /\ TypeInv => TypeOK BY TypesMean
<1> QED BY <1>1, <1>2, <1>3, PTL DEF Spec

\* Checkpoints form a chain without gaps, threads hold what is saved, and a source that is not
\* edited is the only one a job knows (_run, _raw_input, recovery.py: begin).
THEOREM RunsInvariance ==
    ASSUME NoLateCancel PROVE Spec => [](IInv /\ TypeInv /\ RunsInv /\ ReuseInv /\ SourceInv)
<1>1. NoTakeOver BY NoLateCancel DEF NoLateCancel, NoTakeOver
<1> DEFINE Inv == TypeInv /\ ReuseInv /\ SourceInv
<1>2. Init => Inv BY RunsInit
<1>3. IInv /\ RunsInv /\ Inv /\ [Next]_vars => Inv'
  BY StepSound, NoLateCancel DEF Sound, Exclusive
<1> QED BY <1>1, <1>2, <1>3, Invariance, RunsAreExclusive, PTL DEF Spec

\* "Resuming reuses completed work": no pause, crash, failure, edit or other job makes a stage that
\* has a checkpoint be computed again, unless the document is in quarantine (resume_text, _run).
THEOREM FinishedWorkStays == ASSUME NoLateCancel PROVE Spec => FinishedWorkIsReused
<1>1. IInv /\ TypeInv /\ RunsInv /\ ReuseInv /\ [Next]_vars => [ReusesWork]_vars
  BY StepSound, NoLateCancel DEF Sound, Exclusive
<1> QED BY <1>1, RunsInvariance, NoLateCancel, PTL DEF Spec, FinishedWorkIsReused

\* A quarantined document that no thread works on can be recovered (recovery.py: begin accepts it).
THEOREM QuarantineHasAnExit == ASSUME NoLateCancel PROVE Spec => []QuarantineCanBeLeft
<1>1. NoTakeOver BY NoLateCancel DEF NoLateCancel, NoTakeOver
<1>2. IInv /\ TypeInv /\ ReuseInv /\ WorkIsAttended => QuarantineCanBeLeft
  <2> SUFFICES ASSUME IInv, TypeInv, ReuseInv, WorkIsAttended, open,
                      NEW j \in Jobs, quarantined[j] # None, ~Worked(j), Unspoiled(j)
               PROVE  job[j] \in {"cancelled", "failed", "paused", "recoverable"}
    BY DEF QuarantineCanBeLeft
  <2>1. job[j] \in JobStates BY DEF TypeInv, RowsTyped
  <2>2. job[j] # "running" BY DEF WorkIsAttended
  <2>3. job[j] # "completed" BY DEF IInv, JobsInv, CompletedIsPublished
  <2>4. job[j] # "absent" BY DEF ReuseInv, RowOk
  <2> QED BY <2>1, <2>2, <2>3, <2>4 DEF JobStates, Live
<1> QED BY <1>1, <1>2, RunsInvariance, RunningIsAttended, NoLateCancel, PTL

\* No job meets both a change of its source and a recovery without a parser override, which keeps
\* the document that was parsed from the old one (ImportJobs_mixed.cfg shows what happens then).
NotMixed == \A j \in Jobs : "recover" \notin Env[j] \/ "edit" \notin Env[j]

\* What a thread publishes is one version of its document.
LEMMA PublishesOneVersion ==
    ASSUME NotMixed, IInv, TypeInv, ReuseInv, SourceInv, Exclusive, NEW w \in Workers, InRun(w),
           wk[w].pc \in {"search", "content_duplicate"}
    PROVE  wk[w].ir.of = wk[w].raw
<1> DEFINE j == wk[w].job
<1>1. j \in Jobs /\ wk[w].ir \in Artifacts BY Running DEF HasIr
<1>2. FitNow(w) BY RunFits
<1>3. CASE "recover" \notin Env[j]
  <2>1. Chained(stage[j], ckpt[j]) /\ Holds(wk[w], stage[j], ckpt[j]) BY <1>2, <1>3 DEF FitNow, Fit
  <2>2. wk[w].raw = ckpt[j]["raw_asset"] /\ wk[w].ir = ckpt[j]["document_ir"]
    BY <2>1 DEF Holds, HasIr
  <2>3. wk[w].ir # None BY <1>1, ImportAssumption DEF ImportAssumption
  <2> QED BY <2>1, <2>2, <2>3 DEF Chained
<1>4. CASE "edit" \notin Env[j]
  BY <1>4 DEF SourceInv, SourceRun, Pipeline, HasIr
<1> QED BY <1>1, <1>3, <1>4 DEF NotMixed

\* Wherever an import is cut, and whatever its document is edited to or how often it is recovered,
\* it publishes one version of the document, with evidence, tree and analysis of that version
\* (_run; raw_bytes, blocks and evidence come from separate checkpoints).
THEOREM ImportsStayCoherent ==
    ASSUME NoLateCancel, NotMixed PROVE Spec => []ImportsAreCoherent
<1>1. NoTakeOver BY NoLateCancel DEF NoLateCancel, NoTakeOver
<1> DEFINE Inv == IInv /\ TypeInv /\ RunsInv /\ ReuseInv /\ SourceInv
<1>2. Init => IrOfItsRawAsset BY DEF Init, IrOfItsRawAsset
<1>3. Inv /\ IrOfItsRawAsset /\ [Next]_vars => IrOfItsRawAsset'
  <2> SUFFICES ASSUME Inv, IrOfItsRawAsset, [Next]_vars, NEW b \in Bytes, docs'[b] # None
               PROVE  docs'[b].ir = b
    BY DEF IrOfItsRawAsset
  <2>1. Kinds BY <1>1, StepsHaveKinds DEF RunsInv
  <2>2. docs \in [Bytes -> MaybeNone(Documents)] BY DEF IInv, LibraryInv
  <2>3. CASE docs'[b] = docs[b] BY <2>3 DEF IrOfItsRawAsset
  <2>4. CASE docs[b] # None
    <3>1. Grows(docs, docs') BY NextOk
    <3> QED BY <2>4, <3>1 DEF Grows, IrOfItsRawAsset
  <2>5. ASSUME NEW w \in Workers, NEW c \in Bytes, InRun(w), Adds(w, c), c = b
        PROVE  docs'[b].ir = b
    <3>1. wk[w].ir.of = wk[w].raw
      BY <2>5, NoLateCancel, NotMixed, PublishesOneVersion DEF Adds, Exclusive
    <3>2. PICK root : docs' = [docs EXCEPT ![c] = [ir |-> wk[w].ir.of, root |-> root,
                                                  available |-> TRUE]]
      BY <2>5 DEF Adds
    <3> QED BY <2>2, <2>5, <3>1, <3>2 DEF Adds
  <2>6. ASSUME NEW w \in Workers, NEW c \in Bytes, Concludes(w, c), docs[b] = None, docs'[b] # docs[b]
        PROVE  docs'[b].ir = b
    <3>1. Adds(w, c) /\ InRun(w) BY <2>6 DEF Concludes, Reuses
    <3>2. c = b BY <2>2, <2>6, <3>1 DEF Adds
    <3> QED BY <2>5, <3>1, <3>2
  <2>7. CASE Rests BY <2>3, <2>4, <2>7 DEF Rests, SameButAvailable
  <2>8. CASE \/ \E w \in Workers : Proceeds(w)
             \/ \E w \in Workers, j \in Jobs : TakesUp(w, j)
             \/ \E j \in Jobs : CancelPausedWrite(j)
             \/ OpenKnowledgeBase
    BY <2>3, <2>8 DEF Proceeds, TakesUp, CancelPausedWrite, ControlState, OpenKnowledgeBase
  <2> QED BY <2>1, <2>3, <2>4, <2>6, <2>7, <2>8 DEF Kinds
<1>4. Inv => CoherentPublication
  <2> SUFFICES ASSUME Inv, NEW w \in Workers, wk[w].pc \in {"search_begin", "search"},
                      "recover" \notin Env[wk[w].job]
               PROVE  /\ wk[w].ir.of = wk[w].raw
                      /\ wk[w].evidence.on = wk[w].ir.id
                      /\ wk[w].tree.on = wk[w].evidence.id
                      /\ wk[w].analysis.on = wk[w].evidence.id
    BY DEF CoherentPublication
  <2> DEFINE j == wk[w].job
  <2>1. InRun(w) BY DEF InRun
  <2>2. wk[w].ir \in Artifacts /\ wk[w].evidence \in Artifacts
    BY <2>1, Running DEF HasIr, HasEvidence
  <2>3. wk[w].ir # None /\ wk[w].evidence # None BY <2>2, ImportAssumption DEF ImportAssumption
  <2>4. FitNow(w) BY <2>1, NoLateCancel, RunFits DEF Exclusive
  <2>5. Chained(stage[j], ckpt[j]) /\ Holds(wk[w], stage[j], ckpt[j]) BY <2>4 DEF FitNow, Fit
  <2>6. /\ wk[w].raw = ckpt[j]["raw_asset"] /\ wk[w].ir = ckpt[j]["document_ir"]
        /\ wk[w].evidence = ckpt[j]["evidence"]
        /\ wk[w].tree = ckpt[j]["deterministic_page_tree"] /\ wk[w].tree # None
        /\ wk[w].analysis = ckpt[j]["model_analysis"] /\ wk[w].analysis # None
    BY <2>5 DEF Holds, HasIr, HasEvidence, HasTree, HasAnalysis
  <2> QED BY <2>3, <2>5, <2>6 DEF Chained
<1>5. Inv => CheckpointsAgree
  BY DEF ReuseInv, RowOk, Chained, Made, CheckpointsAgree, stage_completed, Finals
<1> QED BY <1>1, <1>2, <1>3, <1>4, <1>5, RunsInvariance, NoLateCancel, PTL
        DEF Spec, ImportsAreCoherent

-----------------------------------------------------------------------------
(* The parts together.                                                     *)

\* The invariant of the part that the behaviour is of.
PartInv ==
    /\ part \in {"imports", "synthesis", "engine", "chat", "stream"}
    /\ part = "imports" => IInv /\ TypeInv
    /\ part = "synthesis" => Synthesis!IInv
    /\ part = "engine" => Requests!EngineIInv
    /\ part = "chat" => Requests!IInv
    /\ part = "stream" => Requests!StreamIInv

\* Every part begins as its component does.
LEMMA PartInit == ASSUME MCInit PROVE PartInv
<1>0. part \in {"imports", "synthesis", "engine", "chat", "stream"} BY DEF MCInit
<1>1. ASSUME part = "imports" PROVE IInv /\ TypeInv
  <2>1. Init BY <1>1 DEF MCInit
  <2> QED BY <2>1, InitOk, RunsInit
<1>2. ASSUME part = "synthesis" PROVE Synthesis!IInv
  <2>1. Synthesis!Init BY <1>2 DEF MCInit
  <2> QED BY <2>1, ServicesAssumption, Synthesis!InvariantInit
<1>3. ASSUME part = "engine" PROVE Requests!EngineIInv
  <2>1. Requests!Engine!Init BY <1>3 DEF MCInit
  <2> QED BY <2>1, ServicesAssumption, Requests!EngineInitOk
<1>4. ASSUME part = "chat" PROVE Requests!IInv
  <2>1. Requests!Init BY <1>4 DEF MCInit
  <2> QED BY <2>1, ServicesAssumption, Requests!InitOk
<1>5. ASSUME part = "stream" PROVE Requests!StreamIInv
  <2>1. Requests!Stream!Init BY <1>5 DEF MCInit
  <2> QED BY <2>1, ServicesAssumption, Requests!StreamInitOk
<1> QED BY <1>0, <1>1, <1>2, <1>3, <1>4, <1>5 DEF PartInv

\* No step is of another part than the one the behaviour is of, or it changes nothing.
LEMMA PartStep ==
    ASSUME [MCNext]_all
    PROVE  /\ UNCHANGED part
           /\ part = "imports" => [Next]_vars
           /\ part = "synthesis" => [Synthesis!Next]_(Synthesis!vars)
           /\ part = "engine" => [Requests!Engine!Next]_(Requests!Engine!vars)
           /\ part = "chat" => [Requests!Next]_(Requests!vars)
           /\ part = "stream" => [Requests!Stream!Next]_(Requests!Stream!vars)
<1>1. CASE MCNext
  BY <1>1 DEF MCNext, OfImports, OfSynthesis, OfEngine, OfChat, OfStream
<1>2. CASE UNCHANGED all
  <2>1. UNCHANGED part /\ UNCHANGED vars BY <1>2 DEF all
  <2>2. UNCHANGED Synthesis!vars
    BY <1>2 DEF all, synthesis, Synthesis!vars, Synthesis!knowledge, Synthesis!published,
                Synthesis!engine
  <2>3. UNCHANGED Requests!Engine!vars
    BY <1>2 DEF all, engine, Requests!Engine!vars, Requests!Engine!frames, Requests!Engine!requests,
                Requests!Engine!handlers, Requests!Engine!transition, Requests!Engine!workspace
  <2>4. UNCHANGED Requests!vars BY <1>2 DEF all, chat, Requests!vars
  <2>5. UNCHANGED Requests!Stream!vars BY <1>2 DEF all, stream, Requests!Stream!vars
  <2> QED BY <2>1, <2>2, <2>3, <2>4, <2>5
<1> QED BY <1>1, <1>2

\* What each part promises of its steps follows from its own invariant.
LEMMA PartKeeps ==
    ASSUME PartInv, [MCNext]_all
    PROVE  /\ PartInv'
           /\ part = "synthesis" => Synthesis!StaysTerminal /\ Synthesis!ActivatesCurrent
           /\ part = "chat" => Requests!AnswersAreKept
<1>1. UNCHANGED part BY PartStep
<1>2. ASSUME part = "imports" PROVE IInv' /\ TypeInv'
  <2>1. [Next]_vars /\ IInv /\ TypeInv BY <1>2, PartStep DEF PartInv
  <2> QED BY <2>1, NextOk, StepSound DEF Sound
<1>3. ASSUME part = "synthesis"
      PROVE  Synthesis!IInv' /\ Synthesis!StaysTerminal /\ Synthesis!ActivatesCurrent
  <2>1. [Synthesis!Next]_(Synthesis!vars) BY <1>3, PartStep
  <2> QED BY <1>3, <2>1, ServicesAssumption, Synthesis!InvariantStep DEF PartInv
<1>4. ASSUME part = "engine" PROVE Requests!EngineIInv'
  <2>1. [Requests!Engine!Next]_(Requests!Engine!vars) BY <1>4, PartStep
  <2> QED BY <1>4, <2>1, ServicesAssumption, Requests!EngineNextOk DEF PartInv
<1>5. ASSUME part = "chat" PROVE Requests!IInv' /\ Requests!AnswersAreKept
  <2>1. [Requests!Next]_(Requests!vars) /\ Requests!IInv BY <1>5, PartStep DEF PartInv
  <2>2. Requests!IInv' BY <2>1, ServicesAssumption, Requests!NextOk
  <2> QED BY <2>1, <2>2, ServicesAssumption, Requests!StepKeeps
<1>6. ASSUME part = "stream" PROVE Requests!StreamIInv'
  <2>1. [Requests!Stream!Next]_(Requests!Stream!vars) BY <1>6, PartStep
  <2> QED BY <1>6, <2>1, ServicesAssumption, Requests!StreamNextOk DEF PartInv
<1> QED BY <1>1, <1>2, <1>3, <1>4, <1>5, <1>6 DEF PartInv

\* What each part promises of its states follows from its own invariant.
LEMMA PartMeans ==
    ASSUME PartInv
    PROVE  /\ ServicesTypeOK /\ WorkHasItsOwner /\ BindingIsStable /\ ConsumedIsRendered
           /\ ShownIsStored /\ ContextIsSettled
<1>1. ASSUME part = "imports" PROVE TypeOK
  BY <1>1, TypesMean DEF PartInv
<1>2. ASSUME part = "synthesis"
      PROVE  Synthesis!TypeOK /\ Synthesis!PendingIsWorkedOn /\ Synthesis!ConsumedIsRendered
  BY <1>2, ServicesAssumption, Synthesis!InvariantMeans DEF PartInv
<1>3. ASSUME part = "engine"
      PROVE  /\ Requests!Engine!TypeOK /\ Requests!Engine!BindingIsStable
             /\ Requests!Engine!RunningImportHasItsControl
  BY <1>3, ServicesAssumption, Requests!EngineMeans DEF PartInv
<1>4. ASSUME part = "chat"
      PROVE  /\ Requests!TypeOK /\ Requests!ContextIsSettled /\ Requests!StatusIsOfSelected
             /\ Requests!GeneratingIsWorkedOn
  BY <1>4, Requests!InvariantMeans DEF PartInv
<1>5. ASSUME part = "stream"
      PROVE  /\ Requests!Stream!TypeOK /\ Requests!Stream!ShownIsStored
             /\ Requests!Stream!AttemptsAreNotMixed /\ Requests!Stream!ConnectionsAreOwned
  BY <1>5, ServicesAssumption, Requests!StreamMeans DEF PartInv
<1>6. part \in {"imports", "synthesis", "engine", "chat", "stream"} BY DEF PartInv
<1>7. ServicesTypeOK BY <1>1, <1>2, <1>3, <1>4, <1>5, <1>6 DEF ServicesTypeOK
<1>8. WorkHasItsOwner BY <1>2, <1>3, <1>4, <1>5, <1>6 DEF WorkHasItsOwner
<1>9. BindingIsStable BY <1>3 DEF BindingIsStable
<1>10. ConsumedIsRendered BY <1>2 DEF ConsumedIsRendered
<1>11. ShownIsStored BY <1>4, <1>5 DEF ShownIsStored
<1>12. ContextIsSettled BY <1>4 DEF ContextIsSettled
<1> QED BY <1>7, <1>8, <1>9, <1>10, <1>11, <1>12

\* Every part keeps the invariant that its own theorems rest on.
THEOREM ServicesInvariant == MCSpec => []PartInv
<1>1. MCInit => PartInv BY PartInit
<1>2. PartInv /\ [MCNext]_all => PartInv' BY PartKeeps
<1> QED BY <1>1, <1>2, PTL DEF MCSpec

\* Rows, frames, requests and connections have states that the code knows (the CHECKs of the
\* schema, _active_requests, DesktopActiveModelStreams).
THEOREM ServicesTypes == MCSpec => []ServicesTypeOK
<1>1. PartInv => ServicesTypeOK BY PartMeans
<1> QED BY <1>1, ServicesInvariant, PTL

\* What is under way is in somebody's hands: a generation that was prepared, a running import
\* with its control, a message that is generating, a connection (_prepare_generation,
\* _record_import_stage, _begin_turn, DesktopActiveModelStreams).
THEOREM ServicesWorkHasItsOwner == MCSpec => []WorkHasItsOwner
<1>1. PartInv => WorkHasItsOwner BY PartMeans
<1> QED BY <1>1, ServicesInvariant, PTL

\* What an engine has bound for a request stays bound until that request is done
\* (workspace/transition.py).
THEOREM ServicesBindingIsStable == MCSpec => []BindingIsStable
<1>1. PartInv => BindingIsStable BY PartMeans
<1> QED BY <1>1, ServicesInvariant, PTL

\* Where only imports and graphs act on the corpus, no change of a document is consumed by a
\* generation that does not render it (_complete_generation).
THEOREM ServicesConsumedIsRendered == MCSpec => []ConsumedIsRendered
<1>1. PartInv => ConsumedIsRendered BY PartMeans
<1> QED BY <1>1, ServicesInvariant, PTL

\* What the user sees of an answer is what is stored of it (_restore_selected_answer_status, the
\* answer of grounded.py and the reducer of the shell).
THEOREM ServicesShownIsStored == MCSpec => []ShownIsStored
<1>1. PartInv => ShownIsStored BY PartMeans
<1> QED BY <1>1, ServicesInvariant, PTL

\* Only completed answers to earlier questions are the context of another
\* (_conversation_context).
THEOREM ServicesContextIsSettled == MCSpec => []ContextIsSettled
<1>1. PartInv => ContextIsSettled BY PartMeans
<1> QED BY <1>1, ServicesInvariant, PTL

\* What has failed, was cancelled or superseded is not revived by a late thread, and what was
\* answered is not lost (_complete_generation, fail_corpus_manifest_in, _append_answer_version).
THEOREM ServicesTerminalStays == MCSpec => TerminalStays
<1>1. PartInv /\ [MCNext]_all =>
        [/\ part = "synthesis" => Synthesis!StaysTerminal
         /\ part = "chat" => Requests!AnswersAreKept]_all
  BY PartKeeps
<1> QED BY <1>1, ServicesInvariant, PTL DEF MCSpec, TerminalStays

\* What becomes active was made from the revisions that are current, and cites available
\* documents only (_complete_generation).
THEOREM ServicesActivationIsCurrent == MCSpec => ActivationIsCurrent
<1>1. PartInv /\ [MCNext]_all => [part = "synthesis" => Synthesis!ActivatesCurrent]_all
  BY PartKeeps
<1> QED BY <1>1, ServicesInvariant, PTL DEF MCSpec, ActivationIsCurrent

=============================================================================
