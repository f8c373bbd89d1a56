------------------------ MODULE KnowledgeGraphProofs ------------------------
(***************************************************************************)
(* The worker of the knowledge graph, for any number of documents, models, *)
(* threads and scopes, and whatever happens around them.                   *)
(*                                                                         *)
(* A task row, the ledger of contracts, the worker and the user's          *)
(* cancellations are four pieces of state that are never read together.    *)
(* The argument is about a claim that is still good (Held): once the check *)
(* is passed, everything that could stop the extraction also takes the row *)
(* away, so that an extraction which ends without a result has lost its    *)
(* row, has failed, or has lost the model it was verified for.             *)
(***************************************************************************)
EXTENDS KnowledgeGraph, FiniteSetTheorems, TLAPS

Fields == {"pc", "stale", "gw", "todo", "doc", "scope", "repaired", "used", "again", "error"}

\* The points of a worker that has a gateway, and a document.
HasGateway == (Working \cup {"restart"}) \ {"top", "final"}
HasDocument == Claiming \cup {"claim"}

IsGateway(g) == g.model \in Models

ThreadOk(t) ==
    /\ DOMAIN t = Fields
    /\ t.pc \in Working \cup {"idle", "restart"}
    /\ t.doc \in Docs \cup {None} /\ t.scope \in Scopes \cup {None} /\ t.todo \subseteq Docs
    /\ t.pc \in HasGateway => IsGateway(t.gw)
    /\ t.pc \in HasDocument => t.doc \in Docs

ThreadsOk(threads) == DOMAIN threads = Workers /\ \A w \in Workers : ThreadOk(threads[w])

Registries == [gen : 0..MaxCandidates, empty : BOOLEAN]

Shapes ==
    /\ registry \in [Docs -> Registries] /\ available \subseteq Docs
    /\ task \in [Docs -> TaskRows]
    /\ graph \in [Docs -> Graphs \cup {None}] /\ DOMAIN latest = Docs
    /\ ledger \in Ledger!Ledgers
    /\ settings \in Models
    /\ ThreadsOk(thread)
    /\ gateway # None => IsGateway(gateway)
    /\ importer # None =>
          /\ DOMAIN importer = {"doc", "gw", "queued", "again"}
          /\ importer.doc \in Docs /\ IsGateway(importer.gw) /\ registry[importer.doc].gen > 0
    /\ retrying # None => IsGateway(retrying.gw)

\* A task is about candidates that its document has had, has an owner while it runs, and
\* has a scope in a retry only.
RowOk(d) ==
    /\ task[d].gen <= registry[d].gen
    /\ task[d].status = "none" \/ task[d].gen > 0
    /\ task[d].status = "running" <=> task[d].token # None
    /\ task[d].status = "none" => task[d].scope = None
    /\ task[d].reason # "explicit_retry" => task[d].scope = None
    /\ "reanalysis" \notin env => registry[d].gen <= 1

RowsInv ==
    /\ \A d \in Docs : RowOk(d)
    /\ \A d, e \in Docs : d # e /\ task[d].scope # None => task[d].scope # task[e].scope

\* What a thread may rely on while the row it has claimed is its own: nothing that would
\* stop it has happened since the check, and it had something to do.
Calm == env \cap {"settings", "configuration", "result"} = {}

ClaimOk(w) ==
    thread[w].pc \in Claiming /\ Held(thread[w].doc, w) =>
        /\ thread[w].scope = task[thread[w].doc].scope
        /\ thread[w].pc # "check" => ~thread[w].stale /\ thread[w].doc \notin cancelled
        /\ thread[w].pc = "extract" => Admitted(w)
        /\ thread[w].pc = "ended" /\ Calm => thread[w].error = "failed"

ClaimsInv == \A w \in Workers : ClaimOk(w)

\* While the settings are left alone, every gateway is for the model that is verified.
GatewaysInv ==
    Calm =>
        /\ settings \in verified
        /\ gateway # None => gateway.model = settings
        /\ importer # None => importer.gw.model = settings
        /\ retrying # None => retrying.gw.model = settings
        /\ \A w \in Workers : thread[w].pc \in HasGateway => thread[w].gw.model = settings

\* A registered worker is a thread that works, and there is no other.
OneWorkerIn(threads, isRegistered) ==
    /\ isRegistered => \E w \in Workers : threads[w].pc \in Working
    /\ \A w \in Workers : threads[w].pc \in Working =>
          isRegistered /\ \A u \in Workers \ {w} : threads[u].pc \notin Working

OneWorker == OneWorkerIn(thread, registered)

IInv ==
    /\ Shapes /\ RowsInv /\ ClaimsInv /\ GatewaysInv /\ OneWorker
    /\ PermitsHaveOwner /\ RunningIsWorkedOn /\ CompletedHasGraph

-----------------------------------------------------------------------------
(* The ledger of contracts.                                                *)

\* A permit, good or spent, is there under scope x.
Traced(l, x) == \E p \in l.permits \cup l.spent : p[2] = x

\* A retry has a scope: None is never permitted anything.
LEMMA NoneIsNotPermitted ==
    ASSUME GraphAssumption, NEW l \in Ledger!Ledgers, NEW c
    PROVE  ~Traced(l, None) /\ (Ledger!DispatchAdmitted(l, c, None) => c \notin l.suspended)
<1>1. \A p \in l.permits \cup l.spent : p[2] \in Scopes BY DEF Ledger!Ledgers
<1>2. None \notin Scopes BY DEF GraphAssumption
<1> QED BY <1>1, <1>2 DEF Ledger!DispatchAdmitted, Traced

\* revoke_model_operation_retry_scope_in: nothing is left under the scopes, the rest stays.
LEMMA RevokingAll ==
    ASSUME NEW l \in Ledger!Ledgers, NEW S
    PROVE  LET m == Ledger!RevokeAll(l, S) IN
           /\ m \in Ledger!Ledgers /\ m.suspended = l.suspended
           /\ \A x : Traced(m, x) => Traced(l, x) /\ x \notin S
           /\ \A c, x : x \notin S /\ Ledger!DispatchAdmitted(l, c, x) => Ledger!DispatchAdmitted(m, c, x)
  BY DEF Ledger!RevokeAll, Ledger!Ledgers, Ledger!DispatchAdmitted, Traced

\* A revocation leaves no permit under its scope, and admits what others were permitted.
LEMMA Revoking ==
    ASSUME NEW l \in Ledger!Ledgers, NEW s
    PROVE  LET m == Ledger!Revoke(l, s) IN
           /\ m \in Ledger!Ledgers /\ m.suspended = l.suspended
           /\ \A x : Traced(m, x) => Traced(l, x) /\ x # s
           /\ \A c, x : x # s /\ Ledger!DispatchAdmitted(l, c, x) => Ledger!DispatchAdmitted(m, c, x)
  BY DEF Ledger!Revoke, Ledger!Ledgers, Ledger!DispatchAdmitted, Traced

\* discard_model_operation_retry_permits_in: no permit is left.
LEMMA Discarding ==
    ASSUME NEW l \in Ledger!Ledgers
    PROVE  LET m == Ledger!DiscardPermits(l) IN
           /\ m \in Ledger!Ledgers /\ m.suspended = l.suspended
           /\ \A x : ~Traced(m, x)
  BY DEF Ledger!DiscardPermits, Ledger!Ledgers, Traced

\* suspend: permits change their kind, and none is added.
LEMMA Suspending ==
    ASSUME NEW l \in Ledger!Ledgers, NEW c \in TaskContracts,
           NEW signature \in {"configuration", "result", None}
    PROVE  LET m == Ledger!Suspend(l, c, signature) IN
           /\ m \in Ledger!Ledgers /\ l.suspended \subseteq m.suspended
           /\ \A x : Traced(m, x) => Traced(l, x)
<1> DEFINE m == Ledger!Suspend(l, c, signature)
<1>1. m.signature \in [TaskContracts -> {"configuration", "result", None}]
  BY DEF Ledger!Suspend, Ledger!Signed, Ledger!Ledgers
<1>2. /\ m = [suspended |-> l.suspended \cup {c}, signature |-> m.signature,
              permits |-> l.permits \ Ledger!PermitsOf(l, c),
              spent |-> l.spent \cup Ledger!PermitsOf(l, c)]
      /\ Ledger!PermitsOf(l, c) \subseteq l.permits
  BY DEF Ledger!Suspend, Ledger!PermitsOf
<1>3. m \in Ledger!Ledgers BY <1>1, <1>2 DEF Ledger!Ledgers
<1> HIDE DEF m
<1>4. \A x : Traced(m, x) => Traced(l, x) BY <1>2 DEF Traced
<1>5. l.suspended \subseteq m.suspended BY <1>2
<1> QED BY <1>3, <1>4, <1>5 DEF m

\* mark_ready clears a suspension by a permit of the scope only.
LEMMA Readying ==
    ASSUME NEW l \in Ledger!Ledgers, NEW c \in TaskContracts, NEW scope \in Scopes \cup {None},
           NEW m, m = Ledger!MarkResultReady(l, c, scope)
    PROVE  /\ m \in Ledger!Ledgers /\ m.permits \subseteq l.permits
           /\ \A x : Traced(m, x) => Traced(l, x)
           /\ m.suspended \subseteq l.suspended
           /\ \A e \in l.suspended \ m.suspended : e = c /\ <<c, scope>> \in l.permits
<1> DEFINE r == Ledger!Ready(l, c)
<1>1. /\ r.signature \in [TaskContracts -> {"configuration", "result", None}]
  BY DEF Ledger!Ready, Ledger!Signed, Ledger!Ledgers
<1>2. r = [suspended |-> l.suspended \ {c}, signature |-> r.signature,
           permits |-> {p \in l.permits : p[1] # c}, spent |-> {p \in l.spent : p[1] # c}]
  BY DEF Ledger!Ready
<1> HIDE DEF r
<1>3. r \in Ledger!Ledgers BY <1>1, <1>2 DEF Ledger!Ledgers
<1>4. /\ r.permits \subseteq l.permits /\ r.spent \subseteq l.spent
      /\ r.suspended = l.suspended \ {c}
  BY <1>2
<1>5. \/ m = l
      \/ m = r /\ (c \in l.suspended => <<c, scope>> \in l.permits)
  BY DEF r, Ledger!MarkResultReady, Ledger!MarkReadyUnlessSuspended, Ledger!MarkReadyForRetry
<1> QED BY <1>3, <1>4, <1>5 DEF Traced

\* authorize: permits under one scope, for contracts that are suspended.
LEMMA Authorizing ==
    ASSUME NEW l \in Ledger!Ledgers, NEW C \in SUBSET TaskContracts, NEW scope \in Scopes
    PROVE  LET m == Ledger!Authorize(l, C, scope) IN
           /\ m \in Ledger!Ledgers /\ m.suspended = l.suspended
           /\ \A x : Traced(m, x) => Traced(l, x) \/ x = scope
           /\ \A c, x : Ledger!DispatchAdmitted(l, c, x) => Ledger!DispatchAdmitted(m, c, x)
  BY DEF Ledger!Authorize, Ledger!Ledgers, Ledger!DispatchAdmitted, Traced

\* The failure of a call, or of an answer and its repair (suspend_model_call_operation,
\* suspend_structured_model_operation).
LEMMA Failing ==
    ASSUME NEW l \in Ledger!Ledgers, NEW c \in TaskContracts, NEW other \in TaskContracts \cup {None},
           NEW failure \in Ledger!CallFailures
    PROVE  \A m \in {Ledger!SuspendFailedCall(l, c, other, failure),
                     Ledger!SuspendInvalidAnswer(l, c, other)} :
               /\ m \in Ledger!Ledgers /\ l.suspended \subseteq m.suspended
               /\ \A x : Traced(m, x) => Traced(l, x)
<1>1. Ledger!Signature(failure) \in {"configuration", "result", None}
  BY DEF Ledger!Signature, Ledger!CallFailures
<1> DEFINE a == Ledger!Suspend(l, c, Ledger!Signature(failure))  b == Ledger!Suspend(l, c, None)
<1>2. /\ a \in Ledger!Ledgers /\ l.suspended \subseteq a.suspended
      /\ \A x : Traced(a, x) => Traced(l, x)
  BY <1>1, Suspending
<1>3. /\ b \in Ledger!Ledgers /\ l.suspended \subseteq b.suspended
      /\ \A x : Traced(b, x) => Traced(l, x)
  BY Suspending
<1>4. /\ Ledger!SuspendFailedCall(l, c, other, failure) \in {a, Ledger!Suspend(a, other, None)}
      /\ other = None => Ledger!SuspendFailedCall(l, c, other, failure) = a
      /\ Ledger!SuspendInvalidAnswer(l, c, other) \in {b, Ledger!Suspend(b, other, None)}
      /\ other = None => Ledger!SuspendInvalidAnswer(l, c, other) = b
  BY DEF Ledger!SuspendFailedCall, Ledger!SuspendParent, Ledger!SuspendInvalidAnswer
<1> HIDE DEF a, b
<1>5. ASSUME other # None
      PROVE  \A k \in {a, b} : LET m == Ledger!Suspend(k, other, None) IN
                /\ m \in Ledger!Ledgers /\ k.suspended \subseteq m.suspended
                /\ \A x : Traced(m, x) => Traced(k, x)
  BY <1>2, <1>3, <1>5, Suspending
<1> QED BY <1>2, <1>3, <1>4, <1>5

-----------------------------------------------------------------------------
(* Shapes.                                                                 *)

\* What the steps of a worker leave alone.
LEMMA WorkerFrame ==
    ASSUME NEW w \in Workers, WorkerStep(w)
    PROVE  UNCHANGED <<registry, available, settings, active, env, importer, retrying, cancelled>>
  BY DEF WorkerStep, Top, List, NextDocument, Claim, Check, Extract, Dispatch, Answer, Invalid,
         CallFails, CallCancelled, Publish, MarkOperationsReady, Done, Ended, After, Release, Final,
         Restart, DatabaseError, aside, documents, models, memory, requests, quiet, Event

\* Rows that are queued, by an import or a retry, are rows (queue, retry).
LEMMA RowsTyped ==
    ASSUME GraphAssumption, Shapes, NEW d \in Docs, NEW m \in Models
    PROVE  /\ Queued(d, m) \in TaskRows
           /\ \A s \in Scopes :
                 [NoTask EXCEPT !.status = "pending", !.gen = registry[d].gen, !.model = m,
                                !.reason = "explicit_retry", !.scope = s] \in TaskRows
<1>1. task[d] \in TaskRows /\ registry[d].gen \in 0..MaxCandidates BY DEF Shapes, Registries
<1>2. [NoTask EXCEPT !.status = "pending", !.gen = registry[d].gen, !.model = m,
                     !.reason = "initial"] \in TaskRows
  BY <1>1 DEF NoTask, TaskRows
<1>3. Queued(d, m) \in TaskRows BY <1>1, <1>2 DEF Queued
<1>4. ASSUME NEW s \in Scopes
      PROVE  [NoTask EXCEPT !.status = "pending", !.gen = registry[d].gen, !.model = m,
                            !.reason = "explicit_retry", !.scope = s] \in TaskRows
  BY <1>1 DEF NoTask, TaskRows
<1> QED BY <1>3, <1>4

\* A row that is closed has neither owner nor scope (finish, request_cancel, recover).
LEMMA Closing ==
    ASSUME Shapes, NEW d \in Docs, NEW status \in {"pending", "completed", "failed"},
           NEW error \in {"none", "interrupted", "suspended", "failed"}, NEW t,
           t = Closed(task[d], status, error)
    PROVE  /\ t \in TaskRows /\ t.status = status /\ t.gen = task[d].gen
           /\ t.reason = task[d].reason /\ t.scope = None /\ t.token = None
<1>1. task[d] \in TaskRows BY DEF Shapes
<1> QED BY <1>1 DEF Closed, TaskRows

\* _claim writes the status, the error and the token of the row, and nothing else.
LEMMA TakingUp ==
    ASSUME Shapes, NEW d \in Docs, NEW w \in Workers,
           task'[d] = [task[d] EXCEPT !.status = "running", !.error = "none", !.token = w]
    PROVE  /\ task'[d] \in TaskRows
           /\ task'[d].status = "running" /\ task'[d].gen = task[d].gen /\ task'[d].token = w
           /\ task'[d].scope = task[d].scope /\ task'[d].reason = task[d].reason
<1>1. task[d] \in TaskRows BY DEF Shapes
<1> QED BY <1>1 DEF TaskRows

\* A thread that rests, and one that begins, are in order.
LEMMA IdleOk == ThreadOk(Idle) /\ ThreadOk([Idle EXCEPT !.pc = "top"])
  BY DEF ThreadOk, Idle, Fields, Working, Claiming, HasGateway, HasDocument

\* start_knowledge_graph_extractions installs the gateway it is given, and takes an idle
\* thread to the head of the loop.
LEMMA Starting ==
    ASSUME NEW g, IsGateway(g), NEW threads, ThreadsOk(threads), Start(g, threads)
    PROVE  /\ ThreadsOk(thread') /\ gateway' \in {gateway, g}
           /\ \A w \in Workers :
                 \/ thread'[w] = threads[w]
                 \/ threads[w].pc = "idle" /\ thread'[w].pc = "top"
<1>1. CASE ~active \/ g.model \notin verified BY <1>1 DEF Start, memory
<1>2. CASE ~(~active \/ g.model \notin verified)
  <2>1. gateway' = g BY <1>2 DEF Start
  <2>2. CASE registered BY <1>2, <2>1, <2>2 DEF Start
  <2>3. CASE ~registered
    <3>1. PICK w \in Workers : /\ thread' = [threads EXCEPT ![w] = [Idle EXCEPT !.pc = "top"]]
                               /\ threads[w].pc = "idle"
      BY <1>2, <2>3 DEF Start
    <3>2. ThreadOk([Idle EXCEPT !.pc = "top"]) /\ [Idle EXCEPT !.pc = "top"].pc = "top"
      BY IdleOk DEF Idle
    <3> QED BY <2>1, <3>1, <3>2 DEF ThreadsOk
  <2> QED BY <2>2, <2>3
<1> QED BY <1>1, <1>2

\* A step of a thread leaves the others alone.
LEMMA Moving ==
    ASSUME ThreadsOk(thread), NEW w \in Workers, NEW t, ThreadOk(t), thread' = [thread EXCEPT ![w] = t]
    PROVE  /\ ThreadsOk(thread') /\ thread'[w] = t
           /\ \A u \in Workers \ {w} : thread'[u] = thread[u]
  BY DEF ThreadsOk

\* What a thread keeps when it goes on to another point of its work.
LEMMA Going ==
    ASSUME ThreadsOk(thread), NEW w \in Workers, NEW pc \in Working, Goto(w, pc),
           pc \in HasGateway => thread[w].pc \in HasGateway,
           pc \in HasDocument => thread[w].pc \in HasDocument
    PROVE  /\ ThreadsOk(thread') /\ thread'[w] = [thread[w] EXCEPT !.pc = pc]
           /\ \A u \in Workers \ {w} : thread'[u] = thread[u]
           /\ thread'[w].pc = pc /\ thread'[w].doc = thread[w].doc
           /\ thread'[w].scope = thread[w].scope /\ thread'[w].gw = thread[w].gw
           /\ thread'[w].stale = thread[w].stale /\ thread'[w].error = thread[w].error
           /\ thread'[w].repaired = thread[w].repaired
<1>0. ThreadOk(thread[w]) BY DEF ThreadsOk
<1>1. ThreadOk([thread[w] EXCEPT !.pc = pc]) BY <1>0 DEF ThreadOk, Fields
<1>2. thread' = [thread EXCEPT ![w] = [thread[w] EXCEPT !.pc = pc]] BY DEF Goto
<1>3. /\ ThreadsOk(thread') /\ thread'[w] = [thread[w] EXCEPT !.pc = pc]
      /\ \A u \in Workers \ {w} : thread'[u] = thread[u]
  BY <1>1, <1>2, Moving
<1> QED BY <1>0, <1>3 DEF ThreadOk, Fields

\* A worker that leaves a document goes on to the next, with the gateway that it has.
LEMMA Leaving ==
    ASSUME ThreadsOk(thread), NEW w \in Workers, Leave(w), thread[w].pc \in HasGateway
    PROVE  /\ ThreadsOk(thread') /\ thread'[w].pc = "next" /\ thread'[w].gw = thread[w].gw
           /\ \A u \in Workers \ {w} : thread'[u] = thread[u]
<1> DEFINE t == [Idle EXCEPT !.pc = "next", !.stale = thread[w].stale, !.gw = thread[w].gw,
                             !.todo = thread[w].todo]
<1>0. ThreadOk(thread[w]) BY DEF ThreadsOk
<1>1. ThreadOk(t) /\ t.pc = "next" /\ t.gw = thread[w].gw
  BY <1>0 DEF ThreadOk, Fields, Idle, HasDocument, Working, Claiming, HasGateway
<1>2. thread' = [thread EXCEPT ![w] = t] BY DEF Leave
<1> HIDE DEF t
<1> QED BY <1>1, <1>2, Moving

\* A thread that notes a failure keeps its document, its scope and its gateway.
LEMMA FailingThread ==
    ASSUME ThreadsOk(thread), NEW w \in Workers, Failed(w), thread[w].pc \in Claiming
    PROVE  /\ ThreadsOk(thread') /\ thread'[w].pc = "ended" /\ thread'[w].error = "failed"
           /\ thread'[w].doc = thread[w].doc /\ thread'[w].scope = thread[w].scope
           /\ thread'[w].gw = thread[w].gw /\ thread'[w].stale = thread[w].stale
           /\ \A u \in Workers \ {w} : thread'[u] = thread[u]
<1> DEFINE t == [thread[w] EXCEPT !.pc = "ended", !.error = "failed"]
<1>0. ThreadOk(thread[w]) BY DEF ThreadsOk
<1>1. /\ ThreadOk(t) /\ t.pc = "ended" /\ t.error = "failed" /\ t.doc = thread[w].doc
      /\ t.scope = thread[w].scope /\ t.gw = thread[w].gw /\ t.stale = thread[w].stale
  BY <1>0 DEF ThreadOk, Fields, HasDocument, Working, Claiming, HasGateway
<1>2. thread' = [thread EXCEPT ![w] = t] BY DEF Failed
<1> HIDE DEF t
<1> QED BY <1>1, <1>2, Moving

\* The thread that steps is registered; it works on, or it ends and is not registered any
\* more.  It has the gateway it had, or the one that is installed.
Moved(w) ==
    /\ ThreadsOk(thread')
    /\ \A u \in Workers \ {w} : thread'[u] = thread[u]
    /\ thread[w].pc \in Working
    /\ \/ thread'[w].pc \in Working /\ UNCHANGED registered
       \/ thread'[w].pc \in {"idle", "restart"} /\ registered' = FALSE
    /\ thread'[w].pc \in HasGateway =>
          \/ thread[w].pc \in HasGateway /\ thread'[w].gw = thread[w].gw
          \/ gateway # None /\ thread'[w].gw = gateway
    /\ gateway' \in {gateway, None}

\* Every step of a worker but a restart is the step of one thread that works.
LEMMA WorkerMoves ==
    ASSUME GraphAssumption, Shapes, NEW w \in Workers, WorkerStep(w), ~Restart(w)
    PROVE  Moved(w)
<1> DEFINE t == thread[w]
<1>0. ThreadsOk(thread) /\ ThreadOk(t) BY DEF Shapes, ThreadsOk
<1> USE DEF HasDocument, HasGateway, Claiming, Working
<1>g. ASSUME NEW pc \in Working \ {"list"}, Goto(w, pc), t.pc \in Working,
             UNCHANGED registered, gateway' \in {gateway, None},
             pc \in HasGateway => t.pc \in HasGateway,
             pc \in HasDocument => t.pc \in HasDocument
      PROVE  Moved(w)
  <2>1. /\ ThreadsOk(thread') /\ \A u \in Workers \ {w} : thread'[u] = thread[u]
        /\ thread'[w].pc = pc /\ thread'[w].gw = t.gw
    BY <1>0, <1>g, Going
  <2> QED BY <1>g, <2>1 DEF Moved
<1>l. ASSUME Leave(w), t.pc \in HasGateway, t.pc # "restart", UNCHANGED <<registered, gateway>>
      PROVE  Moved(w)
  <2>1. /\ ThreadsOk(thread') /\ thread'[w].pc = "next" /\ thread'[w].gw = t.gw
        /\ \A u \in Workers \ {w} : thread'[u] = thread[u]
    BY <1>0, <1>l, Leaving
  <2> QED BY <1>l, <2>1 DEF Moved
<1>f. ASSUME Failed(w), t.pc \in Claiming, UNCHANGED <<registered, gateway>> PROVE Moved(w)
  <2>1. /\ ThreadsOk(thread') /\ thread'[w].pc = "ended" /\ thread'[w].gw = t.gw
        /\ \A u \in Workers \ {w} : thread'[u] = thread[u]
    BY <1>0, <1>f, FailingThread
  <2> QED BY <1>f, <2>1 DEF Moved
<1>m. ASSUME NEW new, ThreadOk(new), thread' = [thread EXCEPT ![w] = new],
             t.pc \in Working,
             \/ new.pc \in Working /\ UNCHANGED registered
             \/ new.pc \in {"idle", "restart"} /\ registered' = FALSE,
             new.pc \in HasGateway =>
                \/ t.pc \in HasGateway /\ new.gw = t.gw
                \/ gateway # None /\ new.gw = gateway,
             gateway' \in {gateway, None}
      PROVE  Moved(w)
  <2>1. /\ ThreadsOk(thread') /\ thread'[w] = new
        /\ \A u \in Workers \ {w} : thread'[u] = thread[u]
    BY <1>0, <1>m, Moving
  <2> QED BY <1>m, <2>1 DEF Moved
<1>1. CASE Top(w)
  <2>1. CASE Goto(w, "final") BY <1>1, <1>g, <2>1 DEF Top
  <2>2. CASE ~Goto(w, "final")
    <3> DEFINE new == [t EXCEPT !.pc = "list", !.gw = gateway]
    <3>1. gateway # None /\ IsGateway(gateway) BY <1>1, <2>2 DEF Top, Shapes
    <3>2. thread' = [thread EXCEPT ![w] = new] BY <1>1, <2>2 DEF Top
    <3>3. ThreadOk(new) /\ new.pc = "list" /\ new.gw = gateway BY <1>0, <3>1 DEF ThreadOk, Fields
    <3>4. t.pc = "top" /\ UNCHANGED <<registered, gateway>> BY <1>1 DEF Top
    <3> HIDE DEF new
    <3> QED BY <1>m, <3>1, <3>2, <3>3, <3>4
  <2> QED BY <2>1, <2>2
<1>2. CASE List(w)
  <2> DEFINE new == [t EXCEPT !.pc = "next", !.todo = PendingIds(t.gw.model)]
  <2>1. thread' = [thread EXCEPT ![w] = new] BY <1>2 DEF List
  <2>2. ThreadOk(new) /\ new.pc = "next" /\ new.gw = t.gw
    BY <1>0, <1>2 DEF List, ThreadOk, Fields, PendingIds
  <2>3. t.pc = "list" /\ UNCHANGED <<registered, gateway>> BY <1>2 DEF List, aside, memory
  <2> HIDE DEF new
  <2> QED BY <1>m, <2>1, <2>2, <2>3
<1>3. CASE NextDocument(w)
  <2>0. t.pc = "next" /\ UNCHANGED <<registered, gateway>> BY <1>3 DEF NextDocument, aside, memory
  <2>1. CASE thread' = [thread EXCEPT ![w].pc = "after", ![w].todo = {}]
    <3> DEFINE new == [t EXCEPT !.pc = "after", !.todo = {}]
    <3>1. ThreadOk(new) /\ new.pc = "after" /\ new.gw = t.gw BY <1>0, <2>0 DEF ThreadOk, Fields
    <3>2. thread' = [thread EXCEPT ![w] = new] BY <2>1
    <3> HIDE DEF new
    <3> QED BY <1>m, <2>0, <3>1, <3>2
  <2>2. CASE \E d \in t.todo :
               thread' = [thread EXCEPT ![w].pc = IF d \in cancelled THEN "next" ELSE "claim",
                                        ![w].doc = IF d \in cancelled THEN None ELSE d,
                                        ![w].todo = @ \ {d}]
    <3>1. PICK d \in t.todo :
               thread' = [thread EXCEPT ![w].pc = IF d \in cancelled THEN "next" ELSE "claim",
                                        ![w].doc = IF d \in cancelled THEN None ELSE d,
                                        ![w].todo = @ \ {d}]
      BY <2>2
    <3> DEFINE new == [t EXCEPT !.pc = IF d \in cancelled THEN "next" ELSE "claim",
                                !.doc = IF d \in cancelled THEN None ELSE d,
                                !.todo = @ \ {d}]
    <3>2. d \in Docs BY <1>0 DEF ThreadOk
    <3>3. ThreadOk(new) /\ new.pc \in {"next", "claim"} /\ new.gw = t.gw
      BY <1>0, <2>0, <3>2 DEF ThreadOk, Fields
    <3>4. thread' = [thread EXCEPT ![w] = new] BY <3>1
    <3> HIDE DEF new
    <3> QED BY <1>m, <2>0, <3>3, <3>4
  <2> QED BY <1>3, <2>1, <2>2 DEF NextDocument
<1>4. CASE Claim(w)
  <2>0. t.pc = "claim" /\ UNCHANGED <<registered, gateway>> BY <1>4 DEF Claim, aside, memory
  <2>1. CASE Leave(w) BY <1>l, <2>0, <2>1
  <2>2. CASE ~Leave(w)
    <3> DEFINE scope == IF task[t.doc].reason = "explicit_retry" THEN task[t.doc].scope ELSE None
               new == [t EXCEPT !.pc = "check", !.scope = scope]
    <3>1. thread' = [thread EXCEPT ![w] = new] BY <1>4, <2>2 DEF Claim
    <3>2. t.doc \in Docs /\ scope \in Scopes \cup {None}
      BY <1>0, <2>0 DEF ThreadOk, Shapes, TaskRows
    <3> HIDE DEF scope
    <3>3. ThreadOk(new) /\ new.pc = "check" /\ new.gw = t.gw
      BY <1>0, <2>0, <3>2 DEF ThreadOk, Fields
    <3> HIDE DEF new
    <3> QED BY <1>m, <2>0, <3>1, <3>3
  <2> QED BY <2>1, <2>2
<1>5. CASE Check(w) \/ Ended(w)
  <2>1. t.pc \in Claiming /\ UNCHANGED <<registered, gateway>> BY <1>5 DEF Check, Ended, aside, memory
  <2>2. Leave(w) \/ Goto(w, "extract") BY <1>5 DEF Check, Ended, Finish
  <2> QED BY <1>g, <1>l, <2>1, <2>2
<1>6. CASE Extract(w) \/ Dispatch(w) \/ CallCancelled(w) \/ Publish(w)
  <2>1. t.pc \in Claiming /\ UNCHANGED <<registered, gateway>>
    BY <1>6 DEF Extract, Dispatch, CallCancelled, Publish, aside, memory
  <2>2. \/ \E pc \in {"ended", "publish", "dispatch", "calling", "done", "ready"} : Goto(w, pc)
        \/ Failed(w)
    BY <1>6 DEF Extract, Dispatch, CallCancelled, Publish
  <2> QED BY <1>g, <1>f, <2>1, <2>2
<1>7. CASE Answer(w)
  <2>0. t.pc = "calling" /\ UNCHANGED <<registered, gateway>> BY <1>7 DEF Answer, aside, memory
  <2>1. PICK used : \/ thread' = [thread EXCEPT ![w].pc = "publish", ![w].used = used]
                    \/ thread' = [thread EXCEPT ![w].pc = "dispatch", ![w].used = used,
                                                ![w].repaired = FALSE, ![w].again = TRUE]
    BY <1>7 DEF Answer
  <2> DEFINE one == [t EXCEPT !.pc = "publish", !.used = used]
             two == [t EXCEPT !.pc = "dispatch", !.used = used, !.repaired = FALSE, !.again = TRUE]
  <2>2. ThreadOk(one) /\ one.pc = "publish" /\ one.gw = t.gw BY <1>0, <2>0 DEF ThreadOk, Fields
  <2>3. ThreadOk(two) /\ two.pc = "dispatch" /\ two.gw = t.gw BY <1>0, <2>0 DEF ThreadOk, Fields
  <2>4. thread' = [thread EXCEPT ![w] = one] \/ thread' = [thread EXCEPT ![w] = two] BY <2>1
  <2> HIDE DEF one, two
  <2> QED BY <1>m, <2>0, <2>2, <2>3, <2>4
<1>8. CASE Invalid(w) \/ CallFails(w)
  <2>0. t.pc = "calling" /\ UNCHANGED <<registered, gateway>>
    BY <1>8 DEF Invalid, CallFails, aside, memory
  <2>1. CASE Failed(w) BY <1>f, <2>0, <2>1
  <2>2. CASE ~Failed(w)
    <3> DEFINE new == [t EXCEPT !.pc = "dispatch", !.repaired = TRUE]
    <3>1. thread' = [thread EXCEPT ![w] = new] BY <1>8, <2>2 DEF Invalid, CallFails
    <3>2. ThreadOk(new) /\ new.pc = "dispatch" /\ new.gw = t.gw BY <1>0, <2>0 DEF ThreadOk, Fields
    <3> HIDE DEF new
    <3> QED BY <1>m, <2>0, <3>1, <3>2
  <2> QED BY <2>1, <2>2
<1>9. CASE MarkOperationsReady(w)
  BY <1>9, <1>g DEF MarkOperationsReady, aside, memory
<1>10. CASE Done(w)
  BY <1>10, <1>l DEF Done, aside, memory
<1>11. CASE After(w)
  <2>1. t.pc = "after" /\ UNCHANGED <<registered, gateway>> BY <1>11 DEF After, aside, memory
  <2>2. Goto(w, "final") \/ Goto(w, "release") \/ Goto(w, "top") BY <1>11 DEF After
  <2> QED BY <1>g, <2>1, <2>2
<1>12. CASE Release(w)
  <2>1. CASE rerun BY <1>12, <1>g, <2>1 DEF Release
  <2>2. CASE ~rerun
    <3>1. t.pc = "release" /\ registered' = FALSE /\ gateway' = None /\ thread' = [thread EXCEPT ![w] = Idle]
      BY <1>12, <2>2 DEF Release
    <3>2. ThreadOk(Idle) /\ Idle.pc = "idle" BY IdleOk DEF Idle
    <3> QED BY <1>m, <3>1, <3>2
  <2> QED BY <2>1, <2>2
<1>13. CASE Final(w)
  <2> DEFINE again == [Idle EXCEPT !.pc = "restart", !.gw = gateway]
  <2>1. /\ t.pc = "final" /\ registered' = FALSE /\ gateway' = None
        /\ \/ thread' = [thread EXCEPT ![w] = Idle]
           \/ gateway # None /\ thread' = [thread EXCEPT ![w] = again]
    BY <1>13 DEF Final
  <2>2. ThreadOk(Idle) /\ Idle.pc = "idle" BY IdleOk DEF Idle
  <2>3. gateway # None => ThreadOk(again)
    BY DEF Shapes, ThreadOk, Idle, Fields
  <2>4. again.pc = "restart" /\ again.gw = gateway BY DEF Idle
  <2> HIDE DEF again
  <2> QED BY <1>m, <2>1, <2>2, <2>3, <2>4
<1>14. CASE DatabaseError(w)
  <2>1. UNCHANGED <<registered, gateway>> BY <1>14 DEF DatabaseError, memory
  <2>2. \/ t.pc \in {"list", "claim", "check", "after"} /\ Goto(w, "final")
        \/ t.pc \in Claiming /\ Failed(w)
    BY <1>14 DEF DatabaseError
  <2> QED BY <1>f, <1>g, <2>1, <2>2
<1> QED
  BY <1>1, <1>2, <1>3, <1>4, <1>5, <1>6, <1>7, <1>8, <1>9, <1>10, <1>11, <1>12, <1>13, <1>14
  DEF WorkerStep

-----------------------------------------------------------------------------
(* What a step does to a task row, to a claim and to the permits.          *)

RowRests(d) == task'[d] = task[d] /\ graph'[d] = graph[d]

\* _claim: the thread has the scope of the row from now on.
Claims(w) ==
    /\ thread[w].pc \notin Claiming /\ thread'[w].pc = "check"
    /\ thread'[w].doc \in Docs
    /\ thread'[w].scope = task'[thread'[w].doc].scope

RowClaimed(d) ==
    /\ graph'[d] = graph[d]
    /\ task[d].status = "pending"
    /\ \E w \in Workers :
          /\ task'[d] = [task[d] EXCEPT !.status = "running", !.error = "none", !.token = w]
          /\ Claims(w) /\ thread'[w].doc = d

\* A graph is for the candidates that are current, and takes a full one's place only if full.
GraphInTurn(d) ==
    graph'[d] # graph[d] =>
        /\ graph'[d].gen = registry[d].gen
        /\ graph[d] # None /\ graph[d].gen = graph'[d].gen => graph'[d].quality = "full"

\* The row is written in a state nobody holds; the permits of its scope are gone with it.
RowChanges(d) ==
    /\ task'[d] \in TaskRows /\ graph'[d] \in Graphs \cup {None} /\ GraphInTurn(d)
    /\ task'[d].status \in {"pending", "completed", "failed"} /\ task'[d].token = None
    /\ \/ task'[d].gen = task[d].gen /\ task[d].status # "none"
       \/ task'[d].gen = registry[d].gen /\ registry[d].gen > 0
    /\ task'[d].reason # "explicit_retry" => task'[d].scope = None
    /\ task'[d].status = "completed" /\ Calm =>
          graph'[d] \in Graphs /\ graph'[d].gen = task'[d].gen
    /\ \/ task[d].scope \in {None, task'[d].scope}
       \/ ~Traced(ledger', task[d].scope)
       \/ "reanalysis" \in env

\* What a thread keeps of a claim, and what it may still rely on.
Keeps(w) ==
    /\ thread[w].pc \in Claiming /\ thread'[w].pc \in Claiming
    /\ thread'[w].doc = thread[w].doc /\ thread'[w].scope = thread[w].scope
    /\ Held(thread[w].doc, w)' =>
          /\ thread'[w].pc # "check" => ~thread'[w].stale /\ thread'[w].doc \notin cancelled'
          /\ thread'[w].pc = "extract" => Admitted(w)'
          /\ thread'[w].pc = "ended" /\ Calm => thread'[w].error = "failed"

\* A claim is left when the row is no longer held for the current candidates; or else the
\* knowledge base is closed, or the database has failed.
LetsGo(w) ==
    LET d == thread[w].doc IN
    /\ thread'[w].pc \notin Claiming
    /\ thread[w].pc \in Claiming =>
          \/ task'[d].status # "running" \/ task'[d].token # w \/ task'[d].gen # registry'[d].gen
          \/ ~active'
          \/ "db_error" \in env

RowsStep ==
    /\ task' = [d \in Docs |-> task'[d]] /\ graph' = [d \in Docs |-> graph'[d]]
    /\ \A d \in Docs : RowRests(d) \/ RowClaimed(d) \/ RowChanges(d)
    /\ \A d \in Docs : task'[d].scope \notin {None, task[d].scope} =>
          /\ task'[d].scope \notin ScopesOf(task, Docs)
          /\ \A e \in Docs \ {d} : task'[e].scope = task[e].scope
ThreadsStep == \A w \in Workers : Keeps(w) \/ Claims(w) \/ LetsGo(w)
LedgerStep ==
    /\ ledger' \in Ledger!Ledgers
    /\ \A x : Traced(ledger', x) => Traced(ledger, x) \/ x \in ScopesOf(task', Docs)
    /\ LiftedByRetry
AsideStep ==
    /\ registry' \in [Docs -> Registries]
    /\ \A d \in Docs : registry[d].gen <= registry'[d].gen
    /\ \A d \in Docs : "reanalysis" \notin env /\ registry[d].gen <= 1 => registry'[d].gen <= 1
    /\ \A d \in Docs : task'[d].status = "running" /\ active' => active
    /\ UNCHANGED env

Effects == RowsStep /\ ThreadsStep /\ LedgerStep /\ AsideStep

\* Whatever does no more than that keeps what was true of rows, claims and permits.
LEMMA EffectsKeep ==
    ASSUME GraphAssumption, Shapes, RowsInv, ClaimsInv, PermitsHaveOwner, RunningIsWorkedOn,
           CompletedHasGraph, ThreadsOk(thread'), Effects
    PROVE  /\ task' \in [Docs -> TaskRows] /\ graph' \in [Docs -> Graphs \cup {None}]
           /\ RowsInv' /\ ClaimsInv' /\ PermitsHaveOwner' /\ RunningIsWorkedOn'
           /\ CompletedHasGraph' /\ PublishedInTurn
<1> USE DEF Effects
<1>n. None \notin Workers /\ None \notin Graphs BY DEF GraphAssumption
<1>t. task \in [Docs -> TaskRows] /\ graph \in [Docs -> Graphs \cup {None}] BY DEF Shapes
<1>c. ASSUME NEW d \in Docs, RowClaimed(d)
      PROVE  /\ task'[d] \in TaskRows
             /\ task'[d].status = "running" /\ task'[d].gen = task[d].gen
             /\ task'[d].reason = task[d].reason /\ task'[d].scope = task[d].scope
             /\ task'[d].token # None
  <2>1. PICK w \in Workers :
           task'[d] = [task[d] EXCEPT !.status = "running", !.error = "none", !.token = w]
    BY <1>c DEF RowClaimed
  <2>2. /\ task'[d] \in TaskRows
        /\ task'[d].status = "running" /\ task'[d].gen = task[d].gen /\ task'[d].token = w
        /\ task'[d].scope = task[d].scope /\ task'[d].reason = task[d].reason
    BY <2>1, TakingUp
  <2> QED BY <2>2, <1>n
<1>r. \A d \in Docs : task'[d] \in TaskRows /\ graph'[d] \in Graphs \cup {None}
  BY <1>c, <1>t DEF RowsStep, RowRests, RowClaimed, RowChanges
<1>a. task' \in [Docs -> TaskRows] /\ graph' \in [Docs -> Graphs \cup {None}]
  BY <1>r DEF RowsStep
<1>m. \A d \in Docs : /\ registry[d].gen \in Nat /\ registry'[d].gen \in Nat
                      /\ task[d].gen \in Nat /\ task'[d].gen \in Nat
  <2>1. 0..MaxCandidates \subseteq Nat BY DEF GraphAssumption
  <2>2. SUFFICES ASSUME NEW d \in Docs
                 PROVE  /\ registry[d].gen \in 0..MaxCandidates /\ registry'[d].gen \in 0..MaxCandidates
                        /\ task[d].gen \in 0..MaxCandidates /\ task'[d].gen \in 0..MaxCandidates
    BY <2>1
  <2>3. task[d] \in TaskRows /\ task'[d] \in TaskRows BY <1>r, <1>t
  <2>4. registry[d] \in Registries /\ registry'[d] \in Registries BY DEF Shapes, AsideStep
  <2> QED BY <2>3, <2>4 DEF TaskRows, Registries
<1>1. ASSUME NEW d \in Docs PROVE RowOk(d)'
  <2>1. RowOk(d) /\ registry[d].gen <= registry'[d].gen /\ env' = env
    BY DEF RowsInv, AsideStep
  <2>2. task'[d].gen <= registry'[d].gen /\ (task'[d].status = "none" \/ task'[d].gen > 0)
    <3>1. CASE RowRests(d) BY <1>m, <2>1, <3>1 DEF RowRests, RowOk
    <3>2. CASE RowClaimed(d)
      <4>1. task'[d].gen = task[d].gen /\ task[d].status = "pending" BY <1>c, <3>2 DEF RowClaimed
      <4>2. task[d].gen <= registry[d].gen /\ task[d].gen > 0 BY <2>1, <4>1 DEF RowOk
      <4>3. /\ task[d].gen \in Nat /\ task'[d].gen \in Nat
            /\ registry[d].gen \in Nat /\ registry'[d].gen \in Nat
        BY <1>m
      <4> QED BY <2>1, <4>1, <4>2, <4>3
    <3>3. CASE RowChanges(d) BY <1>m, <2>1, <3>3 DEF RowChanges, RowOk
    <3> QED BY <3>1, <3>2, <3>3 DEF RowsStep
  <2>3. /\ task'[d].status = "running" <=> task'[d].token # None
        /\ task'[d].status = "none" => task'[d].scope = None
        /\ task'[d].reason # "explicit_retry" => task'[d].scope = None
    <3>1. CASE RowRests(d) BY <2>1, <3>1 DEF RowRests, RowOk
    <3>2. CASE RowClaimed(d) BY <1>c, <2>1, <3>2 DEF RowOk
    <3>3. CASE RowChanges(d) BY <3>3 DEF RowChanges
    <3> QED BY <3>1, <3>2, <3>3 DEF RowsStep
  <2>4. "reanalysis" \notin env => registry'[d].gen <= 1 BY <2>1 DEF RowOk, AsideStep
  <2> QED BY <2>1, <2>2, <2>3, <2>4 DEF RowOk
<1>2. ASSUME NEW d \in Docs, NEW e \in Docs, d # e, task'[d].scope # None
      PROVE  task'[d].scope # task'[e].scope
  BY <1>2 DEF RowsStep, RowsInv, ScopesOf
<1>3. ASSUME NEW w \in Workers PROVE ClaimOk(w)'
  <2> SUFFICES ASSUME thread'[w].pc \in Claiming, Held(thread[w].doc, w)'
               PROVE  /\ thread'[w].scope = task'[thread'[w].doc].scope
                      /\ thread'[w].pc # "check" => ~thread'[w].stale /\ thread'[w].doc \notin cancelled'
                      /\ thread'[w].pc = "extract" => Admitted(w)'
                      /\ thread'[w].pc = "ended" /\ Calm' => thread'[w].error = "failed"
    BY DEF ClaimOk
  <2>c. Calm' <=> Calm BY DEF AsideStep, Calm
  <2>1. CASE Claims(w) BY <2>1 DEF Claims
  <2>2. CASE Keeps(w) /\ ~Claims(w)
    <3> DEFINE d == thread[w].doc
    <3>1. d \in Docs /\ thread'[w].doc = d /\ thread'[w].scope = thread[w].scope
      BY <2>2 DEF Keeps, Shapes, ThreadsOk, ThreadOk, HasDocument
    <3>2. task'[d].status = "running" /\ task'[d].token = w /\ task'[d].gen = registry'[d].gen
      BY <3>1 DEF Held
    <3>3. ~RowChanges(d) BY <3>2 DEF RowChanges
    <3>4. ~RowClaimed(d)
      <4> SUFFICES ASSUME RowClaimed(d) PROVE FALSE OBVIOUS
      <4>1. PICK u \in Workers :
               /\ task'[d] = [task[d] EXCEPT !.status = "running", !.error = "none", !.token = u]
               /\ Claims(u)
        BY DEF RowClaimed
      <4>2. task'[d].token = u BY <3>1, <4>1, TakingUp
      <4>3. u = w BY <3>2, <4>2
      <4> QED BY <2>2, <4>1, <4>3
    <3>5. task'[d] = task[d] BY <3>1, <3>3, <3>4 DEF RowsStep, RowRests
    <3>6. task[d].gen = registry[d].gen
      <4>1. task[d].gen <= registry[d].gen /\ registry[d].gen <= registry'[d].gen
        BY <3>1 DEF AsideStep, RowsInv, RowOk
      <4>2. task[d].gen \in Nat /\ registry[d].gen \in Nat /\ registry'[d].gen \in Nat
        BY <1>m, <3>1
      <4>3. task[d].gen = registry'[d].gen BY <3>2, <3>5
      <4> QED BY <4>1, <4>2, <4>3
    <3>7. Held(d, w) BY <3>2, <3>5, <3>6 DEF Held
    <3>8. thread[w].scope = task[d].scope BY <2>2, <3>7 DEF ClaimsInv, ClaimOk, Keeps
    <3> QED BY <2>2, <2>c, <3>1, <3>5, <3>8 DEF Keeps
  <2> QED BY <2>1, <2>2 DEF ThreadsStep, LetsGo
<1>4. PermitsHaveOwner'
  <2> SUFFICES ASSUME "reanalysis" \notin env, NEW x, Traced(ledger', x), Traced(ledger, x)
               PROVE  x \in ScopesOf(task', Docs)
    BY DEF LedgerStep, PermitsHaveOwner, Traced, AsideStep
  <2>1. PICK d \in Docs : task[d].scope = x /\ x # None BY DEF PermitsHaveOwner, Traced, ScopesOf
  <2>2. task'[d].scope = x BY <1>c, <2>1 DEF RowsStep, RowRests, RowChanges
  <2> QED BY <2>1, <2>2 DEF ScopesOf
<1>5. RunningIsWorkedOn'
  <2> SUFFICES ASSUME active', "db_error" \notin env, NEW d \in Docs,
                      task'[d].status = "running", task'[d].gen = registry'[d].gen
               PROVE  \E w \in Workers :
                         task'[d].token = w /\ thread'[w].doc = d /\ thread'[w].pc \in Claiming
    BY DEF RunningIsWorkedOn, AsideStep
  <2>1. CASE RowRests(d)
    <3>1. active BY DEF AsideStep
    <3>2. task[d].gen = registry[d].gen /\ task[d].status = "running"
      BY <1>m, <2>1 DEF RowRests, AsideStep, RowsInv, RowOk
    <3>3. PICK w \in Workers : task[d].token = w /\ thread[w].doc = d /\ thread[w].pc \in Claiming
      BY <3>1, <3>2 DEF RunningIsWorkedOn
    <3>4. ~LetsGo(w) BY <2>1, <3>3 DEF LetsGo, RowRests
    <3>5. ~Claims(w) BY <3>3 DEF Claims
    <3>6. Keeps(w) BY <3>4, <3>5 DEF ThreadsStep
    <3> QED BY <2>1, <3>3, <3>6 DEF Keeps, RowRests
  <2>2. CASE RowClaimed(d)
    <3>1. PICK w \in Workers :
             /\ task'[d] = [task[d] EXCEPT !.status = "running", !.error = "none", !.token = w]
             /\ Claims(w) /\ thread'[w].doc = d
      BY <2>2 DEF RowClaimed
    <3>2. task'[d].token = w BY <3>1, TakingUp
    <3> QED BY <3>1, <3>2 DEF Claims, Claiming
  <2>3. CASE RowChanges(d) BY <2>3 DEF RowChanges
  <2> QED BY <2>1, <2>2, <2>3 DEF RowsStep
<1>6. CompletedHasGraph'
  <2> SUFFICES ASSUME Calm, NEW d \in Docs, task'[d].status = "completed"
               PROVE  graph'[d] # None /\ graph'[d].gen = task'[d].gen
    BY DEF CompletedHasGraph, Calm, AsideStep
  <2>1. CASE RowRests(d) BY <2>1 DEF RowRests, CompletedHasGraph, Calm
  <2>2. ~RowClaimed(d) BY <1>c
  <2>3. CASE RowChanges(d) BY <1>n, <2>3 DEF RowChanges
  <2> QED BY <2>1, <2>2, <2>3 DEF RowsStep
<1>7. PublishedInTurn BY DEF PublishedInTurn, RowsStep, RowRests, RowClaimed, RowChanges, GraphInTurn
<1>8. RowsInv' BY <1>1, <1>2 DEF RowsInv
<1>9. ClaimsInv' BY <1>3 DEF ClaimsInv
<1> QED BY <1>a, <1>4, <1>5, <1>6, <1>7, <1>8, <1>9


-----------------------------------------------------------------------------
(* The effects of every step.                                              *)

\* A step that writes no row, no graph and no contract.
StoreRests == UNCHANGED <<task, graph, ledger>>

\* A step that writes neither rows nor graphs leaves them in order.
LEMMA RestingStore ==
    ASSUME Shapes, UNCHANGED <<task, graph>>
    PROVE  RowsStep
  BY DEF Shapes, RowsStep, RowRests

\* A step that leaves the ledger touches no permit.
LEMMA RestingLedger ==
    ASSUME Shapes, UNCHANGED ledger
    PROVE  LedgerStep
  BY DEF Shapes, LedgerStep, LiftedByRetry

\* The candidates and the environment rest, and no row is running after an opening.
LEMMA RestingAside ==
    ASSUME Shapes, UNCHANGED <<registry, env>>,
           \A d \in Docs : task'[d].status = "running" /\ active' => active
    PROVE  AsideStep
  BY DEF Shapes, AsideStep, Registries

\* A worker leaves the candidates and the events alone.
LEMMA WorkerAside ==
    ASSUME Shapes, NEW w \in Workers, WorkerStep(w)
    PROVE  AsideStep
<1>1. UNCHANGED <<registry, active, env>> BY WorkerFrame
<1> QED BY <1>1, RestingAside

\* The threads that are not registered hold no claim.
LEMMA OthersLetGo ==
    ASSUME OneWorker, NEW w \in Workers, Moved(w)
    PROVE  \A u \in Workers \ {w} : LetsGo(u)
  BY DEF OneWorker, OneWorkerIn, Moved, LetsGo, Working

\* One thread works, so that what it does with its claim is all that happens to claims.
LEMMA WorkerThreads ==
    ASSUME OneWorker, NEW w \in Workers, Moved(w), Keeps(w) \/ Claims(w) \/ LetsGo(w)
    PROVE  ThreadsStep
  BY OthersLetGo DEF ThreadsStep

\* A thread that takes no step relies on what it relied on, as long as nobody cancels the
\* document it holds or revokes the permit it was admitted by.
LEMMA Bystander ==
    ASSUME Shapes, ClaimsInv, NEW u \in Workers, thread[u].pc \in Claiming,
           thread'[u].pc = thread[u].pc, thread'[u].doc = thread[u].doc,
           thread'[u].scope = thread[u].scope, thread'[u].gw = thread[u].gw,
           thread'[u].error = thread[u].error,
           Held(thread[u].doc, u)' =>
              /\ Held(thread[u].doc, u)
              /\ thread'[u].stale = thread[u].stale
              /\ thread[u].doc \notin cancelled => thread[u].doc \notin cancelled'
              /\ Admitted(u) => Admitted(u)'
    PROVE  Keeps(u)
  BY DEF ClaimsInv, ClaimOk, Keeps

\* The others of them: what nobody has written is as it was.
LEMMA BystandersKeep ==
    ASSUME Shapes, ClaimsInv, UNCHANGED <<task, registry, ledger>>, cancelled' \subseteq cancelled,
           \A u \in Workers : \/ thread'[u] = thread[u]
                              \/ thread[u].pc \notin Claiming /\ thread'[u].pc \notin Claiming
    PROVE  ThreadsStep
<1> SUFFICES ASSUME NEW u \in Workers PROVE Keeps(u) \/ LetsGo(u) BY DEF ThreadsStep
<1>1. CASE thread[u].pc \notin Claiming /\ thread'[u].pc \notin Claiming BY <1>1 DEF LetsGo
<1>2. CASE thread'[u] = thread[u] /\ thread[u].pc \notin Claiming BY <1>2 DEF LetsGo
<1>3. CASE thread'[u] = thread[u] /\ thread[u].pc \in Claiming
  <2>1. Held(thread[u].doc, u)' => Held(thread[u].doc, u) BY <1>3 DEF Held
  <2>2. Admitted(u) => Admitted(u)' BY <1>3 DEF Admitted, MayDispatch
  <2> QED BY <1>3, <2>1, <2>2, Bystander
<1> QED BY <1>1, <1>2, <1>3

\* The thread that holds its row for the current candidates, beyond the check.
LEMMA BeyondCheck ==
    ASSUME ClaimsInv, NEW w \in Workers, thread[w].pc \in Claiming \ {"check"},
           Held(thread[w].doc, w)
    PROVE  ~ShouldStop(w)
  BY DEF ClaimsInv, ClaimOk, ShouldStop

\* A step from one point of a claim to another.
LEMMA GoingOn ==
    ASSUME ThreadsOk(thread), ClaimsInv, NEW w \in Workers, thread[w].pc \in Claiming \ {"check"},
           NEW pc \in Claiming \ {"check", "extract"}, Goto(w, pc),
           UNCHANGED <<task, registry, cancelled>>,
           pc = "ended" /\ Calm => ~Held(thread[w].doc, w)
    PROVE  Keeps(w)
<1>1. /\ thread'[w].pc = pc /\ thread'[w].doc = thread[w].doc
      /\ thread'[w].scope = thread[w].scope /\ thread'[w].stale = thread[w].stale
  BY Going DEF Working, HasGateway, HasDocument, Claiming
<1>2. Held(thread[w].doc, w)' => Held(thread[w].doc, w) BY <1>1 DEF Held
<1> QED BY <1>1, <1>2 DEF Keeps, ClaimsInv, ClaimOk

\* A failure is noted by the thread alone: its claim is what it was.
LEMMA FailingOn ==
    ASSUME ThreadsOk(thread), ClaimsInv, NEW w \in Workers, thread[w].pc \in Claiming \ {"check"},
           Failed(w), UNCHANGED <<task, registry, cancelled>>
    PROVE  Keeps(w)
<1>1. /\ thread'[w].pc = "ended" /\ thread'[w].doc = thread[w].doc /\ thread'[w].error = "failed"
      /\ thread'[w].scope = thread[w].scope /\ thread'[w].stale = thread[w].stale
  BY FailingThread
<1>2. Held(thread[w].doc, w)' => Held(thread[w].doc, w) BY <1>1 DEF Held
<1> QED BY <1>1, <1>2 DEF Keeps, ClaimsInv, ClaimOk, Claiming

\* _finish: a row that is closed has no owner and no scope, and its permits are revoked.
LEMMA Finishing ==
    ASSUME GraphAssumption, Shapes, RowsInv, NEW w \in Workers, thread[w].pc \in Claiming,
           NEW status \in {"pending", "completed", "failed"},
           NEW error \in {"none", "interrupted", "suspended", "failed"},
           Finish(w, status, error), UNCHANGED <<graph, registry>>, status = "completed" => ~Calm
    PROVE  RowsStep /\ LedgerStep /\ LetsGo(w)
<1> DEFINE d == thread[w].doc
<1>0. d \in Docs /\ ThreadsOk(thread) BY DEF Shapes, ThreadsOk, ThreadOk, HasDocument
<1>1. thread'[w].pc = "next"
  BY <1>0, Leaving DEF Finish, HasGateway, Working, Claiming
<1>2. thread'[w].pc \notin Claiming BY <1>1 DEF Claiming
<1>3. CASE UNCHANGED <<task, ledger>>
           /\ (task[d].status # "running" \/ task[d].token # w \/ "db_error" \in env)
  BY <1>2, <1>3, RestingStore, RestingLedger DEF LetsGo
<1>4. CASE /\ task[d].status = "running" /\ task[d].token = w
           /\ task' = [task EXCEPT ![d] = Closed(@, status, error)]
           /\ ledger' = Ledger!Revoke(ledger, task[d].scope)
  <2>t. task \in [Docs -> TaskRows] /\ ledger \in Ledger!Ledgers BY DEF Shapes
  <2>1. /\ task'[d] \in TaskRows /\ task'[d].status = status /\ task'[d].gen = task[d].gen
        /\ task'[d].scope = None /\ task'[d].token = None
    <3>1. task'[d] = Closed(task[d], status, error) BY <1>0, <1>4, <2>t
    <3> QED BY <1>0, <3>1, Closing
  <2>2. \A e \in Docs \ {d} : task'[e] = task[e] BY <1>4, <2>t
  <2>3. /\ ledger' \in Ledger!Ledgers /\ ledger'.suspended = ledger.suspended
        /\ \A x : Traced(ledger', x) => Traced(ledger, x) /\ x # task[d].scope
    BY <1>4, <2>t, Revoking
  <2>4. RowChanges(d)
    BY <1>0, <1>4, <2>1, <2>3 DEF RowChanges, GraphInTurn, Shapes
  <2>5. RowsStep
    <3>1. \A e \in Docs : RowRests(e) \/ RowChanges(e) BY <2>2, <2>4 DEF RowRests
    <3>2. task' = [e \in Docs |-> task'[e]] /\ graph' = [e \in Docs |-> graph'[e]]
      BY <1>4, <2>t DEF Shapes
    <3> QED BY <2>1, <2>2, <3>1, <3>2 DEF RowsStep
  <2>6. LedgerStep BY <2>3 DEF LedgerStep, LiftedByRetry
  <2>7. LetsGo(w) BY <1>2, <1>4, <2>1 DEF LetsGo
  <2> QED BY <2>5, <2>6, <2>7
<1> QED BY <1>3, <1>4 DEF Finish


\* A step of the worker has no other effects: each action below is one of its points.
LEMMA WorkerEffects ==
    ASSUME GraphAssumption, Shapes, RowsInv, ClaimsInv, GatewaysInv, OneWorker,
           NEW w \in Workers, WorkerStep(w), ~Restart(w)
    PROVE  Effects
<1> DEFINE t == thread[w]  d == thread[w].doc
<1>m. Moved(w) BY WorkerMoves
<1>a. AsideStep BY WorkerAside
<1>f. UNCHANGED <<registry, cancelled>> BY WorkerFrame
<1>o. ThreadsOk(thread) /\ ThreadOk(t) /\ (t.pc \in Claiming \cup {"claim"} => d \in Docs)
  BY DEF Shapes, ThreadsOk, ThreadOk, HasDocument
<1>r. ASSUME UNCHANGED <<task, graph>> PROVE RowsStep BY <1>r, RestingStore
<1>l. ASSUME UNCHANGED ledger PROVE LedgerStep BY <1>l, RestingLedger
<1>t. ASSUME Keeps(w) \/ Claims(w) \/ LetsGo(w) PROVE ThreadsStep BY <1>t, <1>m, WorkerThreads
<1>1. CASE Top(w) \/ List(w) \/ NextDocument(w) \/ Done(w) \/ After(w) \/ Release(w) \/ Final(w)
  <2>1. UNCHANGED <<task, graph, ledger>>
    BY <1>1 DEF Top, List, NextDocument, Done, After, Release, Final, store
  <2>2. t.pc \notin Claiming
    BY <1>1 DEF Top, List, NextDocument, Done, After, Release, Final, Claiming
  <2>3. thread'[w].pc \notin Claiming
    <3> USE DEF ThreadsOk, ThreadOk, Fields
    <3>1. CASE Top(w) BY <1>o, <3>1 DEF Top, Goto, Claiming
    <3>2. CASE List(w)
      <4>1. thread'[w].pc = "next" BY <1>o, <3>2 DEF List
      <4> QED BY <4>1 DEF Claiming
    <3>3. CASE NextDocument(w)
      <4>1. CASE thread' = [thread EXCEPT ![w].pc = "after", ![w].todo = {}]
        BY <1>o, <4>1 DEF Claiming
      <4>2. ASSUME NEW e,
                   thread' = [thread EXCEPT ![w].pc = IF e \in cancelled THEN "next" ELSE "claim",
                                            ![w].doc = IF e \in cancelled THEN None ELSE e,
                                            ![w].todo = @ \ {e}]
            PROVE  thread'[w].pc \notin Claiming
        <5>1. thread'[w].pc = IF e \in cancelled THEN "next" ELSE "claim" BY <1>o, <4>2
        <5> QED BY <5>1 DEF Claiming
      <4> QED BY <3>3, <4>1, <4>2 DEF NextDocument
    <3>4. CASE Done(w) BY <1>o, <3>4 DEF Done, Leave, Idle, Claiming
    <3>5. CASE After(w) BY <1>o, <3>5 DEF After, Goto, Claiming
    <3>6. CASE Release(w) BY <1>o, <3>6 DEF Release, Goto, Idle, Claiming
    <3>7. CASE Final(w)
      <4>1. thread'[w].pc \in {"idle", "restart"} BY <1>o, <3>7 DEF Final, Idle
      <4> QED BY <4>1 DEF Claiming
    <3> QED BY <1>1, <3>1, <3>2, <3>3, <3>4, <3>5, <3>6, <3>7
  <2>4. LetsGo(w) BY <2>2, <2>3 DEF LetsGo
  <2> QED BY <1>a, <1>r, <1>l, <1>t, <2>1, <2>4 DEF Effects
<1>2. CASE Claim(w)
  <2>0. t.pc = "claim" /\ UNCHANGED <<graph, ledger>> BY <1>2 DEF Claim
  <2>1. CASE Leave(w) /\ UNCHANGED task
    <3>1. thread'[w].pc = "next"
      BY <1>o, <2>0, <2>1, Leaving DEF HasGateway, Working
    <3>2. LetsGo(w) BY <2>0, <3>1 DEF LetsGo, Claiming
    <3> QED BY <1>a, <1>r, <1>l, <1>t, <2>0, <2>1, <3>2 DEF Effects
  <2>2. CASE /\ Runnable(d, t.gw.model)
             /\ task' = [task EXCEPT ![d] = [@ EXCEPT !.status = "running", !.error = "none",
                                                      !.token = w]]
             /\ thread' = [thread EXCEPT
                   ![w].pc = "check",
                   ![w].scope = IF task[d].reason = "explicit_retry" THEN task[d].scope ELSE None]
    <3>0. d \in Docs /\ task \in [Docs -> TaskRows] BY <1>o, <2>0 DEF Shapes
    <3>1. /\ task'[d] = [task[d] EXCEPT !.status = "running", !.error = "none", !.token = w]
          /\ \A e \in Docs \ {d} : task'[e] = task[e]
          /\ task' = [e \in Docs |-> task'[e]]
      BY <2>2, <3>0
    <3>2. task'[d].scope = task[d].scope BY <3>0, <3>1, TakingUp
    <3>3. /\ thread'[w].pc = "check" /\ thread'[w].doc = d
          /\ thread'[w].scope = IF task[d].reason = "explicit_retry" THEN task[d].scope ELSE None
      BY <1>o, <2>2 DEF ThreadsOk, ThreadOk, Fields
    <3>4. thread'[w].scope = task'[d].scope BY <3>0, <3>2, <3>3 DEF RowsInv, RowOk
    <3>5. Claims(w) BY <2>0, <3>0, <3>3, <3>4 DEF Claims, Claiming
    <3>6. RowClaimed(d) BY <2>0, <2>2, <3>1, <3>3, <3>5 DEF RowClaimed, Runnable
    <3>7. RowsStep
      <4>1. graph' = [e \in Docs |-> graph'[e]] BY <2>0 DEF Shapes
      <4>2. \A e \in Docs \ {d} : RowRests(e) BY <2>0, <3>1 DEF RowRests
      <4> QED BY <3>1, <3>2, <3>6, <4>1, <4>2 DEF RowsStep
    <3> QED BY <1>a, <1>l, <1>t, <2>0, <3>5, <3>7 DEF Effects
  <2> QED BY <1>2, <2>1, <2>2 DEF Claim
<1>3. CASE Check(w) \/ Ended(w)
  <2>0. t.pc \in {"check", "ended"} /\ UNCHANGED graph BY <1>3 DEF Check, Ended
  <2>1. CASE \/ Finish(w, "pending", "interrupted")
             \/ Finish(w, "pending", "suspended")
             \/ Finish(w, "failed", "failed")
             \/ Finish(w, "completed", "none") /\ ~Calm
    <3>1. RowsStep /\ LedgerStep /\ LetsGo(w) BY <1>f, <2>0, <2>1, Finishing DEF Claiming
    <3> QED BY <1>a, <1>t, <3>1 DEF Effects
  <2>2. CASE Finish(w, "completed", "none") /\ Calm /\ Ended(w) /\ ~ShouldStop(w) /\ t.error # "failed"
    <3>1. t.pc = "ended" BY <2>2 DEF Ended
    <3>2. d \in Docs BY <1>o, <2>0 DEF Claiming
    <3>3. FALSE BY <2>2, <3>1, <3>2 DEF ShouldStop, ClaimsInv, ClaimOk, Claiming
    <3> QED BY <3>3
  <2>3. CASE Check(w) /\ ~ShouldStop(w) /\ Admitted(w) /\ Goto(w, "extract") /\ UNCHANGED <<task, ledger>>
    <3>1. /\ thread'[w].pc = "extract" /\ thread'[w].doc = d /\ thread'[w].scope = t.scope
          /\ thread'[w].stale = t.stale /\ thread'[w].gw = t.gw
      BY <1>o, <2>0, <2>3, Going DEF Working, HasGateway, HasDocument, Claiming
    <3>2. Admitted(w)' BY <1>f, <2>3, <3>1 DEF Admitted, MayDispatch
    <3>3. Keeps(w) BY <1>f, <2>0, <2>3, <3>1, <3>2 DEF Keeps, ShouldStop, Claiming
    <3> QED BY <1>a, <1>r, <1>l, <1>t, <2>0, <2>3, <3>3 DEF Effects
  <2> QED BY <1>3, <2>1, <2>2, <2>3 DEF Check, Ended
<1>4. CASE Extract(w)
  <2>0. t.pc = "extract" /\ UNCHANGED <<task, graph, ledger>> BY <1>4 DEF Extract, store
  <2>1. PICK pc \in {"ended", "publish", "dispatch"} :
           /\ Goto(w, pc)
           /\ pc = "ended" => t.gw.model \notin verified \/ ShouldStop(w) \/ ~Admitted(w)
    BY <1>4 DEF Extract
  <2>2. Calm => t.gw.model \in verified BY <2>0 DEF GatewaysInv, HasGateway, Working, Claiming
  <2>3. Held(d, w) => ~ShouldStop(w) /\ Admitted(w)
    BY <2>0, BeyondCheck DEF ClaimsInv, ClaimOk, Claiming
  <2>4. Keeps(w)
    BY <1>o, <1>f, <2>0, <2>1, <2>2, <2>3, GoingOn DEF Claiming
  <2> QED BY <1>a, <1>r, <1>l, <1>t, <2>0, <2>4 DEF Effects
<1>5. CASE Dispatch(w) \/ CallCancelled(w)
  <2>0. t.pc \in {"dispatch", "calling"} /\ UNCHANGED <<task, graph, ledger>>
    BY <1>5 DEF Dispatch, CallCancelled, store
  <2>1. CASE Failed(w) BY <1>a, <1>f, <1>o, <1>r, <1>l, <1>t, <2>0, <2>1, FailingOn DEF Effects, Claiming
  <2>2. CASE (Goto(w, "ended") /\ ShouldStop(w)) \/ Goto(w, "calling")
    <3>1. Keeps(w) BY <1>o, <1>f, <2>0, <2>2, GoingOn, BeyondCheck DEF Claiming
    <3> QED BY <1>a, <1>r, <1>l, <1>t, <2>0, <3>1 DEF Effects
  <2> QED BY <1>5, <2>1, <2>2 DEF Dispatch, CallCancelled
<1>6. CASE Answer(w)
  <2>0. t.pc = "calling" /\ UNCHANGED <<task, graph, ledger>> BY <1>6 DEF Answer, store
  <2>1. PICK used : \/ thread' = [thread EXCEPT ![w].pc = "publish", ![w].used = used]
                    \/ thread' = [thread EXCEPT ![w].pc = "dispatch", ![w].used = used,
                                                ![w].repaired = FALSE, ![w].again = TRUE]
    BY <1>6 DEF Answer
  <2>2. /\ thread'[w].pc \in {"publish", "dispatch"} /\ thread'[w].doc = d
        /\ thread'[w].scope = t.scope /\ thread'[w].stale = t.stale
    BY <1>o, <2>1 DEF ThreadsOk, ThreadOk, Fields
  <2>3. Held(d, w)' => Held(d, w) BY <1>f, <2>0, <2>2 DEF Held
  <2>4. Keeps(w) BY <1>f, <2>0, <2>2, <2>3 DEF Keeps, ClaimsInv, ClaimOk, Claiming
  <2> QED BY <1>a, <1>r, <1>l, <1>t, <2>0, <2>4 DEF Effects
<1>7. CASE Invalid(w) \/ CallFails(w)
  <2> DEFINE m == t.gw.model
  <2>0. t.pc = "calling" /\ UNCHANGED <<task, graph>> BY <1>7 DEF Invalid, CallFails
  <2>1. m \in Models
    BY <1>o, <2>0 DEF ThreadOk, HasGateway, Working, Claiming, IsGateway
  <2>2. Relations(m) \in TaskContracts /\ Repair(m) \in TaskContracts BY <2>1 DEF TaskContracts
  <2>3. LedgerStep
    <3>0. ledger \in Ledger!Ledgers BY DEF Shapes
    <3>1. ASSUME ledger' \in Ledger!Ledgers, ledger.suspended \subseteq ledger'.suspended,
                 \A x : Traced(ledger', x) => Traced(ledger, x)
          PROVE  LedgerStep
      BY <3>1 DEF LedgerStep, LiftedByRetry
    <3>2. CASE UNCHANGED ledger BY <1>l, <3>2
    <3>3. CASE ledger' = Ledger!SuspendInvalidAnswer(ledger, Relations(m), Repair(m))
      <4>1. "transport" \in Ledger!CallFailures BY DEF Ledger!CallFailures
      <4> QED BY <2>2, <3>0, <3>1, <3>3, <4>1, Failing
    <3>4. ASSUME NEW failure \in Ledger!CallFailures,
                 ledger' = Ledger!SuspendFailedCall(ledger, Contract(w),
                              IF t.repaired THEN Relations(m) ELSE None, failure)
          PROVE  LedgerStep
      <4>1. Contract(w) \in TaskContracts BY <2>2 DEF Contract
      <4>2. (IF t.repaired THEN Relations(m) ELSE None) \in TaskContracts \cup {None} BY <2>2
      <4> QED BY <3>0, <3>1, <3>4, <4>1, <4>2, Failing
    <3> QED BY <1>7, <3>2, <3>3, <3>4 DEF Invalid, CallFails
  <2>4. CASE Failed(w)
    <3>1. Keeps(w) BY <1>f, <1>o, <2>0, <2>4, FailingOn DEF Claiming
    <3> QED BY <1>a, <1>r, <1>t, <2>0, <2>3, <3>1 DEF Effects
  <2>5. CASE thread' = [thread EXCEPT ![w].pc = "dispatch", ![w].repaired = TRUE]
    <3>1. /\ thread'[w].pc = "dispatch" /\ thread'[w].doc = d
          /\ thread'[w].scope = t.scope /\ thread'[w].stale = t.stale
      BY <1>o, <2>5 DEF ThreadsOk, ThreadOk, Fields
    <3>2. Held(d, w)' => Held(d, w) BY <1>f, <2>0, <3>1 DEF Held
    <3>3. Keeps(w) BY <1>f, <2>0, <3>1, <3>2 DEF Keeps, ClaimsInv, ClaimOk, Claiming
    <3> QED BY <1>a, <1>r, <1>t, <2>0, <2>3, <3>3 DEF Effects
  <2> QED BY <1>7, <2>4, <2>5 DEF Invalid, CallFails
<1>8. CASE Publish(w)
  <2>0. t.pc = "publish" /\ d \in Docs BY <1>8, <1>o DEF Publish, Claiming
  <2>t. /\ task \in [Docs -> TaskRows] /\ graph \in [Docs -> Graphs \cup {None}]
        /\ ledger \in Ledger!Ledgers
    BY DEF Shapes
  <2>1. CASE Held(d, w)
    <3>1. PICK quality \in {"full", "degraded"} :
             graph' = [graph EXCEPT ![d] = CurrentResult(d, quality)]
      BY <1>8, <2>1 DEF Publish
    <3>2. /\ task' = [task EXCEPT ![d] = Closed(@, "completed", "none")]
          /\ ledger' = Ledger!Revoke(ledger, task[d].scope)
          /\ Goto(w, "done") \/ Goto(w, "ready")
      BY <1>8, <2>1 DEF Publish
    <3>3. task[d].status = "running" /\ task[d].token = w /\ task[d].gen = registry[d].gen
      BY <2>1 DEF Held
    <3>4. task'[d] = Closed(task[d], "completed", "none") BY <2>0, <2>t, <3>2
    <3>5. /\ task'[d] \in TaskRows /\ task'[d].status = "completed" /\ task'[d].gen = task[d].gen
          /\ task'[d].scope = None /\ task'[d].token = None
      BY <2>0, <3>4, Closing
    <3>6. /\ ledger' \in Ledger!Ledgers /\ ledger'.suspended = ledger.suspended
          /\ \A x : Traced(ledger', x) => Traced(ledger, x) /\ x # task[d].scope
      BY <2>t, <3>2, Revoking
    <3>7. /\ graph'[d] \in Graphs /\ graph'[d].gen = task[d].gen /\ GraphInTurn(d)
      <4>1. task[d].gen \in 0..MaxCandidates BY <2>0, <2>t DEF TaskRows
      <4>2. /\ graph'[d] = graph[d] \/ graph'[d] = [gen |-> task[d].gen, quality |-> quality]
            /\ graph'[d] = graph[d] => \/ graph[d] = [gen |-> task[d].gen, quality |-> "full"]
                                       \/ graph[d] = [gen |-> task[d].gen, quality |-> quality]
            /\ graph'[d] # graph[d] => graph[d] # [gen |-> task[d].gen, quality |-> "full"]
        BY <2>0, <2>t, <3>1 DEF CurrentResult
      <4>3. graph'[d] \in Graphs /\ graph'[d].gen = task[d].gen BY <4>1, <4>2 DEF Graphs
      <4>4. ASSUME graph'[d] # graph[d], graph[d] # None, graph[d].gen = graph'[d].gen
            PROVE  graph'[d].quality = "full"
        <5>1. graph[d] \in Graphs BY <2>0, <2>t, <4>4
        <5>2. graph[d].gen = task[d].gen BY <4>3, <4>4
        <5>3. graph[d].quality # "full" BY <4>2, <4>4, <5>1, <5>2 DEF Graphs
        <5>4. graph[d] = [gen |-> task[d].gen, quality |-> "degraded"] BY <5>1, <5>2, <5>3 DEF Graphs
        <5>5. quality # "degraded" BY <4>2, <4>4, <5>4
        <5> QED BY <4>2, <4>4, <5>5
      <4> QED BY <3>3, <4>3, <4>4 DEF GraphInTurn
    <3>8. RowChanges(d)
      BY <2>0, <3>3, <3>5, <3>6, <3>7 DEF RowChanges
    <3>9. RowsStep
      <4>1. \A e \in Docs \ {d} : RowRests(e) /\ task'[e] = task[e] BY <2>t, <3>1, <3>2 DEF RowRests
      <4>2. task' = [e \in Docs |-> task'[e]] /\ graph' = [e \in Docs |-> graph'[e]]
        BY <2>t, <3>1, <3>2
      <4> QED BY <3>5, <3>8, <4>1, <4>2 DEF RowsStep
    <3>10. LedgerStep BY <3>6 DEF LedgerStep, LiftedByRetry
    <3>11. LetsGo(w)
      <4>1. thread'[w].pc \in {"done", "ready"}
        BY <1>o, <3>2 DEF Goto, ThreadsOk, ThreadOk, Fields
      <4> QED BY <2>0, <3>5, <4>1 DEF LetsGo, Claiming
    <3> QED BY <1>a, <1>t, <3>9, <3>10, <3>11 DEF Effects
  <2>2. CASE ~Held(d, w)
    <3>1. Goto(w, "ended") /\ UNCHANGED <<task, graph, ledger>> BY <1>8, <2>2 DEF Publish
    <3>2. Keeps(w) BY <1>o, <1>f, <2>0, <2>2, <3>1, GoingOn DEF Claiming
    <3> QED BY <1>a, <1>r, <1>l, <1>t, <3>1, <3>2 DEF Effects
  <2> QED BY <2>1, <2>2
<1>9. CASE MarkOperationsReady(w)
  <2> DEFINE m == t.gw.model
  <2>0. t.pc = "ready" /\ UNCHANGED <<task, graph>> /\ Goto(w, "done")
    BY <1>9 DEF MarkOperationsReady
  <2>p. PICK parent : parent = Ledger!MarkResultReady(ledger, Relations(m), t.scope) OBVIOUS
  <2>b. PICK both : both = Ledger!MarkResultReady(parent, Repair(m), t.scope) OBVIOUS
  <2>l. ledger' \in {parent, both} BY <1>9, <2>p, <2>b DEF MarkOperationsReady
  <2>1. m \in Models /\ t.scope \in Scopes \cup {None}
    BY <1>o, <2>0 DEF ThreadOk, HasGateway, Working, IsGateway
  <2>2. Relations(m) \in TaskContracts /\ Repair(m) \in TaskContracts BY <2>1 DEF TaskContracts
  <2>3. /\ parent \in Ledger!Ledgers /\ parent.permits \subseteq ledger.permits
        /\ \A x : Traced(parent, x) => Traced(ledger, x)
        /\ parent.suspended \subseteq ledger.suspended
        /\ \A e \in ledger.suspended \ parent.suspended : <<e, t.scope>> \in ledger.permits
    <3>0. ledger \in Ledger!Ledgers BY DEF Shapes
    <3>1. /\ parent \in Ledger!Ledgers /\ parent.permits \subseteq ledger.permits
          /\ \A x : Traced(parent, x) => Traced(ledger, x)
          /\ parent.suspended \subseteq ledger.suspended
          /\ \A e \in ledger.suspended \ parent.suspended :
                e = Relations(m) /\ <<Relations(m), t.scope>> \in ledger.permits
      BY <2>1, <2>2, <2>p, <3>0, Readying
    <3> QED BY <3>1
  <2>4. /\ both \in Ledger!Ledgers /\ both.permits \subseteq parent.permits
        /\ \A x : Traced(both, x) => Traced(parent, x)
        /\ both.suspended \subseteq parent.suspended
        /\ \A e \in parent.suspended \ both.suspended : <<e, t.scope>> \in parent.permits
    <3>1. /\ both \in Ledger!Ledgers /\ both.permits \subseteq parent.permits
          /\ \A x : Traced(both, x) => Traced(parent, x)
          /\ both.suspended \subseteq parent.suspended
          /\ \A e \in parent.suspended \ both.suspended :
                e = Repair(m) /\ <<Repair(m), t.scope>> \in parent.permits
      BY <2>1, <2>2, <2>3, <2>b, Readying
    <3> QED BY <3>1
  <2>5. LedgerStep BY <2>0, <2>l, <2>3, <2>4 DEF LedgerStep, LiftedByRetry
  <2>6. LetsGo(w)
    <3>1. thread'[w].pc = "done" BY <1>o, <2>0 DEF Goto, ThreadsOk, ThreadOk, Fields
    <3> QED BY <2>0, <3>1 DEF LetsGo, Claiming
  <2> QED BY <1>a, <1>r, <1>t, <2>0, <2>5, <2>6 DEF Effects
<1>10. CASE DatabaseError(w)
  <2>0. UNCHANGED <<task, graph, ledger>> BY <1>10 DEF DatabaseError, store
  <2>1. CASE t.pc \in {"list", "claim", "check", "after"} /\ Goto(w, "final")
    <3>1. thread'[w].pc = "final" BY <1>o, <2>1 DEF Goto, ThreadsOk, ThreadOk, Fields
    <3>2. LetsGo(w) BY <1>10, <3>1 DEF LetsGo, DatabaseError, Claiming
    <3> QED BY <1>a, <1>r, <1>l, <1>t, <2>0, <3>2 DEF Effects
  <2>2. CASE t.pc \in {"extract", "dispatch", "calling", "publish"} /\ Failed(w)
    <3>1. Keeps(w) BY <1>f, <1>o, <2>0, <2>2, FailingOn DEF Claiming
    <3> QED BY <1>a, <1>r, <1>l, <1>t, <2>0, <3>1 DEF Effects
  <2> QED BY <1>10, <2>1, <2>2 DEF DatabaseError
<1> QED
  BY <1>1, <1>2, <1>3, <1>4, <1>5, <1>6, <1>7, <1>8, <1>9, <1>10 DEF WorkerStep


\* A permit is revoked under its scope only, and None is no scope.
LEMMA AdmittedStill ==
    ASSUME GraphAssumption, NEW l \in Ledger!Ledgers, NEW s, NEW c, NEW x, x # s \/ x = None,
           NEW m, m = Ledger!Revoke(l, s), Ledger!DispatchAdmitted(l, c, x)
    PROVE  Ledger!DispatchAdmitted(m, c, x)
<1>1. CASE x # s BY <1>1, Revoking
<1>2. CASE x = None
  <2>1. c \notin l.suspended BY <1>2, NoneIsNotPermitted
  <2>2. m.suspended = l.suspended BY Revoking
  <2> QED BY <2>1, <2>2 DEF Ledger!DispatchAdmitted
<1> QED BY <1>1, <1>2

\* A start installs a gateway and wakes an idle thread: no claim is touched.
LEMMA StartEffects ==
    ASSUME Shapes, ClaimsInv, NEW g, IsGateway(g),
           \/ Start(g, thread)
           \/ \E w \in Workers : thread[w].pc = "restart" /\ Start(g, [thread EXCEPT ![w] = Idle]),
           UNCHANGED <<registry, env, active, task, graph, ledger>>, cancelled' \subseteq cancelled
    PROVE  Effects
<1>0. ThreadsOk(thread) BY DEF Shapes
<1>1. \A u \in Workers : \/ thread'[u] = thread[u]
                         \/ thread[u].pc \notin Claiming /\ thread'[u].pc \notin Claiming
  <2>1. CASE Start(g, thread)
    <3>1. \A u \in Workers : \/ thread'[u] = thread[u]
                             \/ thread[u].pc = "idle" /\ thread'[u].pc = "top"
      BY <1>0, <2>1, Starting
    <3> QED BY <3>1 DEF Claiming
  <2>2. ASSUME NEW w \in Workers, thread[w].pc = "restart", Start(g, [thread EXCEPT ![w] = Idle])
        PROVE  \A u \in Workers : \/ thread'[u] = thread[u]
                                  \/ thread[u].pc \notin Claiming /\ thread'[u].pc \notin Claiming
    <3> DEFINE threads == [thread EXCEPT ![w] = Idle]
    <3>1. ThreadsOk(threads) BY <1>0, IdleOk DEF ThreadsOk
    <3>2. /\ threads[w].pc = "idle" /\ \A u \in Workers \ {w} : threads[u] = thread[u]
      BY <1>0 DEF ThreadsOk, Idle
    <3>3. Start(g, threads) BY <2>2
    <3> HIDE DEF threads
    <3>4. \A u \in Workers : \/ thread'[u] = threads[u]
                             \/ threads[u].pc = "idle" /\ thread'[u].pc = "top"
      BY <3>1, <3>3, Starting
    <3> QED BY <2>2, <3>2, <3>4 DEF Claiming
  <2> QED BY <2>1, <2>2
<1>2. ThreadsStep BY <1>1, BystandersKeep
<1> QED BY <1>2, RestingStore, RestingLedger, RestingAside DEF Effects

\* A reading of a row by its claim: it is the row of the document.
LEMMA ClaimScope ==
    ASSUME ClaimsInv, NEW u \in Workers, thread[u].pc \in Claiming, Held(thread[u].doc, u)
    PROVE  thread[u].scope = task[thread[u].doc].scope
  BY DEF ClaimsInv, ClaimOk

\* An analysis ends every claim on the candidates that it replaces.
LEMMA AnalysedEffects ==
    ASSUME GraphAssumption, Shapes, RowsInv, ClaimsInv, NEW d \in Docs, NEW empty \in BOOLEAN,
           Analysed(d, empty)
    PROVE  Effects
<1>1. /\ registry' = [registry EXCEPT ![d] = [gen |-> @.gen + 1, empty |-> empty]]
      /\ registry[d].gen < MaxCandidates
      /\ registry[d].gen > 0 => "reanalysis" \in env
      /\ UNCHANGED <<task, graph, ledger, cancelled, active, thread, env>>
  BY DEF Analysed, Event
<1>2. /\ registry \in [Docs -> Registries] /\ task \in [Docs -> TaskRows] /\ ThreadsOk(thread)
      /\ 0..MaxCandidates \subseteq Nat /\ MaxCandidates \in Nat
  BY DEF Shapes, GraphAssumption
<1>3. registry[d] \in Registries /\ registry[d].gen \in 0..MaxCandidates BY <1>2 DEF Registries
<1>4. /\ registry'[d] = [gen |-> registry[d].gen + 1, empty |-> empty]
      /\ \A e \in Docs \ {d} : registry'[e] = registry[e]
  BY <1>1, <1>2
<1>5. registry'[d] \in Registries /\ registry'[d].gen = registry[d].gen + 1
  BY <1>1, <1>2, <1>3, <1>4 DEF Registries
<1>6. AsideStep
  <2>1. registry' \in [Docs -> Registries] BY <1>1, <1>2, <1>4, <1>5
  <2>2. \A e \in Docs : registry[e].gen <= registry'[e].gen
    <3>1. \A e \in Docs : registry[e].gen \in Nat BY <1>2 DEF Registries
    <3> QED BY <1>4, <1>5, <3>1
  <2>3. \A e \in Docs : "reanalysis" \notin env /\ registry[e].gen <= 1 => registry'[e].gen <= 1
    BY <1>1, <1>3, <1>4, <1>5
  <2> QED BY <1>1, <2>1, <2>2, <2>3 DEF AsideStep
<1>7. ThreadsStep
  <2> SUFFICES ASSUME NEW u \in Workers PROVE Keeps(u) \/ LetsGo(u) BY DEF ThreadsStep
  <2>1. CASE thread[u].pc \notin Claiming BY <1>1, <2>1 DEF LetsGo
  <2>2. CASE thread[u].pc \in Claiming
    <3>1. thread[u].doc \in Docs BY <1>2, <2>2 DEF ThreadsOk, ThreadOk, HasDocument
    <3>2. Held(thread[u].doc, u)' => thread[u].doc # d
      <4>1. task[d].gen <= registry[d].gen /\ task[d].gen \in 0..MaxCandidates
        BY <1>2 DEF RowsInv, RowOk, TaskRows
      <4>2. task[d].gen # registry'[d].gen BY <1>2, <1>3, <1>5, <4>1
      <4> QED BY <1>1, <4>2 DEF Held
    <3>3. Held(thread[u].doc, u)' => Held(thread[u].doc, u) /\ registry'[thread[u].doc] = registry[thread[u].doc]
      BY <1>1, <1>4, <3>1, <3>2 DEF Held
    <3>4. registry'[thread[u].doc] = registry[thread[u].doc] /\ Admitted(u) => Admitted(u)'
      BY <1>1 DEF Admitted, MayDispatch
    <3> QED BY <1>1, <2>2, <3>3, <3>4, Bystander
  <2> QED BY <2>1, <2>2
<1> QED BY <1>1, <1>6, <1>7, RestingStore, RestingLedger DEF Effects

\* What a request that writes the row of one document, in a state nobody holds, does to the
\* threads: the permits they were admitted by are another's.
LEMMA OneRowWritten ==
    ASSUME GraphAssumption, Shapes, RowsInv, ClaimsInv, NEW d \in Docs,
           task'[d].status # "running", \A e \in Docs \ {d} : task'[e] = task[e],
           UNCHANGED <<registry, thread>>,
           \A e \in Docs \ {d} : e \notin cancelled => e \notin cancelled',
           NEW granted \in Ledger!Ledgers,
           \A c, x : Ledger!DispatchAdmitted(ledger, c, x) => Ledger!DispatchAdmitted(granted, c, x),
           ledger' \in {granted, Ledger!Revoke(granted, task[d].scope)}
    PROVE  ThreadsStep
<1> SUFFICES ASSUME NEW u \in Workers PROVE Keeps(u) \/ LetsGo(u) BY DEF ThreadsStep
<1> DEFINE e == thread[u].doc
<1>0. ThreadsOk(thread) /\ task \in [Docs -> TaskRows] BY DEF Shapes
<1>1. CASE thread[u].pc \notin Claiming BY <1>1 DEF LetsGo
<1>2. CASE thread[u].pc \in Claiming
  <2>1. e \in Docs BY <1>0, <1>2 DEF ThreadsOk, ThreadOk, HasDocument
  <2>2. Held(e, u)' => e # d /\ Held(e, u) BY <2>1 DEF Held
  <2>3. ASSUME Held(e, u)', Admitted(u) PROVE Admitted(u)'
    <3>1. e # d /\ thread[u].scope = task[e].scope BY <1>2, <2>2, <2>3, ClaimScope
    <3>2. task[e].scope # task[d].scope \/ task[e].scope = None BY <2>1, <3>1 DEF RowsInv
    <3>3. ASSUME NEW c, Ledger!DispatchAdmitted(ledger, c, thread[u].scope)
          PROVE  Ledger!DispatchAdmitted(ledger', c, thread[u].scope)
      <4>1. Ledger!DispatchAdmitted(granted, c, thread[u].scope) BY <3>3
      <4> QED BY <3>1, <3>2, <4>1, AdmittedStill
    <3> QED BY <2>3, <3>3 DEF Admitted, MayDispatch
  <2> QED BY <1>2, <2>1, <2>2, <2>3, Bystander
<1> QED BY <1>1, <1>2

\* The import queues the task of its document, once for the same candidates.
LEMMA QueueEffects ==
    ASSUME GraphAssumption, Shapes, RowsInv, ClaimsInv, QueueTask
    PROVE  Effects
<1> DEFINE d == importer.doc  m == importer.gw.model
<1>1. /\ importer # None /\ task' = [task EXCEPT ![d] = Queued(d, m)]
      /\ UNCHANGED <<registry, graph, ledger, cancelled, active, thread, env>>
  BY DEF QueueTask, documents, quiet
<1>2. /\ d \in Docs /\ m \in Models /\ registry[d].gen > 0
      /\ task \in [Docs -> TaskRows] /\ ledger \in Ledger!Ledgers
  BY <1>1 DEF Shapes, IsGateway
<1>3. task'[d] = Queued(d, m) /\ \A e \in Docs \ {d} : task'[e] = task[e] BY <1>1, <1>2
<1>4. CASE Queued(d, m) = task[d]
  <2>1. UNCHANGED task BY <1>1, <1>2, <1>4
  <2> QED BY <1>1, <2>1, BystandersKeep, RestingStore, RestingLedger, RestingAside DEF Effects
<1>5. CASE Queued(d, m) # task[d]
  <2> DEFINE new == [NoTask EXCEPT !.status = "pending", !.gen = registry[d].gen, !.model = m,
                                   !.reason = "initial"]
  <2>1. task'[d] = new /\ (task[d].status = "none" \/ task[d].gen # registry[d].gen)
    BY <1>3, <1>5 DEF Queued
  <2>2. /\ new.status = "pending" /\ new.token = None /\ new.scope = None
        /\ new.gen = registry[d].gen /\ new.reason = "initial"
    BY DEF NoTask
  <2>3. task'[d] \in TaskRows BY <1>2, <1>3, RowsTyped
  <2>4. task[d].scope = None \/ "reanalysis" \in env
    <3>1. CASE task[d].status = "none" BY <1>2, <3>1 DEF RowsInv, RowOk
    <3>2. CASE task[d].status # "none"
      <4>1. /\ task[d].gen <= registry[d].gen /\ task[d].gen > 0
            /\ "reanalysis" \notin env => registry[d].gen <= 1
        BY <1>2, <3>2 DEF RowsInv, RowOk
      <4>2. task[d].gen \in 0..MaxCandidates /\ registry[d].gen \in 0..MaxCandidates /\ MaxCandidates \in Nat
        BY <1>2 DEF Shapes, TaskRows, Registries, GraphAssumption
      <4> QED BY <2>1, <3>2, <4>1, <4>2
    <3> QED BY <3>1, <3>2
  <2> HIDE DEF new
  <2>5. RowChanges(d) BY <1>1, <1>2, <2>1, <2>2, <2>3, <2>4 DEF RowChanges, GraphInTurn, Shapes
  <2>6. RowsStep
    <3>1. \A e \in Docs : RowRests(e) \/ RowChanges(e) BY <1>1, <1>3, <2>5 DEF RowRests
    <3>2. task' = [e \in Docs |-> task'[e]] /\ graph' = [e \in Docs |-> graph'[e]]
      BY <1>1, <1>2 DEF Shapes
    <3> QED BY <1>3, <2>1, <2>2, <3>1, <3>2 DEF RowsStep
  <2>7. ThreadsStep BY <1>1, <1>2, <1>3, <2>1, <2>2, OneRowWritten
  <2> QED BY <1>1, <2>6, <2>7, RestingLedger, RestingAside DEF Effects
<1> QED BY <1>4, <1>5


\* A retry writes the row over with a fresh scope, grants its permits and revokes the old ones.
LEMMA RetryEffects ==
    ASSUME GraphAssumption, Shapes, RowsInv, ClaimsInv, NEW d \in Docs, Retry(d)
    PROVE  Effects
<1>1. PICK scope : scope = CHOOSE s \in FreeScopes : TRUE OBVIOUS
<1> DEFINE new == [NoTask EXCEPT !.status = "pending", !.gen = registry[d].gen,
                                 !.model = settings, !.reason = "explicit_retry",
                                 !.scope = scope]
           pair == {Relations(settings), Repair(settings)}
<1>2. PICK granted : granted = Ledger!Authorize(ledger, pair, scope) OBVIOUS
<1>3. /\ task' = [task EXCEPT ![d] = new] /\ ledger' = Ledger!Revoke(granted, task[d].scope)
      /\ registry[d].gen # 0 /\ FreeScopes # {}
      /\ UNCHANGED <<registry, graph, cancelled, active, thread, env>>
  BY <1>1, <1>2 DEF Retry, Event, documents
<1>4. /\ task \in [Docs -> TaskRows] /\ ledger \in Ledger!Ledgers /\ settings \in Models
      /\ registry[d].gen \in 0..MaxCandidates /\ MaxCandidates \in Nat
  BY DEF Shapes, Registries, GraphAssumption
<1>5. scope \in FreeScopes BY <1>1, <1>3
<1>6. scope \in Scopes /\ scope # None /\ scope \notin ScopesOf(task, Docs)
  BY <1>5 DEF FreeScopes, GraphAssumption
<1>7. pair \in SUBSET TaskContracts BY <1>4 DEF TaskContracts
<1>8. /\ granted \in Ledger!Ledgers /\ granted.suspended = ledger.suspended
      /\ \A x : Traced(granted, x) => Traced(ledger, x) \/ x = scope
      /\ \A c, x : Ledger!DispatchAdmitted(ledger, c, x) => Ledger!DispatchAdmitted(granted, c, x)
  BY <1>2, <1>4, <1>6, <1>7, Authorizing
<1>9. /\ ledger' \in Ledger!Ledgers /\ ledger'.suspended = granted.suspended
      /\ \A x : Traced(ledger', x) => Traced(granted, x) /\ x # task[d].scope
  BY <1>3, <1>8, Revoking
<1>10. task'[d] = new /\ \A e \in Docs \ {d} : task'[e] = task[e] BY <1>3, <1>4
<1>11. task'[d] \in TaskRows
  <2>1. new \in TaskRows BY <1>4, <1>6, RowsTyped
  <2> HIDE DEF new
  <2> QED BY <1>10, <2>1
<1>12. /\ new.status = "pending" /\ new.token = None /\ new.scope = scope
       /\ new.gen = registry[d].gen /\ new.reason = "explicit_retry"
  BY DEF NoTask
<1> HIDE DEF new
<1>13. RowChanges(d)
  <2>1. registry[d].gen > 0 BY <1>3, <1>4
  <2> QED BY <1>3, <1>9, <1>10, <1>11, <1>12, <2>1 DEF RowChanges, GraphInTurn, Shapes
<1>14. RowsStep
  <2>1. \A e \in Docs : RowRests(e) \/ RowChanges(e) BY <1>3, <1>10, <1>13 DEF RowRests
  <2>2. task' = [e \in Docs |-> task'[e]] /\ graph' = [e \in Docs |-> graph'[e]]
    BY <1>3, <1>4 DEF Shapes
  <2> QED BY <1>6, <1>10, <1>12, <2>1, <2>2 DEF RowsStep
<1>15. LedgerStep
  <2>1. scope \in ScopesOf(task', Docs) BY <1>6, <1>10, <1>12 DEF ScopesOf
  <2> QED BY <1>8, <1>9, <2>1 DEF LedgerStep, LiftedByRetry
<1>16. ThreadsStep BY <1>3, <1>8, <1>10, <1>12, OneRowWritten
<1> QED BY <1>3, <1>14, <1>15, <1>16, RestingAside DEF Effects

\* A cancelled task waits for the user, whoever was working on it.
LEMMA CancelEffects ==
    ASSUME GraphAssumption, Shapes, RowsInv, ClaimsInv, NEW d \in Docs, Cancel(d)
    PROVE  Effects
<1>1. /\ task' = [task EXCEPT ![d] = Interrupted(@)]
      /\ ledger' = Ledger!Revoke(ledger, task[d].scope)
      /\ cancelled' = cancelled \cup {d} /\ task[d].status \in {"pending", "running"}
      /\ UNCHANGED <<registry, graph, active, thread, env>>
  BY DEF Cancel, Event, documents, Unfinished
<1>2. task \in [Docs -> TaskRows] /\ ledger \in Ledger!Ledgers BY DEF Shapes
<1>3. task'[d] = Closed(task[d], "pending", "interrupted")
      /\ \A e \in Docs \ {d} : task'[e] = task[e]
  BY <1>1, <1>2 DEF Interrupted
<1>4. /\ task'[d] \in TaskRows /\ task'[d].status = "pending" /\ task'[d].gen = task[d].gen
      /\ task'[d].scope = None /\ task'[d].token = None
  BY <1>3, Closing
<1>5. /\ ledger' \in Ledger!Ledgers /\ ledger'.suspended = ledger.suspended
      /\ \A x : Traced(ledger', x) => Traced(ledger, x) /\ x # task[d].scope
  BY <1>1, <1>2, Revoking
<1>6. RowChanges(d) BY <1>1, <1>4, <1>5 DEF RowChanges, GraphInTurn, Shapes
<1>7. RowsStep
  <2>1. \A e \in Docs : RowRests(e) \/ RowChanges(e) BY <1>1, <1>3, <1>6 DEF RowRests
  <2>2. task' = [e \in Docs |-> task'[e]] /\ graph' = [e \in Docs |-> graph'[e]]
    BY <1>1, <1>2 DEF Shapes
  <2> QED BY <1>3, <1>4, <2>1, <2>2 DEF RowsStep
<1>8. LedgerStep BY <1>5 DEF LedgerStep, LiftedByRetry
<1>9. ThreadsStep BY <1>1, <1>2, <1>3, <1>4, OneRowWritten
<1> QED BY <1>1, <1>7, <1>8, <1>9, RestingAside DEF Effects

\* Opened again, or left for another: no row is held afterwards, and no permit is without one.
LEMMA OpenEffects ==
    ASSUME GraphAssumption, Shapes, RowsInv, ClaimsInv, NEW opened \in BOOLEAN, Open(opened)
    PROVE  Effects
<1>1. /\ task' = Recovered /\ thread' = Outdated
      /\ ledger' = IF opened THEN Ledger!DiscardPermits(ledger)
                             ELSE Ledger!RevokeAll(ledger, ScopesOf(task, Unfinished))
      /\ UNCHANGED <<registry, graph, cancelled, env>>
  BY DEF Open, Event, documents, requests
<1>2. task \in [Docs -> TaskRows] /\ ledger \in Ledger!Ledgers /\ ThreadsOk(thread) BY DEF Shapes
<1>3. \A d \in Docs : \/ d \notin Unfinished /\ task'[d] = task[d]
                      \/ d \in Unfinished /\ task'[d] = Closed(task[d], "pending", "interrupted")
  BY <1>1 DEF Recovered, Interrupted
<1>4. ASSUME NEW d \in Unfinished
      PROVE  /\ task'[d] \in TaskRows /\ task'[d].status = "pending" /\ task'[d].gen = task[d].gen
             /\ task'[d].scope = None /\ task'[d].token = None
  BY <1>3, Closing DEF Unfinished
<1>5. /\ ledger' \in Ledger!Ledgers /\ ledger'.suspended = ledger.suspended
      /\ \A x : Traced(ledger', x) => Traced(ledger, x) /\ x \notin ScopesOf(task, Unfinished)
  BY <1>1, <1>2, Discarding, RevokingAll
<1>6. ASSUME NEW d \in Unfinished PROVE RowChanges(d)
  <2>1. task[d].scope = None \/ ~Traced(ledger', task[d].scope) BY <1>5 DEF ScopesOf
  <2> QED BY <1>1, <1>4, <2>1 DEF RowChanges, GraphInTurn, Shapes, Unfinished
<1>7. RowsStep
  <2>1. \A e \in Docs : RowRests(e) \/ RowChanges(e) BY <1>1, <1>3, <1>6 DEF RowRests
  <2>2. task' = [e \in Docs |-> task'[e]] /\ graph' = [e \in Docs |-> graph'[e]]
    BY <1>1, <1>2 DEF Shapes, Recovered
  <2>3. \A e \in Docs : task'[e].scope \in {None, task[e].scope} BY <1>3, <1>4
  <2> QED BY <2>1, <2>2, <2>3 DEF RowsStep
<1>8. LedgerStep BY <1>5 DEF LedgerStep, LiftedByRetry
<1>9. \A d \in Docs : task'[d].status # "running"
  BY <1>3, <1>4 DEF Unfinished
<1>10. ThreadsStep
  <2> SUFFICES ASSUME NEW u \in Workers PROVE Keeps(u) \/ LetsGo(u) BY DEF ThreadsStep
  <2>1. /\ thread'[u].pc = thread[u].pc /\ thread'[u].doc = thread[u].doc
        /\ thread'[u].scope = thread[u].scope /\ thread'[u].gw = thread[u].gw
        /\ thread'[u].error = thread[u].error
    BY <1>1, <1>2 DEF Outdated, ThreadsOk, ThreadOk, Fields
  <2>2. CASE thread[u].pc \notin Claiming BY <2>1, <2>2 DEF LetsGo
  <2>3. CASE thread[u].pc \in Claiming
    <3>1. thread[u].doc \in Docs BY <1>2, <2>3 DEF ThreadsOk, ThreadOk, HasDocument
    <3>2. ~Held(thread[u].doc, u)' BY <1>9, <2>1, <3>1 DEF Held
    <3> QED BY <2>1, <2>3, <3>2, Bystander
  <2> QED BY <2>2, <2>3
<1> QED BY <1>1, <1>7, <1>8, <1>9, <1>10, RestingAside DEF Effects

\* After a crash nothing is in memory, and the knowledge base is closed.
LEMMA CrashEffects ==
    ASSUME Shapes, Crash
    PROVE  Effects
<1>1. UNCHANGED <<registry, task, graph, ledger, env>> /\ ~active'
  BY DEF Crash, documents, store, Event
<1>2. \A u \in Workers : LetsGo(u) BY DEF Crash, LetsGo, Idle, Claiming
<1> QED BY <1>1, <1>2, RestingStore, RestingLedger, RestingAside DEF Effects, ThreadsStep

\* Every step is one of the few kinds that Effects lists.
LEMMA NextEffects ==
    ASSUME GraphAssumption, Shapes, RowsInv, ClaimsInv, GatewaysInv, OneWorker, Next
    PROVE  Effects
<1>1. ASSUME NEW w \in Workers, WorkerStep(w) PROVE Effects
  <2>1. CASE Restart(w)
    <3>1. IsGateway(thread[w].gw) /\ thread[w].pc = "restart"
      BY <2>1 DEF Restart, Shapes, ThreadsOk, ThreadOk, HasGateway
    <3>2. /\ Start(thread[w].gw, [thread EXCEPT ![w] = Idle])
          /\ UNCHANGED <<registry, env, active, task, graph, ledger, cancelled>>
      BY <2>1 DEF Restart, documents, store, requests, quiet
    <3> QED BY <3>1, <3>2, StartEffects
  <2> QED BY <1>1, <2>1, WorkerEffects
<1>2. ASSUME NEW d \in Docs, DocumentStep(d) PROVE Effects
  <2>1. CASE ChangeAvailability(d)
    <3>1. UNCHANGED <<registry, task, graph, ledger, cancelled, active, thread, env>>
      BY <2>1 DEF ChangeAvailability, Event, requests
    <3> QED BY <3>1, BystandersKeep, RestingStore, RestingLedger, RestingAside DEF Effects
  <2> QED BY <1>2, <2>1, AnalysedEffects, RetryEffects, CancelEffects DEF DocumentStep
<1>3. CASE StartAfterAnalysis \/ RetryStart
  <2>1. PICK g : IsGateway(g) /\ Start(g, thread) BY <1>3 DEF StartAfterAnalysis, RetryStart, Shapes
  <2>2. /\ UNCHANGED <<registry, env, active, task, graph, ledger>> /\ cancelled' \subseteq cancelled
    BY <1>3 DEF StartAfterAnalysis, RetryStart, documents, store, quiet
  <2> QED BY <2>1, <2>2, StartEffects
<1>4. CASE VerifySettings \/ \E m \in Models : SaveSettings(m)
  <2>1. UNCHANGED <<registry, task, graph, ledger, cancelled, active, thread, env>>
    BY <1>4 DEF VerifySettings, SaveSettings, Event, requests, store, documents
  <2> QED BY <2>1, BystandersKeep, RestingStore, RestingLedger, RestingAside DEF Effects
<1> QED
  BY <1>1, <1>2, <1>3, <1>4, QueueEffects, CrashEffects, OpenEffects DEF Next, EngineStep


-----------------------------------------------------------------------------
(* The gateways, the threads and the rest.                                 *)

\* A new gateway is for the model that is configured.
LEMMA NewGatewayModel == \A m : NewGateway(m).model = m
  BY DEF NewGateway

\* Who works is told by the points of the threads alone.
LEMMA SameWorkers ==
    ASSUME NEW threads, NEW reg, OneWorkerIn(threads, reg), NEW others,
           \A w \in Workers : others[w].pc \in Working <=> threads[w].pc \in Working
    PROVE  OneWorkerIn(others, reg)
  BY DEF OneWorkerIn

\* A start registers a thread only when none is registered, and its gateway has the model of
\* the one it was given or of the one that was there.
LEMMA StartKeeps ==
    ASSUME NEW g, IsGateway(g), NEW threads, ThreadsOk(threads), OneWorkerIn(threads, registered),
           Start(g, threads)
    PROVE  /\ OneWorker' /\ ThreadsOk(thread') /\ gateway' \in {gateway, g}
           /\ \A w \in Workers : thread'[w].pc \in HasGateway => thread'[w] = threads[w]
<1>1. /\ ThreadsOk(thread') /\ gateway' \in {gateway, g}
      /\ \A w \in Workers : thread'[w] = threads[w] \/ thread'[w].pc = "top"
  BY Starting
<1>2. OneWorker'
  <2>1. CASE ~active \/ g.model \notin verified BY <2>1 DEF Start, memory, OneWorker
  <2>2. CASE ~(~active \/ g.model \notin verified) /\ registered
    BY <2>2 DEF Start, OneWorker, OneWorkerIn
  <2>3. CASE ~(~active \/ g.model \notin verified) /\ ~registered
    <3>1. PICK u \in Workers : thread' = [threads EXCEPT ![u] = [Idle EXCEPT !.pc = "top"]]
      BY <2>3 DEF Start
    <3>2. registered' = TRUE BY <2>3 DEF Start
    <3>3. thread'[u].pc = "top" /\ \A v \in Workers \ {u} : thread'[v] = threads[v]
      BY <3>1 DEF ThreadsOk, Idle
    <3>4. \A v \in Workers \ {u} : thread'[v].pc \notin Working BY <2>3, <3>3 DEF OneWorkerIn
    <3>5. "top" \in Working BY DEF Working
    <3> QED BY <3>2, <3>3, <3>4, <3>5 DEF OneWorker, OneWorkerIn
  <2> QED BY <2>1, <2>2, <2>3
<1>3. "top" \notin HasGateway BY DEF HasGateway
<1> QED BY <1>1, <1>2, <1>3

\* Nothing but the settings, and a failure that concerns the model itself, touches the model.
LEMMA ModelsStay ==
    ASSUME Next, Calm, settings \in verified
    PROVE  settings' = settings /\ settings' \in verified'
<1>1. ASSUME NEW w \in Workers, WorkerStep(w) PROVE UNCHANGED settings /\ settings \in verified'
  <2>1. CASE CallFails(w)
    <3>1. PICK failure \in env \cap Ledger!CallFailures :
             verified' = IF Ledger!InvalidatesModel(ledger, Contract(w), failure)
                         THEN verified \ {thread[w].gw.model} ELSE verified
      BY <2>1 DEF CallFails
    <3>2. ~Ledger!InvalidatesModel(ledger, Contract(w), failure)
      BY <3>1 DEF Calm, Ledger!InvalidatesModel
    <3>3. UNCHANGED settings BY <2>1 DEF CallFails
    <3> QED BY <3>1, <3>2, <3>3
  <2>2. CASE ~CallFails(w)
    <3>1. UNCHANGED <<settings, verified>>
      BY <1>1, <2>2 DEF WorkerStep, Top, List, NextDocument, Claim, Check, Extract, Dispatch,
         Answer, Invalid, CallCancelled, Publish, MarkOperationsReady, Done, Ended, After, Release,
         Final, Restart, DatabaseError, aside, models
    <3> QED BY <3>1
  <2> QED BY <2>1, <2>2
<1>2. ASSUME NEW d \in Docs, DocumentStep(d) PROVE UNCHANGED <<settings, verified>>
  BY <1>2 DEF DocumentStep, Analysed, Retry, Cancel, ChangeAvailability, models
<1>3. ASSUME EngineStep PROVE UNCHANGED settings /\ settings \in verified'
  <2>1. ~\E m \in Models : SaveSettings(m) BY DEF SaveSettings, Calm
  <2> QED BY <1>3, <2>1 DEF EngineStep, QueueTask, StartAfterAnalysis, RetryStart, VerifySettings,
                            Crash, Open, models
<1> QED BY <1>1, <1>2, <1>3 DEF Next

\* What the rest of a step does to the threads and the gateways: there is still one worker,
\* and a gateway is the one it was, or a new one for the configured model.
Rest ==
    /\ ThreadsOk(thread') /\ OneWorker'
    /\ gateway' # None =>
          \/ gateway' = gateway
          \/ importer # None /\ gateway' = importer.gw
          \/ retrying # None /\ gateway' = retrying.gw
          \/ \E w \in Workers : thread[w].pc \in HasGateway /\ gateway' = thread[w].gw
    /\ importer' # None =>
          /\ DOMAIN importer' = {"doc", "gw", "queued", "again"} /\ importer'.doc \in Docs
          /\ \/ /\ importer # None /\ importer'.doc = importer.doc
                /\ importer'.gw = importer.gw
             \/ importer'.gw.model = settings /\ registry'[importer'.doc].gen > 0
    /\ retrying' # None => retrying' = retrying \/ retrying'.gw.model = settings
    /\ \A w \in Workers : thread'[w].pc \in HasGateway =>
          \/ thread[w].pc \in HasGateway /\ thread'[w].gw = thread[w].gw
          \/ gateway # None /\ thread'[w].gw = gateway
    /\ available' \subseteq Docs /\ DOMAIN latest' = Docs /\ settings' \in Models

\* The steps of a worker keep one worker registered, and hand on the gateways that are there.
LEMMA WorkerRest ==
    ASSUME GraphAssumption, Shapes, OneWorker, NEW w \in Workers, WorkerStep(w)
    PROVE  Rest
<1>1. UNCHANGED <<available, settings, importer, retrying>> BY WorkerFrame
<1>2. DOMAIN latest' = Docs
  <2>1. CASE Publish(w)
    <3>1. \/ UNCHANGED latest
          \/ \E quality : latest' = [latest EXCEPT ![thread[w].doc] = quality]
      BY <2>1 DEF Publish
    <3> QED BY <3>1 DEF Shapes
  <2>2. CASE ~Publish(w)
    <3>1. UNCHANGED latest
      BY <2>2 DEF WorkerStep, Top, List, NextDocument, Claim, Check, Extract, Dispatch, Answer,
         Invalid, CallFails, CallCancelled, MarkOperationsReady, Done, Ended, After, Release, Final,
         Restart, DatabaseError, store
    <3> QED BY <3>1 DEF Shapes
  <2> QED BY <2>1, <2>2
<1>3. CASE ~Restart(w)
  <2>1. Moved(w) BY <1>3, WorkerMoves
  <2>2. OneWorker'
    <3>1. "idle" \notin Working /\ "restart" \notin Working BY DEF Working, Claiming
    <3> QED BY <2>1, <3>1 DEF Moved, OneWorker, OneWorkerIn
  <2> QED BY <1>1, <1>2, <2>1, <2>2 DEF Rest, Moved, Shapes
<1>4. CASE Restart(w)
  <2> DEFINE threads == [thread EXCEPT ![w] = Idle]  g == thread[w].gw
  <2>1. thread[w].pc = "restart" /\ Start(g, threads) BY <1>4 DEF Restart
  <2>2. ThreadsOk(thread) /\ IsGateway(g) /\ thread[w].pc \in HasGateway
    BY <2>1 DEF Shapes, ThreadsOk, ThreadOk, HasGateway
  <2>3. /\ ThreadsOk(threads)
        /\ threads[w].pc = "idle" /\ \A u \in Workers \ {w} : threads[u] = thread[u]
    BY <2>2, IdleOk DEF ThreadsOk, Idle
  <2>4. OneWorkerIn(threads, registered)
    <3>1. \A u \in Workers : threads[u].pc \in Working <=> thread[u].pc \in Working
      BY <2>1, <2>3 DEF Working, Claiming
    <3> HIDE DEF threads
    <3> QED BY <3>1, SameWorkers DEF OneWorker
  <2> HIDE DEF threads
  <2>5. /\ OneWorker' /\ ThreadsOk(thread') /\ gateway' \in {gateway, g}
        /\ \A u \in Workers : thread'[u].pc \in HasGateway => thread'[u] = threads[u]
    BY <2>1, <2>2, <2>3, <2>4, StartKeeps
  <2>6. "idle" \notin HasGateway BY DEF HasGateway, Working, Claiming
  <2> QED BY <1>1, <1>2, <2>2, <2>3, <2>5, <2>6 DEF Rest, Shapes
<1> QED BY <1>3, <1>4

\* So do those of the engine and of a document, whose new gateways are for the configured model.
LEMMA OthersRest ==
    ASSUME GraphAssumption, Shapes, OneWorker, EngineStep \/ \E d \in Docs : DocumentStep(d)
    PROVE  Rest
<1>0. ThreadsOk(thread) BY DEF Shapes
<1>t. ASSUME UNCHANGED <<thread, registered, gateway>>
      PROVE  /\ ThreadsOk(thread') /\ OneWorker'
             /\ \A w \in Workers : thread'[w].pc \in HasGateway =>
                   thread[w].pc \in HasGateway /\ thread'[w].gw = thread[w].gw
  BY <1>0, <1>t DEF OneWorker
<1>1. ASSUME NEW d \in Docs, NEW empty \in BOOLEAN, Analysed(d, empty) PROVE Rest
  <2>1. /\ UNCHANGED <<thread, registered, gateway, available, latest, settings, retrying>>
        /\ importer' = [doc |-> d, gw |-> NewGateway(settings), queued |-> FALSE,
                        again |-> registry[d].gen > 0]
        /\ registry' = [registry EXCEPT ![d] = [gen |-> @.gen + 1, empty |-> empty]]
    BY <1>1 DEF Analysed, memory, models
  <2>2. /\ DOMAIN importer' = {"doc", "gw", "queued", "again"}
        /\ importer'.doc = d /\ importer'.gw.model = settings
    BY <2>1, NewGatewayModel
  <2>3. registry'[d].gen > 0
    <3>1. registry[d].gen \in Nat BY DEF Shapes, Registries, GraphAssumption
    <3> QED BY <2>1, <3>1 DEF Shapes
  <2> QED BY <1>t, <2>1, <2>2, <2>3 DEF Rest, Shapes
<1>2. ASSUME NEW d \in Docs, Retry(d) PROVE Rest
  <2>1. /\ UNCHANGED <<thread, registered, gateway, available, latest, settings, importer>>
        /\ retrying' = [doc |-> d, gw |-> NewGateway(settings)]
    BY <1>2 DEF Retry, memory, models, documents
  <2>2. retrying'.gw.model = settings BY <2>1, NewGatewayModel
  <2> QED BY <1>t, <2>1, <2>2 DEF Rest, Shapes
<1>3. ASSUME NEW d \in Docs, Cancel(d) \/ ChangeAvailability(d) PROVE Rest
  <2>1. /\ UNCHANGED <<thread, registered, gateway, latest, settings, importer, retrying>>
        /\ available' \subseteq Docs
    BY <1>3 DEF Cancel, ChangeAvailability, memory, models, documents, requests, Shapes
  <2> QED BY <1>t, <2>1 DEF Rest, Shapes
<1>4. CASE QueueTask
  <2>1. /\ UNCHANGED <<thread, registered, gateway, available, latest, settings, retrying>>
        /\ importer # None /\ importer' = [importer EXCEPT !.queued = TRUE]
    BY <1>4 DEF QueueTask, memory, models, documents
  <2>2. /\ DOMAIN importer' = {"doc", "gw", "queued", "again"}
        /\ importer'.doc = importer.doc /\ importer'.gw = importer.gw
    BY <2>1 DEF Shapes
  <2> QED BY <1>t, <2>1, <2>2 DEF Rest, Shapes
<1>5. CASE StartAfterAnalysis \/ RetryStart
  <2>1. PICK g : /\ IsGateway(g) /\ Start(g, thread)
                 /\ \/ importer # None /\ g = importer.gw
                    \/ retrying # None /\ g = retrying.gw
    BY <1>5 DEF StartAfterAnalysis, RetryStart, Shapes
  <2>2. /\ UNCHANGED <<available, latest, settings>>
        /\ importer' \in {importer, None} /\ retrying' \in {retrying, None}
    BY <1>5 DEF StartAfterAnalysis, RetryStart, documents, store, models
  <2>3. /\ OneWorker' /\ ThreadsOk(thread') /\ gateway' \in {gateway, g}
        /\ \A u \in Workers : thread'[u].pc \in HasGateway => thread'[u] = thread[u]
    BY <1>0, <2>1, StartKeeps DEF OneWorker
  <2> QED BY <2>1, <2>2, <2>3 DEF Rest, Shapes
<1>6. CASE VerifySettings \/ \E m \in Models : SaveSettings(m)
  <2>1. /\ UNCHANGED <<thread, registered, available, latest, importer, retrying>>
        /\ gateway' \in {gateway, None} /\ settings' \in Models
    BY <1>6 DEF VerifySettings, SaveSettings, memory, documents, store, requests, Shapes
  <2>2. /\ ThreadsOk(thread') /\ OneWorker'
        /\ \A w \in Workers : thread'[w].pc \in HasGateway =>
              thread[w].pc \in HasGateway /\ thread'[w].gw = thread[w].gw
    BY <1>0, <2>1 DEF OneWorker
  <2> QED BY <2>1, <2>2 DEF Rest, Shapes
<1>7. CASE \E opened \in BOOLEAN : Open(opened)
  <2>1. /\ UNCHANGED <<registered, gateway, available, latest, settings, importer, retrying>>
        /\ thread' = Outdated
    BY <1>7 DEF Open, memory, models, documents, requests
  <2>2. \A w \in Workers : /\ ThreadOk(thread'[w]) /\ thread'[w].pc = thread[w].pc
                           /\ thread'[w].gw = thread[w].gw
    BY <1>0, <2>1 DEF Outdated, ThreadsOk, ThreadOk, Fields
  <2>3. ThreadsOk(thread') BY <2>1, <2>2 DEF ThreadsOk, Outdated
  <2>4. OneWorker' BY <2>1, <2>2, SameWorkers DEF OneWorker
  <2> QED BY <2>1, <2>2, <2>3, <2>4 DEF Rest, Shapes
<1>8. CASE Crash
  <2>1. /\ thread' = [w \in Workers |-> Idle] /\ registered' = FALSE
        /\ gateway' = None /\ importer' = None /\ retrying' = None
        /\ UNCHANGED <<available, latest, settings>>
    BY <1>8 DEF Crash, documents, store, models
  <2>2. Idle.pc \notin Working /\ Idle.pc \notin HasGateway
    BY DEF Idle, HasGateway, Working, Claiming
  <2>3. ThreadsOk(thread') BY <2>1, IdleOk DEF ThreadsOk
  <2>4. OneWorker' BY <2>1, <2>2 DEF OneWorker, OneWorkerIn
  <2> QED BY <2>1, <2>2, <2>3, <2>4 DEF Rest, Shapes
<1> QED
  BY <1>1, <1>2, <1>3, <1>4, <1>5, <1>6, <1>7, <1>8 DEF DocumentStep, EngineStep

\* The shapes and the models of the gateways are what the effects and the rest make them.
LEMMA RestKeeps ==
    ASSUME GraphAssumption, Shapes, GatewaysInv, Effects, Rest, Next,
           task' \in [Docs -> TaskRows], graph' \in [Docs -> Graphs \cup {None}]
    PROVE  Shapes' /\ GatewaysInv'
<1>n. \A d \in Docs : /\ registry[d].gen \in Nat /\ registry'[d].gen \in Nat
                      /\ registry[d].gen <= registry'[d].gen
  BY DEF Effects, AsideStep, Shapes, Registries, GraphAssumption
<1>1. gateway' # None => IsGateway(gateway')
  BY DEF Rest, Shapes, ThreadsOk, ThreadOk
<1>2. importer' # None =>
         /\ DOMAIN importer' = {"doc", "gw", "queued", "again"}
         /\ importer'.doc \in Docs /\ IsGateway(importer'.gw) /\ registry'[importer'.doc].gen > 0
  <2> SUFFICES ASSUME importer' # None
               PROVE  IsGateway(importer'.gw) /\ registry'[importer'.doc].gen > 0
    BY DEF Rest
  <2>1. CASE importer # None /\ importer'.doc = importer.doc /\ importer'.gw = importer.gw
    BY <1>n, <2>1 DEF Shapes
  <2>2. CASE importer'.gw.model = settings /\ registry'[importer'.doc].gen > 0
    BY <2>2 DEF Shapes, IsGateway
  <2> QED BY <2>1, <2>2 DEF Rest
<1>3. retrying' # None => IsGateway(retrying'.gw) BY DEF Rest, Shapes, IsGateway
<1>4. registry' \in [Docs -> Registries] /\ ledger' \in Ledger!Ledgers
  BY DEF Effects, AsideStep, LedgerStep
<1>5. ThreadsOk(thread') /\ available' \subseteq Docs /\ DOMAIN latest' = Docs /\ settings' \in Models
  BY DEF Rest
<1>6. Shapes' BY <1>1, <1>2, <1>3, <1>4, <1>5 DEF Shapes
<1>7. GatewaysInv'
  <2> SUFFICES ASSUME Calm'
               PROVE  /\ settings' \in verified'
                      /\ gateway' # None => gateway'.model = settings'
                      /\ importer' # None => importer'.gw.model = settings'
                      /\ retrying' # None => retrying'.gw.model = settings'
                      /\ \A w \in Workers : thread'[w].pc \in HasGateway =>
                            thread'[w].gw.model = settings'
    BY DEF GatewaysInv
  <2>1. Calm BY DEF Calm, Effects, AsideStep
  <2>2. settings' = settings /\ settings' \in verified' BY <2>1, ModelsStay DEF GatewaysInv
  <2> QED BY <2>1, <2>2 DEF GatewaysInv, Rest
<1> QED BY <1>6, <1>7

-----------------------------------------------------------------------------
(* The theorems.                                                           *)

\* At first there is no task and no worker.
LEMMA InvariantInit == ASSUME GraphAssumption, Init PROVE IInv
<1>1. settings \in Models /\ settings \in verified BY DEF Init, GraphAssumption
<1>2. NoTask \in TaskRows BY DEF NoTask, TaskRows, GraphAssumption
<1>3. Ledger!EmptyLedger \in Ledger!Ledgers BY DEF Ledger!EmptyLedger, Ledger!Ledgers
<1>4. ThreadsOk(thread) /\ \A w \in Workers : thread[w].pc = "idle"
  BY IdleOk DEF Init, ThreadsOk, Idle
<1>5. registry \in [Docs -> Registries] /\ \A d \in Docs : registry[d].gen = 0
  BY DEF Init, Registries, GraphAssumption
<1>6. gateway = None /\ importer = None /\ retrying = None /\ registered = FALSE BY DEF Init
<1>7. Shapes BY <1>1, <1>2, <1>3, <1>4, <1>5, <1>6 DEF Init, Shapes
<1>8. \A d \in Docs : /\ task[d].status = "none" /\ task[d].gen = 0 /\ task[d].scope = None
                      /\ task[d].token = None
  BY DEF Init, NoTask
<1>9. "idle" \notin Working /\ "idle" \notin Claiming /\ "idle" \notin HasGateway
  BY DEF Working, Claiming, HasGateway
<1>10. RowsInv BY <1>5, <1>8 DEF RowsInv, RowOk
<1>11. ClaimsInv BY <1>4, <1>9 DEF ClaimsInv, ClaimOk
<1>12. GatewaysInv BY <1>1, <1>4, <1>6, <1>9 DEF GatewaysInv
<1>13. OneWorker BY <1>4, <1>6, <1>9 DEF OneWorker, OneWorkerIn
<1>14. PermitsHaveOwner BY DEF Init, PermitsHaveOwner, Ledger!EmptyLedger
<1>15. RunningIsWorkedOn /\ CompletedHasGraph BY <1>8 DEF RunningIsWorkedOn, CompletedHasGraph
<1> QED BY <1>7, <1>10, <1>11, <1>12, <1>13, <1>14, <1>15 DEF IInv

\* Every step keeps the invariant, publishes in turn, and lifts suspensions by retries only.
LEMMA InvariantStep ==
    ASSUME GraphAssumption, IInv, [Next]_vars
    PROVE  IInv' /\ PublishedInTurn /\ LiftedByRetry
<1> USE DEF IInv
<1>1. CASE Next
  <2>1. Effects BY <1>1, NextEffects
  <2>2. Rest BY <1>1, WorkerRest, OthersRest DEF Next
  <2>3. ThreadsOk(thread') /\ OneWorker' BY <2>2 DEF Rest
  <2>4. /\ task' \in [Docs -> TaskRows] /\ graph' \in [Docs -> Graphs \cup {None}]
        /\ RowsInv' /\ ClaimsInv' /\ PermitsHaveOwner' /\ RunningIsWorkedOn'
        /\ CompletedHasGraph' /\ PublishedInTurn
    BY <2>1, <2>3, EffectsKeep
  <2>5. Shapes' /\ GatewaysInv' BY <1>1, <2>1, <2>2, <2>4, RestKeeps
  <2>6. LiftedByRetry BY <2>1 DEF Effects, LedgerStep
  <2> QED BY <2>3, <2>4, <2>5, <2>6
<1>2. CASE UNCHANGED vars
  <2>1. UNCHANGED <<registry, available, task, graph, latest, ledger, settings, verified, active,
                    gateway, registered, cancelled, thread, importer, retrying, env>>
    BY <1>2 DEF vars, aside, documents, models, memory, requests, quiet, store
  <2>2. Shapes' /\ OneWorker' BY <2>1 DEF Shapes, OneWorker
  <2>3. RowsInv' BY <2>1 DEF RowsInv, RowOk
  <2>4. ClaimsInv' BY <2>1 DEF ClaimsInv, ClaimOk, Held, Admitted, MayDispatch, Calm
  <2>5. GatewaysInv' BY <2>1 DEF GatewaysInv, Calm
  <2>6. PermitsHaveOwner' /\ RunningIsWorkedOn' /\ CompletedHasGraph'
    BY <2>1 DEF PermitsHaveOwner, ScopesOf, RunningIsWorkedOn, CompletedHasGraph
  <2>7. PublishedInTurn /\ LiftedByRetry BY <2>1 DEF PublishedInTurn, LiftedByRetry
  <2> QED BY <2>2, <2>3, <2>4, <2>5, <2>6, <2>7
<1> QED BY <1>1, <1>2

\* What the invariant says of each state: a registered worker is one thread, and no permit,
\* running task or graph stands alone (start_knowledge_graph_extractions, _finish).
LEMMA InvariantMeans ==
    ASSUME IInv
    PROVE  TypeOK /\ PermitsHaveOwner /\ RunningIsWorkedOn /\ CompletedHasGraph
<1> DEFINE working == {w \in Workers : thread[w].pc \in Working}
<1>1. Cardinality(working) = IF registered THEN 1 ELSE 0
  <2>1. CASE registered
    <3>1. PICK w \in Workers : thread[w].pc \in Working
      BY <2>1 DEF IInv, OneWorker, OneWorkerIn
    <3>2. working = {w} BY <3>1 DEF IInv, OneWorker, OneWorkerIn
    <3> HIDE DEF working
    <3> QED BY <2>1, <3>2, FS_Singleton
  <2>2. CASE ~registered
    <3>1. working = {} BY <2>2 DEF IInv, OneWorker, OneWorkerIn
    <3> HIDE DEF working
    <3> QED BY <2>2, <3>1, FS_EmptySet
  <2> QED BY <2>1, <2>2
<1>2. /\ task \in [Docs -> TaskRows] /\ ledger \in Ledger!Ledgers
      /\ \A d \in Docs : task[d].status = "running" <=> task[d].token # None
  BY DEF IInv, Shapes, RowsInv, RowOk
<1>3. \A w \in Workers : thread[w].pc \in Working \cup {"idle", "restart"}
  BY DEF IInv, Shapes, ThreadsOk, ThreadOk
<1>4. TypeOK BY <1>1, <1>2, <1>3 DEF TypeOK
<1> QED BY <1>4 DEF IInv

\* The worker, the task rows, the graphs and the ledger fit together at all times.
THEOREM GraphInvariant == ASSUME GraphAssumption PROVE Spec => []IInv
<1>1. Init => IInv BY InvariantInit
<1>2. IInv /\ [Next]_vars => IInv' BY InvariantStep
<1> QED BY <1>1, <1>2, PTL DEF Spec

\* Every variable has its type, and a registered worker is one thread (the registry of
\* start_knowledge_graph_extractions).
THEOREM GraphTypes == ASSUME GraphAssumption PROVE Spec => []TypeOK
<1>1. IInv => TypeOK BY InvariantMeans
<1> QED BY <1>1, GraphInvariant, PTL

\* Without reanalysis, a permit is never left behind by what happens to its task (retry,
\* and every transaction that takes a scope from a row).
THEOREM GraphPermitsHaveOwner == ASSUME GraphAssumption PROVE Spec => []PermitsHaveOwner
<1>1. IInv => PermitsHaveOwner BY DEF IInv
<1> QED BY <1>1, GraphInvariant, PTL

\* Without failures of the database, what counts as running for the current candidates is
\* worked on (_claim_is_active, _finish, _publish_and_complete).
THEOREM GraphRunningIsWorkedOn == ASSUME GraphAssumption PROVE Spec => []RunningIsWorkedOn
<1>1. IInv => RunningIsWorkedOn BY DEF IInv
<1> QED BY <1>1, GraphInvariant, PTL

\* Where the model keeps its verification, a completed task has the graph of its candidates:
\* an extraction that ends without one has lost its row or has failed (extract_document).
THEOREM GraphCompletedHasGraph == ASSUME GraphAssumption PROVE Spec => []CompletedHasGraph
<1>1. IInv => CompletedHasGraph BY DEF IInv
<1> QED BY <1>1, GraphInvariant, PTL

\* A graph is published for the candidates that are current, and a full one is replaced by
\* a full one only (persist_semantic_graph_interpretation_in).
THEOREM GraphPublishedInTurn == ASSUME GraphAssumption PROVE Spec => [][PublishedInTurn]_vars
<1>1. IInv /\ [Next]_vars => [PublishedInTurn]_vars BY InvariantStep
<1> QED BY <1>1, GraphInvariant, PTL DEF Spec

\* A suspension is lifted by the answer of a retry that was permitted for it, whatever
\* calls were under way when the contract was suspended (mark_ready_for_retry).
THEOREM GraphLiftedByRetry == ASSUME GraphAssumption PROVE Spec => [][LiftedByRetry]_vars
<1>1. IInv /\ [Next]_vars => [LiftedByRetry]_vars BY InvariantStep
<1> QED BY <1>1, GraphInvariant, PTL DEF Spec

=============================================================================
