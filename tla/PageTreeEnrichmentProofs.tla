---------------------- MODULE PageTreeEnrichmentProofs ----------------------
(***************************************************************************)
(* The worker of page tree enrichment, for any number of documents, models,*)
(* threads and scopes, and whatever happens around them.                   *)
(*                                                                         *)
(* The row of a task, the ledger of contracts and the worker that holds    *)
(* the task are written in different transactions.  What makes them fit    *)
(* is that a permit has a task row with its scope, whatever becomes of the *)
(* thread; and that a row which is still the claim of a thread has the     *)
(* scope that this thread will revoke.                                     *)
(***************************************************************************)
EXTENDS PageTreeEnrichment, FiniteSetTheorems, TLAPS

Fields == {"pc", "stale", "gw", "todo", "doc", "scope", "repaired"}

\* The points of a worker that has a gateway, and a document.
HasGateway == (Working \cup {"restart"}) \ {"top", "final"}
HasDocument == Claiming \cup {"claim"}

IsGateway(g) == g.model \in Models

ThreadOk(t) ==
    /\ DOMAIN t = Fields
    /\ t.pc \in Working \cup {"idle", "restart"}
    /\ t.doc \in Docs \cup {None} /\ t.scope \in Scopes \cup {None} /\ t.todo \subseteq Docs
    /\ t.pc \in HasGateway => IsGateway(t.gw)
    /\ t.pc \in HasDocument => t.doc \in Docs

ThreadsOk(threads) == DOMAIN threads = Workers /\ \A w \in Workers : ThreadOk(threads[w])

Shapes ==
    /\ tree \in [Docs -> 1..MaxTree] /\ rebuilding \subseteq Docs
    /\ \A d \in rebuilding : tree[d] < MaxTree
    /\ task \in [Docs -> TaskRows]
    /\ DOMAIN overlay = Docs
    /\ ledger \in Ledger!Ledgers
    /\ settings \in Models
    /\ ThreadsOk(thread)
    /\ \A g \in {gateway, importer} : g # None => IsGateway(g)
    /\ retrying # None => IsGateway(retrying.gw)

\* A task is about a tree that its document has had, and has a scope in a retry only.
RowOk(d) ==
    /\ task[d].tree <= tree[d]
    /\ task[d].reason # "retry" => task[d].scope = None

\* The claim of a thread, while the row is its own, has the scope of the row.
ClaimOk(w) ==
    thread[w].pc \in Claiming /\ Held(thread[w].doc, w) =>
        thread[w].scope = task[thread[w].doc].scope

TasksInv == (\A d \in Docs : RowOk(d)) /\ (\A w \in Workers : ClaimOk(w))

\* A registered worker is a thread that works, and there is no other.
OneWorkerIn(threads, isRegistered) ==
    /\ isRegistered => \E w \in Workers : threads[w].pc \in Working
    /\ \A w \in Workers : threads[w].pc \in Working =>
          isRegistered /\ \A u \in Workers \ {w} : threads[u].pc \notin Working

OneWorker == OneWorkerIn(thread, registered)

PermitsInv == \A p \in ledger.permits \cup ledger.spent : p[2] \in ScopesOf(task, Docs)

IInv == Shapes /\ TasksInv /\ OneWorker /\ PermitsInv /\ RunningIsWorkedOn /\ CompletedHasSummaries

-----------------------------------------------------------------------------
(* The ledger of contracts.                                                *)

\* A permit, good or spent, is there under scope x.
Traced(l, x) == \E p \in l.permits \cup l.spent : p[2] = x

\* revoke_model_operation_retry_scope_in: nothing is left under the scopes, the rest stays.
LEMMA RevokingAll ==
    ASSUME NEW l \in Ledger!Ledgers, NEW S
    PROVE  LET m == Ledger!RevokeAll(l, S) IN
           /\ m \in Ledger!Ledgers /\ m.suspended = l.suspended
           /\ \A x : Traced(m, x) => Traced(l, x) /\ x \notin S
  BY DEF Ledger!RevokeAll, Ledger!Ledgers, Traced

\* A revocation leaves nothing under its scope (revoke_model_operation_retry_scope_in).
LEMMA Revoking ==
    ASSUME NEW l \in Ledger!Ledgers, NEW s
    PROVE  LET m == Ledger!Revoke(l, s) IN
           /\ m \in Ledger!Ledgers /\ m.suspended = l.suspended
           /\ \A x : Traced(m, x) => Traced(l, x) /\ x # s
  BY DEF Ledger!Revoke, Ledger!Ledgers, Traced

\* discard_model_operation_retry_permits_in: no permit is left.
LEMMA Discarding ==
    ASSUME NEW l \in Ledger!Ledgers
    PROVE  LET m == Ledger!DiscardPermits(l) IN
           /\ m \in Ledger!Ledgers /\ m.suspended = l.suspended
           /\ \A x : ~Traced(m, x)
  BY DEF Ledger!DiscardPermits, Ledger!Ledgers, Traced

\* suspend: permits change their kind, and none is added.
LEMMA Suspending ==
    ASSUME NEW l \in Ledger!Ledgers, NEW c \in TaskContracts,
           NEW signature \in {"configuration", "result", None}
    PROVE  LET m == Ledger!Suspend(l, c, signature) IN
           /\ m \in Ledger!Ledgers /\ l.suspended \subseteq m.suspended
           /\ \A x : Traced(m, x) => Traced(l, x)
<1> DEFINE m == Ledger!Suspend(l, c, signature)
<1>1. m.signature \in [TaskContracts -> {"configuration", "result", None}]
  BY DEF Ledger!Suspend, Ledger!Signed, Ledger!Ledgers
<1>2. /\ m = [suspended |-> l.suspended \cup {c}, signature |-> m.signature,
              permits |-> l.permits \ Ledger!PermitsOf(l, c),
              spent |-> l.spent \cup Ledger!PermitsOf(l, c)]
      /\ Ledger!PermitsOf(l, c) \subseteq l.permits
  BY DEF Ledger!Suspend, Ledger!PermitsOf
<1>3. m \in Ledger!Ledgers BY <1>1, <1>2 DEF Ledger!Ledgers
<1> HIDE DEF m
<1>4. \A x : Traced(m, x) => Traced(l, x) BY <1>2 DEF Traced
<1>5. l.suspended \subseteq m.suspended BY <1>2
<1> QED BY <1>3, <1>4, <1>5 DEF m

\* mark_ready clears a suspension by a permit of the scope only.
LEMMA Readying ==
    ASSUME NEW l \in Ledger!Ledgers, NEW c \in TaskContracts, NEW scope \in Scopes \cup {None}
    PROVE  LET m == Ledger!MarkResultReady(l, c, scope) IN
           /\ m \in Ledger!Ledgers /\ m.permits \subseteq l.permits
           /\ \A x : Traced(m, x) => Traced(l, x)
           /\ m.suspended \subseteq l.suspended
           /\ \A e \in l.suspended \ m.suspended : e = c /\ <<c, scope>> \in l.permits
<1> DEFINE m == Ledger!MarkResultReady(l, c, scope)  r == Ledger!Ready(l, c)
<1>1. /\ r.signature \in [TaskContracts -> {"configuration", "result", None}]
  BY DEF Ledger!Ready, Ledger!Signed, Ledger!Ledgers
<1>2. r = [suspended |-> l.suspended \ {c}, signature |-> r.signature,
           permits |-> {p \in l.permits : p[1] # c}, spent |-> {p \in l.spent : p[1] # c}]
  BY DEF Ledger!Ready
<1> HIDE DEF r
<1>3. r \in Ledger!Ledgers BY <1>1, <1>2 DEF Ledger!Ledgers
<1>4. /\ r.permits \subseteq l.permits /\ r.spent \subseteq l.spent
      /\ r.suspended = l.suspended \ {c}
  BY <1>2
<1>5. \/ m = l
      \/ m = r /\ (c \in l.suspended => <<c, scope>> \in l.permits)
  BY DEF m, r, Ledger!MarkResultReady, Ledger!MarkReadyUnlessSuspended, Ledger!MarkReadyForRetry
<1> HIDE DEF m
<1> QED BY <1>3, <1>4, <1>5 DEF Traced, m

\* authorize: permits under one scope, for contracts that are suspended.
LEMMA Authorizing ==
    ASSUME NEW l \in Ledger!Ledgers, NEW C \in SUBSET TaskContracts, NEW scope \in Scopes
    PROVE  LET m == Ledger!Authorize(l, C, scope) IN
           /\ m \in Ledger!Ledgers /\ m.suspended = l.suspended
           /\ \A x : Traced(m, x) => Traced(l, x) \/ x = scope
  BY DEF Ledger!Authorize, Ledger!Ledgers, Traced

\* The failure of a call, or of an answer and its repair (suspend_model_call_operation,
\* suspend_structured_model_operation).
LEMMA Failing ==
    ASSUME NEW l \in Ledger!Ledgers, NEW c \in TaskContracts, NEW other \in TaskContracts \cup {None},
           NEW failure \in Ledger!CallFailures
    PROVE  \A m \in {Ledger!SuspendFailedCall(l, c, other, failure),
                     Ledger!SuspendInvalidAnswer(l, c, other)} :
               /\ m \in Ledger!Ledgers /\ l.suspended \subseteq m.suspended
               /\ \A x : Traced(m, x) => Traced(l, x)
<1>1. Ledger!Signature(failure) \in {"configuration", "result", None}
  BY DEF Ledger!Signature, Ledger!CallFailures
<1> DEFINE a == Ledger!Suspend(l, c, Ledger!Signature(failure))  b == Ledger!Suspend(l, c, None)
<1>2. /\ a \in Ledger!Ledgers /\ l.suspended \subseteq a.suspended
      /\ \A x : Traced(a, x) => Traced(l, x)
  BY <1>1, Suspending
<1>3. /\ b \in Ledger!Ledgers /\ l.suspended \subseteq b.suspended
      /\ \A x : Traced(b, x) => Traced(l, x)
  BY Suspending
<1>4. /\ Ledger!SuspendFailedCall(l, c, other, failure) \in {a, Ledger!Suspend(a, other, None)}
      /\ other = None => Ledger!SuspendFailedCall(l, c, other, failure) = a
      /\ Ledger!SuspendInvalidAnswer(l, c, other) \in {b, Ledger!Suspend(b, other, None)}
      /\ other = None => Ledger!SuspendInvalidAnswer(l, c, other) = b
  BY DEF Ledger!SuspendFailedCall, Ledger!SuspendParent, Ledger!SuspendInvalidAnswer
<1> HIDE DEF a, b
<1>5. ASSUME other # None
      PROVE  \A k \in {a, b} : LET m == Ledger!Suspend(k, other, None) IN
                /\ m \in Ledger!Ledgers /\ k.suspended \subseteq m.suspended
                /\ \A x : Traced(m, x) => Traced(k, x)
  BY <1>2, <1>3, <1>5, Suspending
<1> QED BY <1>2, <1>3, <1>4, <1>5


-----------------------------------------------------------------------------
(* Shapes.                                                                 *)

\* What the steps of a worker leave alone.
LEMMA WorkerFrame ==
    ASSUME Shapes, NEW w \in Workers, WorkerStep(w)
    PROVE  UNCHANGED <<tree, available, rebuilding, settings, active, env, importer, retrying, cancelled>>
  BY DEF WorkerStep, Top, Queue, List, Next, Claim, Dispatch, Answer, Invalid, CallFails,
         CallCancelled, Fail, MarkOperationsReady, Publish, After, Remaining, Release, Final,
         Restart, DatabaseError, database, memory, aside, quiet, Event

\* Rows that are queued, closed or interrupted are rows (enrichment_tasks.py).
LEMMA RowsTyped ==
    ASSUME EnrichmentAssumption, Shapes, NEW d \in Docs, NEW m \in Models
    PROVE  /\ Queued(d, m) \in TaskRows
           /\ \A s \in Scopes \cup {None}, r \in {"target", "retry"} : Pending(d, m, r, s) \in TaskRows
           /\ \A status \in {"pending", "completed", "failed"},
                 error \in {"none", "interrupted", "failed", "unavailable"} :
                    Closed(task[d], status, error) \in TaskRows
           /\ Interrupted(task[d]) \in TaskRows
           /\ Recovered(task[d]) \in TaskRows
<1>1. task[d] \in TaskRows /\ tree[d] \in 0..MaxTree BY DEF Shapes, EnrichmentAssumption
<1>2. \A s \in Scopes \cup {None}, r \in {"target", "retry"} : Pending(d, m, r, s) \in TaskRows
  BY <1>1 DEF Pending, TaskRows
<1>3. Completed(task[d], Target(d, m)) \in TaskRows
  BY <1>1 DEF Completed, Target, TaskRows
<1>4. Interrupted(task[d]) \in TaskRows BY <1>1 DEF Interrupted, TaskRows
<1>5. Queued(d, m) \in {task[d], Completed(task[d], Target(d, m)), Pending(d, m, "target", None)}
  BY DEF Queued
<1>6. \A status \in {"pending", "completed", "failed"},
         error \in {"none", "interrupted", "failed", "unavailable"} :
            Closed(task[d], status, error) \in TaskRows
  BY <1>1 DEF Closed, TaskRows
<1>7. Recovered(task[d]) \in TaskRows BY <1>1, <1>4 DEF Recovered
<1>8. Queued(d, m) \in TaskRows BY <1>1, <1>2, <1>3, <1>5
<1> QED BY <1>2, <1>4, <1>6, <1>7, <1>8

\* The transactions that a worker ends a claim with.
LEMMA EndShapes ==
    ASSUME EnrichmentAssumption, Shapes, NEW w \in Workers, thread[w].doc \in Docs,
           \/ \E s \in {"pending", "failed"}, e \in {"interrupted", "failed"} : Finish(w, s, e)
           \/ FinishLost(w)
           \/ Published(w) /\ Leave(w)
    PROVE  /\ task' \in [Docs -> TaskRows] /\ ledger' \in Ledger!Ledgers
           /\ Leave(w)
<1>1. Leave(w) BY DEF Finish, FinishLost
<1>2. CASE \E s \in {"pending", "failed"}, e \in {"interrupted", "failed"} : Finish(w, s, e)
  <2>1. PICK s \in {"pending", "failed"}, e \in {"interrupted", "failed"} : Finish(w, s, e)
    BY <1>2
  <2>2. Closed(task[thread[w].doc], s, e) \in TaskRows BY RowsTyped, EnrichmentAssumption DEF EnrichmentAssumption
  <2>3. task' \in [Docs -> TaskRows] BY <2>1, <2>2 DEF Finish, Shapes
  <2>4. ledger' \in Ledger!Ledgers BY <2>1, Revoking DEF Finish, Shapes
  <2> QED BY <1>1, <2>3, <2>4
<1>3. CASE FinishLost(w) BY <1>1, <1>3 DEF FinishLost, Shapes
<1>4. CASE Published(w) /\ Leave(w)
  <2>1. \A s \in {"completed", "failed"}, e \in {"none", "unavailable"} :
           Closed(task[thread[w].doc], s, e) \in TaskRows
    BY RowsTyped DEF EnrichmentAssumption
  <2>2. task' \in [Docs -> TaskRows] BY <1>4, <2>1 DEF Published, Shapes
  <2>3. ledger' \in Ledger!Ledgers BY <1>4, Revoking DEF Published, Shapes
  <2> QED BY <1>1, <2>2, <2>3
<1> QED BY <1>2, <1>3, <1>4

\* A thread that rests is in order.
LEMMA IdleOk == ThreadOk(Idle)
  BY DEF ThreadOk, Idle, Fields, Working, Claiming, HasGateway, HasDocument

\* start_page_tree_enrichments installs the gateway it is given.
LEMMA StartShapes ==
    ASSUME EnrichmentAssumption, Shapes, NEW g, IsGateway(g), NEW threads, ThreadsOk(threads),
           Start(g, threads)
    PROVE  ThreadsOk(thread') /\ gateway' \in {gateway, g}
<1>1. CASE ~active \/ g.model \notin verified BY <1>1 DEF Start
<1>2. CASE ~(~active \/ g.model \notin verified)
  <2>1. gateway' = g BY <1>2 DEF Start
  <2>2. CASE registered BY <1>2, <2>1, <2>2 DEF Start
  <2>3. CASE ~registered
    <3>1. PICK w : thread' = [threads EXCEPT ![w] = [Idle EXCEPT !.pc = "top"]]
      BY <1>2, <2>3 DEF Start
    <3>2. ThreadOk([Idle EXCEPT !.pc = "top"])
      BY DEF ThreadOk, Idle, Fields, Working, Claiming, HasGateway, HasDocument
    <3> QED BY <2>1, <3>1, <3>2 DEF ThreadsOk
  <2> QED BY <2>2, <2>3
<1> QED BY <1>1, <1>2

\* A step of a thread leaves the others alone.
LEMMA Moving ==
    ASSUME ThreadsOk(thread), NEW w \in Workers, NEW t, ThreadOk(t), thread' = [thread EXCEPT ![w] = t]
    PROVE  ThreadsOk(thread')
  BY DEF ThreadsOk

\* A thread may go to every point for which it has a gateway and a document.
LEMMA GotoOk ==
    ASSUME NEW t, ThreadOk(t), NEW pc \in Working,
           pc \in HasGateway => t.pc \in HasGateway,
           pc \in HasDocument => t.pc \in HasDocument
    PROVE  ThreadOk([t EXCEPT !.pc = pc])
  BY DEF ThreadOk, Fields

\* A worker that leaves its document goes on to the next.
LEMMA LeaveOk ==
    ASSUME NEW t, ThreadOk(t), t.pc \in HasGateway
    PROVE  ThreadOk([t EXCEPT !.pc = "next", !.doc = None, !.scope = None, !.repaired = FALSE])
  BY DEF ThreadOk, Fields, HasDocument, Working, Claiming, HasGateway

\* A thread keeps what the point it has come to needs.
LEMMA WorkerThreads ==
    ASSUME EnrichmentAssumption, Shapes, NEW w \in Workers, WorkerStep(w)
    PROVE  ThreadsOk(thread')
<1> DEFINE t == thread[w]
<1>0. ThreadsOk(thread) /\ ThreadOk(t) BY DEF Shapes, ThreadsOk
<1> USE DEF HasDocument, HasGateway, Claiming, Working
<1>g. ASSUME NEW pc \in Working, Goto(w, pc),
             pc \in HasGateway => t.pc \in HasGateway,
             pc \in HasDocument => t.pc \in HasDocument
      PROVE  ThreadsOk(thread')
  BY <1>0, <1>g, GotoOk, Moving DEF Goto
<1>l. ASSUME Leave(w), t.pc \in HasGateway PROVE ThreadsOk(thread')
<2> DEFINE new == [t EXCEPT !.pc = "next", !.doc = None, !.scope = None, !.repaired = FALSE]
<2>1. ThreadOk(new) BY <1>0, <1>l, LeaveOk
<2>2. thread' = [thread EXCEPT ![w] = new] BY <1>0, <1>l DEF Leave, ThreadOk, Fields, ThreadsOk
<2> HIDE DEF new
<2> QED BY <1>0, <2>1, <2>2, Moving
<1>1. CASE Top(w)
  <2>1. CASE Goto(w, "final") BY <1>g, <2>1
  <2>2. CASE ~Goto(w, "final")
    <3>1. gateway # None /\ IsGateway(gateway) BY <1>1, <2>2 DEF Top, Shapes
    <3>2. PICK pc \in {"top", "queue"} : thread' = [thread EXCEPT ![w] = [t EXCEPT !.pc = pc, !.gw = gateway]]
      BY <1>1, <2>2 DEF Top
    <3>3. ThreadOk([t EXCEPT !.pc = pc, !.gw = gateway]) BY <1>0, <3>1 DEF ThreadOk, Fields
    <3> QED BY <1>0, <3>2, <3>3, Moving
  <2> QED BY <2>1, <2>2
<1>2. CASE Queue(w) BY <1>g, <1>2 DEF Queue
<1>3. CASE List(w)
  <2>1. thread' = [thread EXCEPT ![w] = [t EXCEPT !.pc = "next", !.todo = PendingIds(t.gw.model)]]
    BY <1>3 DEF List
  <2>2. ThreadOk([t EXCEPT !.pc = "next", !.todo = PendingIds(t.gw.model)])
    BY <1>0, <1>3 DEF List, ThreadOk, Fields, PendingIds
  <2> QED BY <1>0, <2>1, <2>2, Moving
<1>4. CASE Next(w)
  <2>1. CASE thread' = [thread EXCEPT ![w].pc = "after", ![w].todo = {}]
    <3>1. ThreadOk([t EXCEPT !.pc = "after", !.todo = {}])
      BY <1>0, <1>4 DEF Next, ThreadOk, Fields
    <3> QED BY <1>0, <2>1, <3>1, Moving
  <2>2. CASE \E d \in t.todo :
               thread' = [thread EXCEPT ![w].pc = IF d \in cancelled THEN "next" ELSE "claim",
                                        ![w].doc = IF d \in cancelled THEN None ELSE d,
                                        ![w].todo = @ \ {d}]
    <3>1. PICK d \in t.todo :
               thread' = [thread EXCEPT ![w].pc = IF d \in cancelled THEN "next" ELSE "claim",
                                        ![w].doc = IF d \in cancelled THEN None ELSE d,
                                        ![w].todo = @ \ {d}]
      BY <2>2
    <3> DEFINE new == [t EXCEPT !.pc = IF d \in cancelled THEN "next" ELSE "claim",
                                !.doc = IF d \in cancelled THEN None ELSE d,
                                !.todo = @ \ {d}]
    <3>2. d \in Docs BY <1>0 DEF ThreadOk
    <3>3. ThreadOk(new) BY <1>0, <1>4, <3>2 DEF Next, ThreadOk, Fields
    <3>4. thread' = [thread EXCEPT ![w] = new] BY <3>1
    <3> HIDE DEF new
    <3> QED BY <1>0, <3>3, <3>4, Moving
  <2> QED BY <1>4, <2>1, <2>2 DEF Next
<1>5. CASE Claim(w)
  <2>1. CASE Leave(w) BY <1>l, <1>5, <2>1 DEF Claim
  <2>2. CASE ~Leave(w)
    <3> DEFINE scope == IF task[t.doc].reason = "retry" THEN task[t.doc].scope ELSE None
    <3>1. thread' = [thread EXCEPT ![w] = [t EXCEPT !.pc = "dispatch", !.scope = scope]]
      BY <1>5, <2>2 DEF Claim
    <3>2. t.doc \in Docs /\ scope \in Scopes \cup {None}
      BY <1>0, <1>5 DEF Claim, ThreadOk, Shapes, TaskRows
    <3> HIDE DEF scope
    <3>3. ThreadOk([t EXCEPT !.pc = "dispatch", !.scope = scope])
      BY <1>0, <1>5, <3>2 DEF Claim, ThreadOk, Fields
    <3> QED BY <1>0, <3>1, <3>3, Moving
  <2> QED BY <2>1, <2>2
<1>6. CASE Dispatch(w) \/ CallCancelled(w) \/ Fail(w) \/ Publish(w)
  <2>1. \/ Leave(w)
        \/ Goto(w, "calling") /\ t.pc = "dispatch"
    BY <1>6 DEF Dispatch, CallCancelled, Fail, Publish, InterruptClaim, Finish, FinishLost
  <2>2. t.pc \in Claiming BY <1>6 DEF Dispatch, CallCancelled, Fail, Publish
  <2> QED BY <1>g, <1>l, <2>1, <2>2
<1>7. CASE Answer(w) \/ MarkOperationsReady(w) \/ CallFails(w)
  <2>1. t.pc \in Claiming /\ (Goto(w, "ready") \/ Goto(w, "publish") \/ Goto(w, "failing"))
    BY <1>7 DEF Answer, MarkOperationsReady, CallFails
  <2> QED BY <1>g, <2>1
<1>8. CASE Invalid(w)
  <2>1. CASE t.repaired BY <1>g, <1>8, <2>1 DEF Invalid
  <2>2. CASE ~t.repaired
    <3>1. ThreadOk([t EXCEPT !.pc = "dispatch", !.repaired = TRUE])
      BY <1>0, <1>8 DEF Invalid, ThreadOk, Fields
    <3> QED BY <1>0, <1>8, <2>2, <3>1, Moving DEF Invalid
  <2> QED BY <2>1, <2>2
<1>9. CASE After(w) \/ Remaining(w)
  <2>1. /\ t.pc \in HasGateway
        /\ Goto(w, "remaining") \/ Goto(w, "final") \/ Goto(w, "top") \/ Goto(w, "release")
    BY <1>9 DEF After, Remaining
  <2> QED BY <1>g, <2>1
<1>10. CASE Release(w) BY <1>0, <1>g, <1>10, IdleOk, Moving DEF Release
<1>11. CASE Final(w)
  <2>1. CASE gateway # None
    <3>1. ThreadOk([Idle EXCEPT !.pc = "restart", !.gw = gateway])
      BY <2>1 DEF Shapes, ThreadOk, Idle, Fields
    <3> QED BY <1>0, <1>11, <3>1, IdleOk, Moving DEF Final
  <2>2. CASE gateway = None BY <1>0, <1>11, <2>2, IdleOk, Moving DEF Final
  <2> QED BY <2>1, <2>2
<1>12. CASE Restart(w)
  <2>1. IsGateway(t.gw) BY <1>0, <1>12 DEF Restart, ThreadOk
  <2>2. ThreadsOk([thread EXCEPT ![w] = Idle]) BY <1>0, IdleOk DEF ThreadsOk
  <2>3. Start(t.gw, [thread EXCEPT ![w] = Idle]) BY <1>12 DEF Restart
  <2> HIDE DEF t
  <2> QED BY <2>1, <2>2, <2>3, StartShapes
<1>13. CASE DatabaseError(w)
  <2>1. \/ Goto(w, "final")
        \/ t.pc \in Claiming /\ Goto(w, "failing")
    BY <1>13 DEF DatabaseError
  <2> QED BY <1>g, <2>1
<1> QED
  BY <1>1, <1>2, <1>3, <1>4, <1>5, <1>6, <1>7, <1>8, <1>9, <1>10, <1>11, <1>12, <1>13 DEF WorkerStep

\* Transactions of a worker leave rows, overlays and the ledger of their kinds.
LEMMA WorkerStore ==
    ASSUME EnrichmentAssumption, Shapes, NEW w \in Workers, WorkerStep(w)
    PROVE  /\ task' \in [Docs -> TaskRows] /\ DOMAIN overlay' = Docs
           /\ ledger' \in Ledger!Ledgers
<1> DEFINE t == thread[w]
<1>0. ThreadOk(t) BY DEF Shapes, ThreadsOk
<1>s. task \in [Docs -> TaskRows] /\ DOMAIN overlay = Docs /\ ledger \in Ledger!Ledgers BY DEF Shapes
<1>o. DOMAIN overlay' = Docs
  BY <1>s DEF WorkerStep, Top, Queue, List, Next, Claim, Dispatch, Answer, Invalid, CallFails,
         CallCancelled, Fail, MarkOperationsReady, Publish, Published, After, Remaining, Release,
         Final, Restart, DatabaseError, database
<1>1. CASE UNCHANGED <<task, ledger>> BY <1>o, <1>1, <1>s
<1>2. CASE \E m \in Models : QueueEligible(m)
  <2>1. PICK m \in Models : QueueEligible(m) BY <1>2
  <2>2. ledger' \in Ledger!Ledgers BY <1>s, <2>1, RevokingAll DEF QueueEligible
  <2>3. \A d \in Docs : Queued(d, m) \in TaskRows BY RowsTyped
  <2> QED BY <1>o, <2>1, <2>2, <2>3 DEF QueueEligible
<1>3. CASE FailUnavailable
  <2>1. ledger' \in Ledger!Ledgers BY <1>s, <1>3, RevokingAll DEF FailUnavailable
  <2>2. \A d \in Docs : Closed(task[d], "failed", "unavailable") \in TaskRows
    BY RowsTyped DEF EnrichmentAssumption
  <2> QED BY <1>o, <1>s, <1>3, <2>1, <2>2 DEF FailUnavailable
<1>4. CASE Claim(w)
  <2>1. \A d \in Docs : [task[d] EXCEPT !.status = "running", !.token = w] \in TaskRows
    BY <1>s DEF TaskRows
  <2>2. \/ UNCHANGED task
        \/ task' = [task EXCEPT ![t.doc] = [task[t.doc] EXCEPT !.status = "running", !.token = w]]
    BY <1>4 DEF Claim
  <2>3. t.doc \in Docs BY <1>0, <1>4 DEF Claim, ThreadOk, HasDocument
  <2>4. UNCHANGED ledger BY <1>4 DEF Claim
  <2> HIDE DEF t
  <2> QED BY <1>o, <1>s, <2>1, <2>2, <2>3, <2>4
<1>5. CASE /\ t.pc \in HasDocument
           /\ \/ \E s \in {"pending", "failed"}, e \in {"interrupted", "failed"} : Finish(w, s, e)
              \/ FinishLost(w)
              \/ Published(w) /\ Leave(w)
  <2>1. t.doc \in Docs BY <1>0, <1>5 DEF ThreadOk
  <2> QED BY <1>o, <1>5, <2>1, EndShapes
<1>6. CASE Invalid(w) \/ CallFails(w) \/ MarkOperationsReady(w)
  <2> DEFINE m == t.gw.model
  <2>1. m \in Models
    BY <1>0, <1>6 DEF ThreadOk, IsGateway, HasGateway, Working, Claiming, Invalid, CallFails,
                      MarkOperationsReady
  <2> HIDE DEF m
  <2>2. Summaries(m) \in TaskContracts /\ Repair(m) \in TaskContracts
    BY <2>1 DEF TaskContracts
  <2>3. t.scope \in Scopes \cup {None} BY <1>0 DEF ThreadOk
  <2>4. \E f \in Ledger!CallFailures : TRUE BY DEF Ledger!CallFailures
  <2>5. UNCHANGED task BY <1>6 DEF Invalid, CallFails, MarkOperationsReady
  <2>6. ledger' \in Ledger!Ledgers
    <3>1. CASE Invalid(w)
      <4>1. ledger' \in {ledger, Ledger!SuspendInvalidAnswer(ledger, Summaries(m), Repair(m))}
        BY <3>1 DEF Invalid, m
      <4> QED BY <1>s, <2>2, <2>4, <4>1, Failing
    <3>2. CASE CallFails(w)
      <4>1. \E c \in TaskContracts, p \in TaskContracts \cup {None}, f \in Ledger!CallFailures :
               ledger' = Ledger!SuspendFailedCall(ledger, c, p, f)
        BY <2>2, <3>2 DEF CallFails, m
      <4> QED BY <1>s, <4>1, Failing
    <3>3. CASE MarkOperationsReady(w)
      <4> DEFINE parent == Ledger!MarkResultReady(ledger, Summaries(m), t.scope)
      <4>1. ledger' \in {parent, Ledger!MarkResultReady(parent, Repair(m), t.scope)}
        BY <3>3 DEF MarkOperationsReady, m
      <4>2. parent \in Ledger!Ledgers BY <1>s, <2>2, <2>3, Readying
      <4> HIDE DEF parent
      <4>3. Ledger!MarkResultReady(parent, Repair(m), t.scope) \in Ledger!Ledgers
        BY <2>2, <2>3, <4>2, Readying
      <4> QED BY <4>1, <4>2, <4>3
    <3> QED BY <1>6, <3>1, <3>2, <3>3
  <2> QED BY <1>o, <1>s, <2>5, <2>6
<1>7. \/ UNCHANGED <<task, ledger>>
      \/ t.pc \in HasGateway /\ QueueEligible(t.gw.model)
      \/ FailUnavailable
      \/ Claim(w)
      \/ /\ t.pc \in HasDocument
         /\ \/ \E s \in {"pending", "failed"}, e \in {"interrupted", "failed"} : Finish(w, s, e)
            \/ FinishLost(w)
            \/ Published(w) /\ Leave(w)
      \/ Invalid(w) \/ CallFails(w) \/ MarkOperationsReady(w)
  <2> USE DEF HasDocument, HasGateway, Claiming, Working
  <2>1. CASE Top(w) \/ Next(w) \/ Answer(w) \/ Release(w) \/ Final(w) \/ Restart(w) \/ DatabaseError(w)
    BY <2>1 DEF Top, Next, Answer, Release, Final, Restart, DatabaseError, database
  <2>2. CASE Queue(w) \/ List(w) \/ After(w) \/ Remaining(w)
    BY <2>2 DEF Queue, List, After, Remaining
  <2>3. CASE Dispatch(w) BY <2>3 DEF Dispatch, InterruptClaim
  <2>4. CASE CallCancelled(w) BY <2>4 DEF CallCancelled, InterruptClaim
  <2>5. CASE Fail(w) BY <2>5 DEF Fail
  <2>6. CASE Publish(w) BY <2>6 DEF Publish, InterruptClaim
  <2> QED BY <2>1, <2>2, <2>3, <2>4, <2>5, <2>6 DEF WorkerStep
<1>8. t.pc \in HasGateway => t.gw.model \in Models BY <1>0 DEF ThreadOk, IsGateway
<1> QED BY <1>1, <1>2, <1>3, <1>4, <1>5, <1>6, <1>7, <1>8

\* The steps of a worker keep the types of all state.
LEMMA WorkerShapes ==
    ASSUME EnrichmentAssumption, Shapes, NEW w \in Workers, WorkerStep(w)
    PROVE  Shapes'
<1> DEFINE t == thread[w]
<1>0. ThreadOk(t) BY DEF Shapes, ThreadsOk
<1>1. gateway' # None => IsGateway(gateway')
  <2>1. CASE gateway' \in {gateway, None} BY <2>1 DEF Shapes
  <2>2. CASE Restart(w)
    <3>1. IsGateway(t.gw) BY <1>0, <2>2 DEF Restart, ThreadOk, HasGateway
    <3>2. ThreadsOk([thread EXCEPT ![w] = Idle]) BY IdleOk DEF Shapes, ThreadsOk
    <3>3. Start(t.gw, [thread EXCEPT ![w] = Idle]) BY <2>2 DEF Restart
    <3> HIDE DEF t
    <3>4. gateway' \in {gateway, t.gw} BY <3>1, <3>2, <3>3, StartShapes
    <3> QED BY <3>1, <3>4 DEF Shapes
  <2> QED
    BY <2>1, <2>2 DEF WorkerStep, Top, Queue, List, Next, Claim, Dispatch, Answer, Invalid, CallFails,
         CallCancelled, Fail, MarkOperationsReady, Publish, After, Remaining, Release, Final,
         DatabaseError, database, memory, aside
<1> HIDE DEF t
<1>2. UNCHANGED <<tree, rebuilding, settings, importer, retrying>> BY WorkerFrame
<1>3. ThreadsOk(thread') BY WorkerThreads
<1>4. /\ task' \in [Docs -> TaskRows] /\ DOMAIN overlay' = Docs
      /\ ledger' \in Ledger!Ledgers
  BY WorkerStore
<1> QED BY <1>1, <1>2, <1>3, <1>4 DEF Shapes

\* The gateway is made for the configured model (start_page_tree_enrichments).
LEMMA NewGatewayOk == ASSUME Shapes PROVE IsGateway(NewGateway(settings))
  BY DEF Shapes, IsGateway, NewGateway

\* So does an opening, which outdates the workers.
LEMMA OutdatedOk == ASSUME Shapes PROVE ThreadsOk(Outdated)
<1>1. \A w \in Workers : ThreadOk(thread[w]) BY DEF Shapes, ThreadsOk
<1>2. ASSUME NEW w \in Workers, NEW b
      PROVE  ThreadOk([thread[w] EXCEPT !.stale = b])
  BY <1>1 DEF ThreadOk, Fields
<1> QED BY <1>2 DEF Outdated, ThreadsOk

\* So does what a user, an import or a rebuilt tree does to a document.
LEMMA DocumentShapes ==
    ASSUME EnrichmentAssumption, Shapes, NEW d \in Docs, DocumentStep(d)
    PROVE  Shapes'
<1>1. CASE RetryTask(d)
  <2>1. PICK scope \in Scopes :
           /\ task' = [task EXCEPT ![d] =
                          [task[d] EXCEPT !.status = "pending", !.reason = "retry", !.error = "none",
                                          !.scope = scope, !.token = None]]
           /\ ledger' = Ledger!Revoke(Ledger!Authorize(ledger, {Summaries(settings), Repair(settings)}, scope),
                                      task[d].scope)
    BY <1>1 DEF RetryTask, FreeScopes
  <2>2. [task[d] EXCEPT !.status = "pending", !.reason = "retry", !.error = "none",
                        !.scope = scope, !.token = None] \in TaskRows
    <3>1. task[d] \in TaskRows BY DEF Shapes
    <3> QED BY <3>1 DEF TaskRows
  <2>3. task' \in [Docs -> TaskRows] BY <2>1, <2>2 DEF Shapes
  <2>4. {Summaries(settings), Repair(settings)} \in SUBSET TaskContracts BY DEF Shapes, TaskContracts
  <2>5. ledger' \in Ledger!Ledgers BY <2>1, <2>4, Authorizing, Revoking DEF Shapes
  <2>6. retrying'.gw = NewGateway(settings) BY <1>1 DEF RetryTask
  <2>7. UNCHANGED <<tree, rebuilding, overlay, settings, gateway, importer, thread>> BY <1>1 DEF RetryTask
  <2> QED BY <2>3, <2>5, <2>6, <2>7, NewGatewayOk DEF Shapes
<1>2. CASE Cancel(d)
  <2>1. \E m \in Models : TRUE BY DEF EnrichmentAssumption
  <2>2. Interrupted(task[d]) \in TaskRows BY <2>1, RowsTyped
  <2>3. task' \in [Docs -> TaskRows] BY <1>2, <2>2 DEF Cancel, Shapes
  <2>4. ledger' \in Ledger!Ledgers BY <1>2, Revoking DEF Cancel, Shapes
  <2> QED BY <1>2, <2>3, <2>4 DEF Cancel, Shapes
<1>3. CASE StartRebuild(d) \/ EndRebuild(d) \/ ChangeAvailability(d)
  <2>0. MaxTree \in Nat /\ tree \in [Docs -> 1..MaxTree] BY DEF Shapes, EnrichmentAssumption
  <2> DEFINE goal == /\ tree' \in [Docs -> 1..MaxTree] /\ rebuilding' \subseteq Docs
                     /\ \A e \in rebuilding' : tree'[e] < MaxTree
  <2>1. ASSUME EndRebuild(d) PROVE goal
    <3>1. tree[d] + 1 \in 1..MaxTree BY <2>0, <2>1 DEF EndRebuild, Shapes
    <3>2. tree' \in [Docs -> 1..MaxTree] BY <2>0, <2>1, <3>1 DEF EndRebuild
    <3>3. \A e \in rebuilding' : e \in Docs /\ tree'[e] < MaxTree
      BY <2>0, <2>1 DEF EndRebuild, Shapes
    <3>4. rebuilding' \subseteq Docs BY <2>1 DEF EndRebuild, Shapes
    <3> QED BY <3>2, <3>3, <3>4
  <2>2. ASSUME StartRebuild(d) \/ ChangeAvailability(d) PROVE goal
    BY <2>2 DEF StartRebuild, ChangeAvailability, Shapes
  <2>3. UNCHANGED <<task, overlay, ledger, settings, thread, gateway, importer, retrying>>
    BY <1>3 DEF StartRebuild, EndRebuild, ChangeAvailability, memory
  <2>4. goal BY <1>3, <2>1, <2>2
  <2> QED BY <2>3, <2>4 DEF Shapes
<1> QED BY <1>1, <1>2, <1>3 DEF DocumentStep

\* So do settings, openings and crashes.
LEMMA EngineShapes ==
    ASSUME EnrichmentAssumption, Shapes, EngineStep
    PROVE  Shapes'
<1>1. CASE BuildGateway BY <1>1, NewGatewayOk DEF BuildGateway, database, Shapes
<1>2. CASE StartAfterImport
  <2>1. ThreadsOk(thread') /\ gateway' \in {gateway, importer} /\ importer # None
    BY <1>2, StartShapes DEF StartAfterImport, Shapes
  <2> QED BY <1>2, <2>1 DEF StartAfterImport, database, Shapes
<1>3. CASE RetryStart
  <2>1. ThreadsOk(thread') /\ gateway' \in {gateway, retrying.gw} /\ retrying # None
    BY <1>3, StartShapes DEF RetryStart, Shapes
  <2> QED BY <1>3, <2>1 DEF RetryStart, database, Shapes
<1>4. CASE VerifySettings \/ \E m \in Models : SaveSettings(m)
  BY <1>4 DEF VerifySettings, SaveSettings, memory, Shapes
<1>5. CASE Open \/ OpenOther
  <2>1. \E m \in Models : TRUE BY DEF EnrichmentAssumption
  <2>2. task' \in [Docs -> TaskRows] BY <1>5, <2>1, RowsTyped DEF Open, OpenOther
  <2>3. ledger' \in Ledger!Ledgers
    BY <1>5, RevokingAll, Discarding DEF Open, OpenOther, Shapes
  <2> QED BY <1>5, <2>2, <2>3, OutdatedOk DEF Open, OpenOther, memory, Shapes
<1>6. CASE Crash
  <2>1. ThreadsOk(thread') BY <1>6, IdleOk DEF Crash, ThreadsOk
  <2> QED BY <1>6, <2>1 DEF Crash, database, Shapes
<1> QED BY <1>1, <1>2, <1>3, <1>4, <1>5, <1>6 DEF EngineStep

\* Every step keeps the types of all state.
LEMMA ShapesStep == ASSUME EnrichmentAssumption, Shapes, [NextState]_vars PROVE Shapes'
<1>1. CASE UNCHANGED vars BY <1>1 DEF vars, database, memory, Shapes
<1> QED BY <1>1, WorkerShapes, DocumentShapes, EngineShapes DEF NextState

-----------------------------------------------------------------------------
(* What a step does to a task row, and to a claim.                         *)

RowRests(d) == task'[d] = task[d] /\ overlay'[d] = overlay[d]

\* _claim: the thread has the scope of the row from now on.
Claims(w) ==
    /\ thread[w].pc \notin Claiming /\ thread'[w].pc \in Claiming
    /\ thread'[w].doc \in Docs
    /\ thread'[w].scope = task'[thread'[w].doc].scope

RowClaimed(d) ==
    /\ overlay'[d] = overlay[d]
    /\ \E w \in Workers :
          /\ task'[d] = [task[d] EXCEPT !.status = "running", !.token = w]
          /\ Claims(w) /\ thread'[w].doc = d

\* The row is written in a state nobody holds; the permits of its scope are gone with it.
RowChanges(d) ==
    /\ task'[d].status \in {"pending", "completed", "failed"}
    /\ task'[d].tree \in {task[d].tree, tree[d]}
    /\ task'[d].reason # "retry" => task'[d].scope = None
    /\ task'[d].status = "completed" =>
          overlay'[d] = [tree |-> task'[d].tree, model |-> task'[d].model]
    /\ overlay'[d] # overlay[d] => overlay'[d].tree = tree[d]
    /\ task[d].scope \in {None, task'[d].scope} \/ ~Traced(ledger', task[d].scope)

Keeps(w) ==
    /\ thread[w].pc \in Claiming /\ thread'[w].pc \in Claiming
    /\ thread'[w].doc = thread[w].doc /\ thread'[w].scope = thread[w].scope

\* A claim is left when the row is no longer held for the current tree; or else the
\* knowledge base is closed, or the database has failed.
LetsGo(w) ==
    LET d == thread[w].doc IN
    /\ thread'[w].pc \notin Claiming
    /\ thread[w].pc \in Claiming =>
          \/ task'[d].status # "running" \/ task'[d].token # w \/ task'[d].tree # tree'[d]
          \/ ~active'
          \/ "db_error" \in env

RowsStep == \A d \in Docs : RowRests(d) \/ RowClaimed(d) \/ RowChanges(d)
ThreadsStep == \A w \in Workers : Keeps(w) \/ Claims(w) \/ LetsGo(w)
LedgerStep ==
    /\ \A x : Traced(ledger', x) => Traced(ledger, x) \/ x \in ScopesOf(task', Docs)
    /\ LiftedByRetry
AsideStep ==
    /\ \A d \in Docs : tree[d] <= tree'[d]
    /\ \A d \in Docs : task'[d].status = "running" /\ active' => active
    /\ UNCHANGED env

Effects == RowsStep /\ ThreadsStep /\ LedgerStep /\ AsideStep

\* Whatever does no more than that keeps what was true of rows, claims and permits.
LEMMA EffectsKeep ==
    ASSUME EnrichmentAssumption, Shapes, Shapes', TasksInv, PermitsInv, RunningIsWorkedOn,
           CompletedHasSummaries, Effects
    PROVE  TasksInv' /\ PermitsInv' /\ RunningIsWorkedOn' /\ CompletedHasSummaries' /\ PublishedInTurn
<1> USE DEF Effects
<1>t. task \in [Docs -> TaskRows] /\ task' \in [Docs -> TaskRows] BY DEF Shapes
<1>n. \A d \in Docs : /\ tree[d] \in Nat /\ tree'[d] \in Nat
                      /\ task[d].tree \in Nat /\ task'[d].tree \in Nat
  BY DEF Shapes, TaskRows, EnrichmentAssumption
<1>c. ASSUME NEW d \in Docs, RowClaimed(d)
      PROVE  /\ task'[d].status = "running" /\ task'[d].tree = task[d].tree
             /\ task'[d].reason = task[d].reason /\ task'[d].scope = task[d].scope
  <2>1. task[d] \in TaskRows BY <1>t
  <2>2. PICK w : task'[d] = [task[d] EXCEPT !.status = "running", !.token = w] BY <1>c DEF RowClaimed
  <2> QED BY <2>1, <2>2 DEF TaskRows
<1>1. ASSUME NEW d \in Docs PROVE RowOk(d)'
  <2>1. RowOk(d) /\ task[d].tree <= tree'[d] /\ tree[d] <= tree'[d]
    BY <1>n DEF TasksInv, RowOk, AsideStep
  <2>2. task'[d].tree <= tree'[d]
    <3>1. CASE RowRests(d) BY <2>1, <3>1 DEF RowRests
    <3>2. CASE RowClaimed(d) BY <1>c, <2>1, <3>2
    <3>3. CASE RowChanges(d) BY <2>1, <3>3 DEF RowChanges
    <3> QED BY <3>1, <3>2, <3>3 DEF RowsStep
  <2>3. task'[d].reason # "retry" => task'[d].scope = None
    <3>1. CASE RowRests(d) BY <2>1, <3>1 DEF RowRests, RowOk
    <3>2. CASE RowClaimed(d) BY <1>c, <2>1, <3>2 DEF RowOk
    <3>3. CASE RowChanges(d) BY <3>3 DEF RowChanges
    <3> QED BY <3>1, <3>2, <3>3 DEF RowsStep
  <2> QED BY <2>2, <2>3 DEF RowOk
<1>2. ASSUME NEW w \in Workers PROVE ClaimOk(w)'
  <2> SUFFICES ASSUME thread'[w].pc \in Claiming,
                      task'[thread'[w].doc].status = "running", task'[thread'[w].doc].token = w
               PROVE  thread'[w].scope = task'[thread'[w].doc].scope
    BY DEF ClaimOk, Held
  <2>1. CASE Claims(w) BY <2>1 DEF Claims
  <2>2. CASE Keeps(w) /\ ~Claims(w)
    <3> DEFINE d == thread[w].doc
    <3>1. d \in Docs /\ thread'[w].doc = d /\ thread'[w].scope = thread[w].scope
      BY <2>2 DEF Keeps, Shapes, ThreadsOk, ThreadOk, HasDocument
    <3>2. task'[d].status = "running" /\ task'[d].token = w BY <3>1
    <3>3. ~RowChanges(d) BY <3>2 DEF RowChanges
    <3>4. ~RowClaimed(d)
      <4> SUFFICES ASSUME RowClaimed(d) PROVE FALSE OBVIOUS
      <4>1. PICK u \in Workers : /\ task'[d] = [task[d] EXCEPT !.status = "running", !.token = u]
                                 /\ Claims(u)
        BY DEF RowClaimed
      <4>2. u = w BY <1>t, <3>1, <3>2, <4>1 DEF TaskRows
      <4> QED BY <2>2, <4>1, <4>2
    <3>5. task'[d] = task[d] BY <3>1, <3>3, <3>4 DEF RowsStep, RowRests
    <3> QED BY <2>2, <3>1, <3>2, <3>5 DEF TasksInv, ClaimOk, Keeps, Held
  <2> QED BY <2>1, <2>2 DEF ThreadsStep, LetsGo
<1>3. PermitsInv'
  <2> SUFFICES ASSUME NEW x, Traced(ledger', x), Traced(ledger, x)
               PROVE  x \in ScopesOf(task', Docs)
    BY DEF LedgerStep, PermitsInv, Traced
  <2>1. PICK d \in Docs : task[d].scope = x /\ x # None BY DEF PermitsInv, Traced, ScopesOf
  <2>2. task'[d].scope = x BY <1>c, <2>1 DEF RowsStep, RowRests, RowChanges
  <2> QED BY <2>1, <2>2 DEF ScopesOf
<1>4. RunningIsWorkedOn'
  <2> SUFFICES ASSUME active', "db_error" \notin env, NEW d \in Docs,
                      task'[d].status = "running", task'[d].tree = tree'[d]
               PROVE  \E w \in Workers :
                         task'[d].token = w /\ thread'[w].doc = d /\ thread'[w].pc \in Claiming
    BY DEF RunningIsWorkedOn, AsideStep
  <2>1. CASE RowRests(d)
    <3>1. active BY DEF AsideStep
    <3>2. task[d].tree = tree[d] /\ task[d].status = "running"
      BY <1>n, <2>1 DEF RowRests, AsideStep, TasksInv, RowOk
    <3>3. PICK w \in Workers : task[d].token = w /\ thread[w].doc = d /\ thread[w].pc \in Claiming
      BY <3>1, <3>2 DEF RunningIsWorkedOn
    <3>4. ~LetsGo(w) BY <2>1, <3>3 DEF LetsGo, RowRests
    <3>5. ~Claims(w) BY <3>3 DEF Claims
    <3>6. Keeps(w) BY <3>4, <3>5 DEF ThreadsStep
    <3> QED BY <2>1, <3>3, <3>6 DEF Keeps, RowRests
  <2>2. CASE RowClaimed(d)
    <3>1. PICK w \in Workers : /\ task'[d] = [task[d] EXCEPT !.status = "running", !.token = w]
                               /\ Claims(w) /\ thread'[w].doc = d
      BY <2>2 DEF RowClaimed
    <3>2. task'[d].token = w BY <1>t, <3>1 DEF TaskRows
    <3> QED BY <3>1, <3>2 DEF Claims
  <2>3. CASE RowChanges(d) BY <2>3 DEF RowChanges
  <2> QED BY <2>1, <2>2, <2>3 DEF RowsStep
<1>5. CompletedHasSummaries'
  <2> SUFFICES ASSUME NEW d \in Docs, task'[d].status = "completed"
               PROVE  overlay'[d] = [tree |-> task'[d].tree, model |-> task'[d].model]
    BY DEF CompletedHasSummaries
  <2>1. CASE RowRests(d) BY <2>1 DEF RowRests, CompletedHasSummaries
  <2>2. ~RowClaimed(d) BY <1>c
  <2>3. CASE RowChanges(d) BY <2>3 DEF RowChanges
  <2> QED BY <2>1, <2>2, <2>3 DEF RowsStep
<1>6. PublishedInTurn BY DEF PublishedInTurn, RowsStep, RowRests, RowClaimed, RowChanges
<1> QED BY <1>1, <1>2, <1>3, <1>4, <1>5, <1>6 DEF TasksInv

\* A step that writes neither rows nor summaries nor permits leaves them in order.
LEMMA Standing ==
    ASSUME UNCHANGED <<task, overlay, ledger>>
    PROVE  RowsStep /\ LedgerStep
  BY DEF RowsStep, RowRests, LedgerStep, LiftedByRetry, Traced

\* A thread that stays where it is keeps its claim, or has none.
LEMMA Bystander ==
    ASSUME NEW w \in Workers, thread'[w].pc = thread[w].pc, thread'[w].doc = thread[w].doc,
           thread'[w].scope = thread[w].scope
    PROVE  Keeps(w) \/ LetsGo(w)
  BY DEF Keeps, LetsGo

\* queue_eligible: a row that is written over gives up its scope.
LEMMA QueueEffects ==
    ASSUME EnrichmentAssumption, Shapes, NEW m \in Models, QueueEligible(m), UNCHANGED overlay
    PROVE  RowsStep /\ LedgerStep
<1>1. /\ ledger' \in Ledger!Ledgers /\ ledger'.suspended = ledger.suspended
      /\ \A x : Traced(ledger', x) =>
             Traced(ledger, x) /\ x \notin ScopesOf(task, {d \in Docs : task'[d] # task[d]})
  BY RevokingAll DEF QueueEligible, Shapes
<1>2. LedgerStep BY <1>1 DEF LedgerStep, LiftedByRetry
<1>3. ASSUME NEW d \in Docs, task'[d] # task[d] PROVE RowChanges(d)
  <2>1. task[d] \in TaskRows BY DEF Shapes
  <2>2. task'[d] = Queued(d, m) BY DEF QueueEligible
  <2>3. \/ task'[d] = Completed(task[d], Target(d, m)) /\ overlay[d] = Target(d, m)
        \/ task'[d] = Pending(d, m, "target", None)
    BY <1>3, <2>2 DEF Queued
  <2>4. task[d].scope = None \/ ~Traced(ledger', task[d].scope) BY <1>1, <1>3 DEF ScopesOf
  <2>5. CASE task'[d] = Completed(task[d], Target(d, m)) /\ overlay[d] = Target(d, m)
    <3>1. /\ task'[d].status = "completed" /\ task'[d].tree = tree[d] /\ task'[d].model = m
          /\ task'[d].scope = None
      BY <2>1, <2>5 DEF Completed, Target, TaskRows
    <3> QED BY <2>4, <2>5, <3>1 DEF RowChanges, Target
  <2>6. CASE task'[d] = Pending(d, m, "target", None)
    <3>1. task'[d].status = "pending" /\ task'[d].tree = tree[d] /\ task'[d].scope = None
      BY <2>6 DEF Pending
    <3> QED BY <2>4, <3>1 DEF RowChanges
  <2> QED BY <2>3, <2>5, <2>6
<1> QED BY <1>2, <1>3 DEF RowsStep, RowRests

\* A row that is closed is held by nobody, and has no scope.
LEMMA Closing ==
    ASSUME Shapes, NEW d \in Docs, NEW status, NEW error
    PROVE  LET t == Closed(task[d], status, error) IN
           /\ t.status = status /\ t.tree = task[d].tree /\ t.model = task[d].model
           /\ t.scope = None
<1>1. task[d] \in TaskRows BY DEF Shapes
<1> QED BY <1>1 DEF Closed, TaskRows

\* pending_document_ids fails what is gone.
LEMMA FailEffects ==
    ASSUME EnrichmentAssumption, Shapes, FailUnavailable, UNCHANGED overlay
    PROVE  RowsStep /\ LedgerStep
<1>1. /\ ledger' \in Ledger!Ledgers /\ ledger'.suspended = ledger.suspended
      /\ \A x : Traced(ledger', x) => Traced(ledger, x) /\ x \notin ScopesOf(task, Withdrawn)
  BY RevokingAll DEF FailUnavailable, Shapes
<1>2. LedgerStep BY <1>1 DEF LedgerStep, LiftedByRetry
<1>3. ASSUME NEW d \in Withdrawn PROVE RowChanges(d)
  <2>1. d \in Docs /\ task'[d] = Closed(task[d], "failed", "unavailable")
    BY DEF FailUnavailable, Withdrawn
  <2>2. task[d].scope = None \/ ~Traced(ledger', task[d].scope) BY <1>1 DEF ScopesOf
  <2> QED BY <2>1, <2>2, Closing DEF RowChanges
<1>4. ASSUME NEW d \in Docs \ Withdrawn PROVE RowRests(d) BY DEF FailUnavailable, RowRests
<1> QED BY <1>2, <1>3, <1>4 DEF RowsStep

\* _finish_task, whether or not the row is still the claim's own.
LEMMA FinishEffects ==
    ASSUME EnrichmentAssumption, Shapes, TasksInv, NEW w \in Workers, thread[w].pc \in Claiming,
           NEW status \in {"pending", "failed"}, NEW error, Finish(w, status, error),
           UNCHANGED overlay
    PROVE  RowsStep /\ LedgerStep /\ LetsGo(w)
<1> DEFINE d == thread[w].doc
<1>0. ThreadOk(thread[w]) /\ DOMAIN thread = Workers BY DEF Shapes, ThreadsOk
<1>1. d \in Docs /\ thread'[w].pc = "next" BY <1>0 DEF ThreadOk, Fields, HasDocument, Finish, Leave
<1>2. /\ ledger' \in Ledger!Ledgers /\ ledger'.suspended = ledger.suspended
      /\ \A x : Traced(ledger', x) => Traced(ledger, x) /\ x # thread[w].scope
  BY Revoking DEF Finish, Shapes
<1>3. LedgerStep BY <1>2 DEF LedgerStep, LiftedByRetry
<1>4. "next" \notin Claiming BY DEF Claiming
<1>5. CASE Held(d, w)
  <2>1. task' = [task EXCEPT ![d] = Closed(task[d], status, error)] BY <1>5 DEF Finish
  <2>2. task'[d] = Closed(task[d], status, error) BY <1>1, <2>1 DEF Shapes
  <2>3. task[d].scope = thread[w].scope BY <1>5 DEF TasksInv, ClaimOk
  <2>4. RowChanges(d) BY <1>1, <1>2, <2>2, <2>3, Closing DEF RowChanges
  <2>5. \A e \in Docs \ {d} : RowRests(e) BY <2>1 DEF RowRests, Shapes
  <2>6. LetsGo(w) BY <1>1, <1>4, <2>2, Closing DEF LetsGo
  <2> QED BY <1>3, <2>4, <2>5, <2>6 DEF RowsStep
<1>6. CASE ~Held(d, w)
  <2>1. task' = task BY <1>6 DEF Finish
  <2>2. LetsGo(w) BY <1>1, <1>4, <1>6, <2>1 DEF LetsGo, Held
  <2> QED BY <1>3, <2>1, <2>2 DEF RowsStep, RowRests
<1> QED BY <1>5, <1>6

\* A write that fails leaves the row, and the thread lets go of it.
LEMMA LostEffects ==
    ASSUME Shapes, NEW w \in Workers, FinishLost(w), UNCHANGED overlay
    PROVE  RowsStep /\ LedgerStep /\ LetsGo(w)
<1>1. ThreadOk(thread[w]) /\ DOMAIN thread = Workers BY DEF Shapes, ThreadsOk
<1>2. thread'[w].pc = "next" /\ "db_error" \in env
  BY <1>1 DEF FinishLost, Leave, ThreadOk, Fields
<1>3. LetsGo(w) BY <1>2 DEF LetsGo, Claiming
<1> QED BY <1>3, Standing DEF FinishLost

\* _publish: the overlay, the row and its permits in one transaction.
LEMMA PublishEffects ==
    ASSUME EnrichmentAssumption, Shapes, TasksInv, NEW w \in Workers, thread[w].pc \in Claiming,
           Published(w), Leave(w), UNCHANGED tree
    PROVE  RowsStep /\ LedgerStep /\ LetsGo(w)
<1> DEFINE d == thread[w].doc
<1>0. ThreadOk(thread[w]) /\ DOMAIN thread = Workers BY DEF Shapes, ThreadsOk
<1>1. d \in Docs /\ thread'[w].pc = "next" BY <1>0 DEF ThreadOk, Fields, HasDocument, Leave
<1>4. "next" \notin Claiming BY DEF Claiming
<1>5. CASE ~StillCurrent(w)
  <2>1. UNCHANGED <<task, overlay, ledger>> BY <1>5 DEF Published
  <2>2. LetsGo(w) BY <1>1, <1>4, <1>5, <2>1 DEF LetsGo, Held, StillCurrent
  <2> QED BY <2>1, <2>2, Standing
<1>6. CASE StillCurrent(w)
  <2>1. task[d].scope = thread[w].scope /\ task[d].tree = tree[d]
    BY <1>6 DEF TasksInv, ClaimOk, StillCurrent
  <2>2. /\ ledger' \in Ledger!Ledgers /\ ledger'.suspended = ledger.suspended
        /\ \A x : Traced(ledger', x) => Traced(ledger, x) /\ x # thread[w].scope
    BY <1>6, <2>1, Revoking DEF Published, Shapes
  <2>3. LedgerStep BY <2>2 DEF LedgerStep, LiftedByRetry
  <2>4. PICK status \in {"failed", "completed"}, error \in {"unavailable", "none"} :
           /\ task' = [task EXCEPT ![d] = Closed(task[d], status, error)]
           /\ status = "completed" => overlay' = [overlay EXCEPT ![d] = Target(d, task[d].model)]
           /\ status = "failed" => UNCHANGED overlay
    BY <1>6 DEF Published
  <2>5. task'[d] = Closed(task[d], status, error) BY <1>1, <2>4 DEF Shapes
  <2>6. RowChanges(d)
    <3>1. /\ task'[d].status = status /\ task'[d].tree = tree[d] /\ task'[d].model = task[d].model
          /\ task'[d].scope = None
      BY <1>1, <2>1, <2>5, Closing
    <3>2. status = "completed" =>
             overlay'[d] = [tree |-> tree[d], model |-> task[d].model]
      BY <1>1, <2>4 DEF Target, Shapes
    <3> QED BY <1>1, <2>1, <2>2, <2>4, <3>1, <3>2 DEF RowChanges
  <2>7. \A e \in Docs \ {d} : RowRests(e) BY <2>4 DEF RowRests, Shapes
  <2>8. LetsGo(w) BY <1>1, <1>4, <2>5, Closing DEF LetsGo
  <2> QED BY <2>3, <2>6, <2>7, <2>8 DEF RowsStep
<1> QED BY <1>5, <1>6

\* _claim takes a pending row of the current tree, with the scope of its retry.
LEMMA ClaimEffects ==
    ASSUME EnrichmentAssumption, Shapes, TasksInv, NEW w \in Workers, Claim(w)
    PROVE  RowsStep /\ LedgerStep /\ (Claims(w) \/ LetsGo(w))
<1> DEFINE d == thread[w].doc  scope == IF task[d].reason = "retry" THEN task[d].scope ELSE None
<1>0. ThreadOk(thread[w]) /\ DOMAIN thread = Workers BY DEF Shapes, ThreadsOk
<1>1. d \in Docs /\ thread[w].pc = "claim" BY <1>0 DEF Claim, ThreadOk, HasDocument
<1>2. UNCHANGED <<overlay, ledger>> BY DEF Claim
<1>3. LedgerStep BY <1>2 DEF LedgerStep, LiftedByRetry, Traced
<1>4. CASE Leave(w) /\ UNCHANGED task
  <2>1. thread'[w].pc = "next" BY <1>0, <1>4 DEF Leave, ThreadOk, Fields
  <2>2. LetsGo(w) BY <1>1, <2>1 DEF LetsGo, Claiming
  <2> QED BY <1>2, <1>4, <2>2, Standing
<1>5. CASE /\ task' = [task EXCEPT ![d].status = "running", ![d].token = w]
           /\ thread' = [thread EXCEPT ![w].pc = "dispatch", ![w].scope = scope]
  <2>1. task[d] \in TaskRows BY <1>1 DEF Shapes
  <2>2. task'[d] = [task[d] EXCEPT !.status = "running", !.token = w] BY <1>1, <1>5 DEF Shapes
  <2>3. task'[d].scope = task[d].scope BY <2>1, <2>2 DEF TaskRows
  <2>4. scope = task[d].scope BY <1>1 DEF TasksInv, RowOk
  <2> HIDE DEF scope
  <2>5. thread'[w].pc = "dispatch" /\ thread'[w].doc = d /\ thread'[w].scope = scope
    BY <1>0, <1>5 DEF ThreadOk, Fields
  <2>6. Claims(w) BY <1>1, <2>3, <2>4, <2>5 DEF Claims, Claiming
  <2>7. RowClaimed(d) BY <1>2, <2>2, <2>5, <2>6 DEF RowClaimed
  <2>8. \A e \in Docs \ {d} : RowRests(e) BY <1>2, <1>5 DEF RowRests, Shapes
  <2> QED BY <1>3, <2>6, <2>7, <2>8 DEF RowsStep
<1> QED BY <1>4, <1>5 DEF Claim

\* suspend adds suspensions, and no permits; mark_ready lifts what a permit is for.
LEMMA LedgerEffects ==
    ASSUME EnrichmentAssumption, Shapes, NEW w \in Workers,
           Invalid(w) \/ CallFails(w) \/ MarkOperationsReady(w)
    PROVE  RowsStep /\ LedgerStep
<1> DEFINE t == thread[w]  m == t.gw.model
<1>0. ThreadOk(t) BY DEF Shapes, ThreadsOk
<1>1. m \in Models
  BY <1>0 DEF ThreadOk, IsGateway, HasGateway, Working, Claiming, Invalid, CallFails,
              MarkOperationsReady
<1>2. t.scope \in Scopes \cup {None} BY <1>0 DEF ThreadOk
<1>3. Summaries(m) \in TaskContracts /\ Repair(m) \in TaskContracts BY <1>1 DEF TaskContracts
<1>4. UNCHANGED <<task, overlay>> BY DEF Invalid, CallFails, MarkOperationsReady
<1>5. RowsStep BY <1>4 DEF RowsStep, RowRests
<1>6. \E f \in Ledger!CallFailures : TRUE BY DEF Ledger!CallFailures
<1>7. ledger \in Ledger!Ledgers BY DEF Shapes
<1>8. ASSUME Invalid(w) \/ CallFails(w) PROVE LedgerStep
  <2>1. \E c \in TaskContracts, p \in TaskContracts \cup {None}, f \in Ledger!CallFailures :
           \/ UNCHANGED ledger
           \/ ledger' \in {Ledger!SuspendFailedCall(ledger, c, p, f),
                           Ledger!SuspendInvalidAnswer(ledger, c, p)}
    BY <1>3, <1>6, <1>8 DEF Invalid, CallFails
  <2>2. CASE UNCHANGED ledger BY <2>2 DEF LedgerStep, LiftedByRetry, Traced
  <2>3. CASE ~UNCHANGED ledger
    <3>1. /\ ledger.suspended \subseteq ledger'.suspended
          /\ \A x : Traced(ledger', x) => Traced(ledger, x)
      BY <1>7, <2>1, <2>3, Failing
    <3> QED BY <3>1 DEF LedgerStep, LiftedByRetry
  <2> QED BY <2>2, <2>3
<1>9. ASSUME MarkOperationsReady(w) PROVE LedgerStep
  <2> DEFINE one == Ledger!MarkResultReady(ledger, Summaries(m), t.scope)
             two == Ledger!MarkResultReady(one, Repair(m), t.scope)
  <2>1. t.pc = "ready" /\ ledger' \in {one, two} BY <1>9 DEF MarkOperationsReady
  <2> DEFINE c == Summaries(m)  r == Repair(m)  scope == t.scope
  <2>a. c \in TaskContracts /\ r \in TaskContracts /\ scope \in Scopes \cup {None} BY <1>2, <1>3
  <2> HIDE DEF c, r, scope
  <2>2. /\ one \in Ledger!Ledgers /\ one.permits \subseteq ledger.permits
        /\ \A x : Traced(one, x) => Traced(ledger, x)
        /\ \A e \in ledger.suspended \ one.suspended : e = c /\ <<c, scope>> \in ledger.permits
    <3>1. one = Ledger!MarkResultReady(ledger, c, scope) BY DEF c, scope
    <3> HIDE DEF one
    <3> QED BY <1>7, <2>a, <3>1, Readying
  <2>3. /\ \A x : Traced(two, x) => Traced(one, x)
        /\ \A e \in one.suspended \ two.suspended : e = r /\ <<r, scope>> \in one.permits
    <3>1. two = Ledger!MarkResultReady(one, r, scope) BY DEF r, scope
    <3> HIDE DEF one, two
    <3> QED BY <2>a, <2>2, <3>1, Readying
  <2> HIDE DEF one, two, t
  <2>4. \A x : Traced(ledger', x) => Traced(ledger, x) BY <2>1, <2>2, <2>3
  <2>5. \A e \in ledger.suspended \ ledger'.suspended : <<e, t.scope>> \in ledger.permits
    BY <2>1, <2>2, <2>3 DEF scope
  <2>6. LiftedByRetry BY <2>1, <2>5 DEF LiftedByRetry, t
  <2> QED BY <2>4, <2>6 DEF LedgerStep
<1> QED BY <1>5, <1>8, <1>9

\* A start of the worker takes an idle thread to the head of the loop.
LEMMA StartClaims ==
    ASSUME NEW g, NEW threads, DOMAIN threads = Workers, Start(g, threads), NEW w \in Workers
    PROVE  \/ thread'[w] = threads[w]
           \/ threads[w].pc = "idle" /\ thread'[w].pc \notin Claiming
<1>1. CASE thread' = threads BY <1>1
<1>2. CASE thread' # threads
  <2>1. PICK u : threads[u].pc = "idle" /\ thread' = [threads EXCEPT ![u] = [Idle EXCEPT !.pc = "top"]]
    BY <1>2 DEF Start
  <2> QED BY <2>1 DEF Idle, Claiming
<1> QED BY <1>1, <1>2

\* A worker holds a claim between _claim and _finish_task or _publish, and nowhere else.
LEMMA WorkerClaims ==
    ASSUME EnrichmentAssumption, Shapes, TasksInv, NEW w \in Workers, WorkerStep(w)
    PROVE  RowsStep /\ LedgerStep /\ ThreadsStep
<1> DEFINE t == thread[w]
<1>0. ThreadOk(t) /\ DOMAIN thread = Workers BY DEF Shapes, ThreadsOk
<1>b. ASSUME \A u \in Workers \ {w} : thread'[u] = thread[u]
      PROVE  \A u \in Workers \ {w} : Keeps(u) \/ LetsGo(u)
  BY <1>b, Bystander
<1>o. (\A u \in Workers \ {w} : thread'[u] = thread[u]) \/ Restart(w)
  <2>1. ASSUME NEW x, thread' = [thread EXCEPT ![w] = x]
        PROVE  \A u \in Workers \ {w} : thread'[u] = thread[u]
    BY <1>0, <2>1
  <2> QED
    BY <2>1, <1>0 DEF WorkerStep, Top, Queue, List, Next, Claim, Dispatch, Answer, Invalid, CallFails,
         CallCancelled, Fail, MarkOperationsReady, Publish, Published, After, Remaining, Release,
         Final, DatabaseError, Goto, InterruptClaim, Finish, FinishLost, Leave
<1>g. \A pc : Goto(w, pc) => thread'[w].pc = pc /\ thread'[w].doc = t.doc /\ thread'[w].scope = t.scope
  BY <1>0 DEF Goto, ThreadOk, Fields
<1>m. t.pc \in HasGateway => t.gw.model \in Models BY <1>0 DEF ThreadOk, IsGateway
<1>1. CASE Top(w) \/ Next(w) \/ Release(w) \/ Final(w)
  <2>1. t.pc \notin Claiming BY <1>1 DEF Top, Next, Release, Final, Claiming
  <2>2. thread'[w].pc \notin Claiming
    <3>1. CASE Top(w) BY <1>0, <1>g, <3>1 DEF Top, Claiming, ThreadOk, Fields
    <3>2. CASE Next(w)
      <4>1. \E pc \in {"after", "next", "claim"} : \E d, todo :
               \/ thread' = [thread EXCEPT ![w].pc = pc, ![w].todo = todo]
               \/ thread' = [thread EXCEPT ![w].pc = pc, ![w].doc = d, ![w].todo = todo]
        BY <3>2 DEF Next
      <4> QED BY <1>0, <4>1 DEF Claiming, ThreadOk, Fields
    <3>3. CASE Release(w) BY <1>0, <1>g, <3>3 DEF Release, Claiming, Idle
    <3>4. CASE Final(w) BY <1>0, <3>4 DEF Final, Claiming, Idle
    <3> QED BY <1>1, <3>1, <3>2, <3>3, <3>4
  <2>3. LetsGo(w) BY <2>1, <2>2 DEF LetsGo
  <2>4. UNCHANGED <<task, overlay, ledger>> BY <1>1 DEF Top, Next, Release, Final, database
  <2>5. ~Restart(w) BY <1>1 DEF Top, Next, Release, Final, Restart
  <2> QED BY <1>b, <1>o, <2>3, <2>4, <2>5, Standing DEF ThreadsStep
<1>2. CASE Queue(w) \/ List(w) \/ After(w) \/ Remaining(w)
  <2>1. t.pc \notin Claiming BY <1>2 DEF Queue, List, After, Remaining, Claiming
  <2>2. thread'[w].pc \notin Claiming
    BY <1>0, <1>2 DEF Queue, List, After, Remaining, Goto, Claiming, ThreadOk, Fields
  <2>3. LetsGo(w) BY <2>1, <2>2 DEF LetsGo
  <2>4. ~Restart(w) BY <1>2 DEF Queue, List, After, Remaining, Restart
  <2>5. /\ UNCHANGED overlay
        /\ \/ UNCHANGED <<task, overlay, ledger>>
           \/ FailUnavailable
           \/ t.gw.model \in Models /\ QueueEligible(t.gw.model)
    BY <1>2, <1>m DEF Queue, List, After, Remaining, HasGateway, Working
  <2>6. RowsStep /\ LedgerStep BY <2>5, Standing, FailEffects, QueueEffects
  <2> QED BY <1>b, <1>o, <2>3, <2>4, <2>6 DEF ThreadsStep
<1>3. CASE Restart(w)
  <2>1. t.pc = "restart" /\ Start(t.gw, [thread EXCEPT ![w] = Idle]) BY <1>3 DEF Restart
  <2>2. ASSUME NEW u \in Workers PROVE Keeps(u) \/ LetsGo(u)
    <3> DEFINE threads == [thread EXCEPT ![w] = Idle]
    <3>1. \/ thread'[u] = threads[u]
          \/ threads[u].pc = "idle" /\ thread'[u].pc \notin Claiming
      BY <1>0, <2>1, StartClaims
    <3>2. thread[u] = threads[u] \/ (u = w /\ threads[u] = Idle) BY <1>0
    <3>3. t.pc \notin Claiming /\ Idle.pc \notin Claiming /\ "idle" \notin Claiming
      BY <2>1 DEF Idle, Claiming
    <3> HIDE DEF threads
    <3> QED BY <3>1, <3>2, <3>3, Bystander DEF LetsGo
  <2>3. UNCHANGED <<task, overlay, ledger>> BY <1>3 DEF Restart, database
  <2> QED BY <2>2, <2>3, Standing DEF ThreadsStep
<1>4. CASE Claim(w)
  <2>1. ~Restart(w) BY <1>4 DEF Claim, Restart
  <2> QED BY <1>b, <1>o, <1>4, <2>1, ClaimEffects DEF ThreadsStep
<1>5. CASE Answer(w) \/ Invalid(w) \/ CallFails(w) \/ MarkOperationsReady(w)
  <2>1. t.pc \in Claiming BY <1>5 DEF Answer, Invalid, CallFails, MarkOperationsReady, Claiming
  <2>2. /\ thread'[w].pc \in Claiming /\ thread'[w].doc = t.doc /\ thread'[w].scope = t.scope
    BY <1>0, <1>5, <1>g DEF Answer, Invalid, CallFails, MarkOperationsReady, Claiming, ThreadOk, Fields
  <2>3. Keeps(w) BY <2>1, <2>2 DEF Keeps
  <2>4. ~Restart(w) BY <1>5 DEF Answer, Invalid, CallFails, MarkOperationsReady, Restart
  <2>5. Answer(w) => UNCHANGED <<task, overlay, ledger>> BY DEF Answer, database
  <2>6. RowsStep /\ LedgerStep BY <1>5, <2>5, Standing, LedgerEffects
  <2> QED BY <1>b, <1>o, <2>3, <2>4, <2>6 DEF ThreadsStep
<1>6. CASE Dispatch(w) \/ CallCancelled(w) \/ Fail(w) \/ Publish(w)
  <2>1. t.pc \in Claiming /\ ~Restart(w)
    BY <1>6 DEF Dispatch, CallCancelled, Fail, Publish, Claiming, Restart
  <2>2. \/ Goto(w, "calling") /\ UNCHANGED <<task, overlay, ledger>>
        \/ FinishLost(w) /\ UNCHANGED overlay
        \/ /\ \E s \in {"pending", "failed"}, e \in {"interrupted", "failed"} : Finish(w, s, e)
           /\ UNCHANGED overlay
        \/ Published(w) /\ Leave(w) /\ UNCHANGED tree
    BY <1>6 DEF Dispatch, CallCancelled, Fail, Publish, InterruptClaim
  <2>3. CASE Goto(w, "calling") /\ UNCHANGED <<task, overlay, ledger>>
    <3>1. Keeps(w) BY <1>g, <2>1, <2>3 DEF Keeps, Claiming
    <3> QED BY <1>b, <1>o, <2>1, <2>3, <3>1, Standing DEF ThreadsStep
  <2>4. CASE ~(Goto(w, "calling") /\ UNCHANGED <<task, overlay, ledger>>)
    <3>1. RowsStep /\ LedgerStep /\ LetsGo(w)
      BY <2>1, <2>2, <2>4, FinishEffects, LostEffects, PublishEffects
    <3> QED BY <1>b, <1>o, <2>1, <3>1 DEF ThreadsStep
  <2> QED BY <2>3, <2>4
<1>7. CASE DatabaseError(w)
  <2>1. UNCHANGED <<task, overlay, ledger>> /\ "db_error" \in env BY <1>7 DEF DatabaseError, database
  <2>2. Keeps(w) \/ LetsGo(w)
    <3>1. \/ Goto(w, "final")
          \/ t.pc \in Claiming /\ Goto(w, "failing")
      BY <1>7 DEF DatabaseError, Claiming
    <3> QED BY <1>g, <2>1, <3>1 DEF Keeps, LetsGo, Claiming
  <2>3. ~Restart(w) BY <1>7 DEF DatabaseError, Restart
  <2> QED BY <1>b, <1>o, <2>1, <2>2, <2>3, Standing DEF ThreadsStep
<1> QED BY <1>1, <1>2, <1>3, <1>4, <1>5, <1>6, <1>7 DEF WorkerStep

\* What a worker does is of the few kinds that Effects lists.
LEMMA WorkerEffects ==
    ASSUME EnrichmentAssumption, Shapes, TasksInv, NEW w \in Workers, WorkerStep(w)
    PROVE  Effects
<1>1. UNCHANGED <<tree, active, env>> BY WorkerFrame
<1>2. \A d \in Docs : tree[d] <= tree'[d] BY <1>1 DEF Shapes, EnrichmentAssumption
<1>3. AsideStep BY <1>1, <1>2 DEF AsideStep
<1> QED BY <1>3, WorkerClaims DEF Effects

\* A request that leaves the threads and the trees alone.
LEMMA RequestAside ==
    ASSUME EnrichmentAssumption, Shapes, UNCHANGED <<tree, active, env, thread>>
    PROVE  ThreadsStep /\ AsideStep
<1>1. ThreadsStep BY Bystander DEF ThreadsStep
<1>2. \A d \in Docs : tree[d] <= tree'[d] BY DEF Shapes, EnrichmentAssumption
<1> QED BY <1>1, <1>2 DEF AsideStep

\* So is what happens to a document.
LEMMA DocumentEffects ==
    ASSUME EnrichmentAssumption, Shapes, TasksInv, NEW d \in Docs, DocumentStep(d)
    PROVE  Effects
<1>0. task[d] \in TaskRows /\ ledger \in Ledger!Ledgers /\ DOMAIN task = Docs BY DEF Shapes
<1>1. CASE RetryTask(d)
  <2>1. PICK scope \in Scopes :
           /\ task' = [task EXCEPT ![d] =
                          [task[d] EXCEPT !.status = "pending", !.reason = "retry", !.error = "none",
                                          !.scope = scope, !.token = None]]
           /\ ledger' = Ledger!Revoke(Ledger!Authorize(ledger, {Summaries(settings), Repair(settings)}, scope),
                                      task[d].scope)
    BY <1>1 DEF RetryTask, FreeScopes
  <2> DEFINE granted == Ledger!Authorize(ledger, {Summaries(settings), Repair(settings)}, scope)
  <2>2. {Summaries(settings), Repair(settings)} \in SUBSET TaskContracts BY DEF Shapes, TaskContracts
  <2>3. /\ granted \in Ledger!Ledgers /\ granted.suspended = ledger.suspended
        /\ \A x : Traced(granted, x) => Traced(ledger, x) \/ x = scope
    BY <1>0, <2>2, Authorizing
  <2> HIDE DEF granted
  <2>4. /\ ledger'.suspended = granted.suspended
        /\ \A x : Traced(ledger', x) => Traced(granted, x) /\ x # task[d].scope
    <3>1. ledger' = Ledger!Revoke(granted, task[d].scope) BY <2>1 DEF granted
    <3> QED BY <2>3, <3>1, Revoking
  <2>5. /\ task'[d].status = "pending" /\ task'[d].tree = task[d].tree
        /\ task'[d].reason = "retry" /\ task'[d].scope = scope
    BY <1>0, <2>1 DEF TaskRows
  <2>6. scope \in ScopesOf(task', Docs) BY <2>5 DEF ScopesOf, EnrichmentAssumption
  <2>7. LedgerStep BY <2>3, <2>4, <2>6 DEF LedgerStep, LiftedByRetry
  <2>8. UNCHANGED <<tree, active, env, thread, overlay>> BY <1>1 DEF RetryTask, Event
  <2>9. RowChanges(d) BY <2>4, <2>5, <2>8 DEF RowChanges
  <2>10. \A e \in Docs \ {d} : RowRests(e) BY <1>0, <2>1, <2>8 DEF RowRests
  <2> QED BY <2>7, <2>8, <2>9, <2>10, RequestAside DEF Effects, RowsStep
<1>2. CASE Cancel(d)
  <2>1. UNCHANGED <<tree, active, env, thread, overlay>> BY <1>2 DEF Cancel, Event
  <2>2. task' = [task EXCEPT ![d] = Interrupted(task[d])] BY <1>2 DEF Cancel
  <2>3. /\ task'[d].status = "pending" /\ task'[d].tree = task[d].tree /\ task'[d].scope = None
    BY <1>0, <2>2 DEF Interrupted, TaskRows
  <2>4. /\ ledger'.suspended = ledger.suspended
        /\ \A x : Traced(ledger', x) => Traced(ledger, x) /\ x # task[d].scope
    BY <1>0, <1>2, Revoking DEF Cancel
  <2>5. LedgerStep BY <2>4 DEF LedgerStep, LiftedByRetry
  <2>6. RowChanges(d) BY <2>1, <2>3, <2>4 DEF RowChanges
  <2>7. \A e \in Docs \ {d} : RowRests(e) BY <1>0, <2>1, <2>2 DEF RowRests
  <2> QED BY <2>1, <2>5, <2>6, <2>7, RequestAside DEF Effects, RowsStep
<1>3. CASE StartRebuild(d) \/ ChangeAvailability(d)
  <2>1. UNCHANGED <<tree, active, env, thread, overlay, task, ledger>>
    BY <1>3 DEF StartRebuild, ChangeAvailability, Event
  <2> QED BY <2>1, RequestAside, Standing DEF Effects
<1>4. CASE EndRebuild(d)
  <2>1. UNCHANGED <<active, env, thread, overlay, task, ledger>> BY <1>4 DEF EndRebuild, quiet
  <2>2. \A e \in Docs : tree[e] <= tree'[e] BY <1>4 DEF EndRebuild, Shapes, EnrichmentAssumption
  <2>3. ThreadsStep BY <2>1, Bystander DEF ThreadsStep
  <2> QED BY <2>1, <2>2, <2>3, Standing DEF Effects, AsideStep
<1> QED BY <1>1, <1>2, <1>3, <1>4 DEF DocumentStep

\* recover_interrupted: nobody holds a row afterwards, and no permit is left.
LEMMA OpeningEffects ==
    ASSUME EnrichmentAssumption, Shapes, TasksInv, Open \/ OpenOther
    PROVE  Effects
<1>1. UNCHANGED <<tree, env, overlay>> /\ thread' = Outdated BY DEF Open, OpenOther, Event
<1>2. /\ ledger'.suspended = ledger.suspended
      /\ \A x : Traced(ledger', x) => Traced(ledger, x) /\ x \notin ScopesOf(task, Docs)
  BY RevokingAll, Discarding DEF Open, OpenOther, Shapes
<1>3. LedgerStep BY <1>2 DEF LedgerStep, LiftedByRetry
<1>4. ASSUME NEW d \in Docs
      PROVE  \/ RowRests(d) /\ task'[d].status # "running"
             \/ RowChanges(d)
  <2>1. task[d] \in TaskRows BY DEF Shapes
  <2>2. task'[d] = Recovered(task[d]) BY DEF Open, OpenOther
  <2>3. CASE Recoverable(task[d])
    <3>1. task'[d].status = "pending" /\ task'[d].tree = task[d].tree /\ task'[d].scope = None
      BY <2>1, <2>2, <2>3 DEF Recovered, Interrupted, TaskRows
    <3>2. task[d].scope = None \/ ~Traced(ledger', task[d].scope) BY <1>2 DEF ScopesOf
    <3> QED BY <1>1, <3>1, <3>2 DEF RowChanges
  <2>4. CASE ~Recoverable(task[d])
    BY <1>1, <2>2, <2>4 DEF Recovered, Recoverable, RowRests
  <2> QED BY <2>3, <2>4
<1>5. ThreadsStep
  <2>1. ASSUME NEW w \in Workers
        PROVE  /\ thread'[w].pc = thread[w].pc /\ thread'[w].doc = thread[w].doc
               /\ thread'[w].scope = thread[w].scope
    <3>1. ThreadOk(thread[w]) BY DEF Shapes, ThreadsOk
    <3> QED BY <1>1, <3>1 DEF Outdated, ThreadOk, Fields
  <2> QED BY <2>1, Bystander DEF ThreadsStep
<1>6. \A d \in Docs : tree[d] <= tree'[d] BY <1>1 DEF Shapes, EnrichmentAssumption
<1>7. AsideStep BY <1>1, <1>4, <1>6 DEF AsideStep, RowChanges
<1> QED BY <1>3, <1>4, <1>5, <1>7 DEF Effects, RowsStep

\* So is what happens to the engine.
LEMMA EngineEffects ==
    ASSUME EnrichmentAssumption, Shapes, TasksInv, EngineStep
    PROVE  Effects
<1>0. DOMAIN thread = Workers BY DEF Shapes, ThreadsOk
<1>1. CASE BuildGateway \/ VerifySettings \/ \E m \in Models : SaveSettings(m)
  <2>1. UNCHANGED <<tree, active, env, thread, overlay, task, ledger>>
    BY <1>1 DEF BuildGateway, VerifySettings, SaveSettings, Event, database
  <2> QED BY <2>1, RequestAside, Standing DEF Effects
<1>2. CASE StartAfterImport \/ RetryStart
  <2>1. UNCHANGED <<tree, active, env, overlay, task, ledger>>
    BY <1>2 DEF StartAfterImport, RetryStart, quiet, database
  <2>2. \E g : Start(g, thread) BY <1>2 DEF StartAfterImport, RetryStart
  <2>3. ASSUME NEW w \in Workers PROVE Keeps(w) \/ LetsGo(w)
    <3>1. \/ thread'[w] = thread[w]
          \/ thread[w].pc = "idle" /\ thread'[w].pc \notin Claiming
      BY <1>0, <2>2, StartClaims
    <3>2. "idle" \notin Claiming BY DEF Claiming
    <3> QED BY <3>1, <3>2, Bystander DEF LetsGo
  <2>4. \A d \in Docs : tree[d] <= tree'[d] BY <2>1 DEF Shapes, EnrichmentAssumption
  <2>5. AsideStep BY <2>1, <2>4 DEF AsideStep
  <2> QED BY <2>1, <2>3, <2>5, Standing DEF Effects, ThreadsStep
<1>3. CASE Crash
  <2>1. UNCHANGED <<tree, env, overlay, task, ledger>> /\ ~active'
    BY <1>3 DEF Crash, database, Event
  <2>2. \A w \in Workers : LetsGo(w) BY <1>3, <2>1 DEF Crash, LetsGo, Idle, Claiming
  <2>3. \A d \in Docs : tree[d] <= tree'[d] BY <2>1 DEF Shapes, EnrichmentAssumption
  <2>4. AsideStep BY <2>1, <2>3 DEF AsideStep
  <2> QED BY <2>1, <2>2, <2>4, Standing DEF Effects, ThreadsStep
<1> QED BY <1>1, <1>2, <1>3, OpeningEffects DEF EngineStep

\* Every step is of the few kinds that Effects lists.
LEMMA NextEffects == ASSUME EnrichmentAssumption, Shapes, TasksInv, NextState PROVE Effects
  BY WorkerEffects, DocumentEffects, EngineEffects DEF NextState

-----------------------------------------------------------------------------
(* One worker.                                                             *)

\* Who works is told by the points of the threads alone.
LEMMA SameWorkers ==
    ASSUME NEW threads, NEW reg, OneWorkerIn(threads, reg), NEW others,
           \A w \in Workers : others[w].pc \in Working <=> threads[w].pc \in Working
    PROVE  OneWorkerIn(others, reg)
  BY DEF OneWorkerIn

\* A start registers a thread only when none is registered.
LEMMA StartKeepsOne ==
    ASSUME NEW g, NEW threads, DOMAIN threads = Workers, OneWorkerIn(threads, registered),
           Start(g, threads)
    PROVE  OneWorker'
<1>1. CASE ~active \/ g.model \notin verified BY <1>1 DEF Start, OneWorker
<1>2. CASE ~(~active \/ g.model \notin verified) /\ registered BY <1>2 DEF Start, OneWorker, OneWorkerIn
<1>3. CASE ~(~active \/ g.model \notin verified) /\ ~registered
  <2>1. PICK u \in Workers : thread' = [threads EXCEPT ![u] = [Idle EXCEPT !.pc = "top"]]
    BY <1>3 DEF Start
  <2>2. registered' = TRUE BY <1>3 DEF Start
  <2>3. thread'[u].pc = "top" BY <2>1 DEF Idle
  <2>4. \A v \in Workers \ {u} : thread'[v].pc \notin Working BY <1>3, <2>1 DEF OneWorkerIn
  <2>5. "top" \in Working BY DEF Working
  <2> QED BY <2>2, <2>3, <2>4, <2>5 DEF OneWorker, OneWorkerIn
<1> QED BY <1>1, <1>2, <1>3

\* The worker is registered until it ends, in the release or in the finally clause.
LEMMA WorkerKeepsOne ==
    ASSUME EnrichmentAssumption, Shapes, OneWorker, NEW w \in Workers, WorkerStep(w)
    PROVE  OneWorker'
<1> DEFINE t == thread[w]
<1>0. ThreadOk(t) /\ DOMAIN thread = Workers BY DEF Shapes, ThreadsOk
<1>1. CASE Restart(w)
  <2>1. OneWorkerIn([thread EXCEPT ![w] = Idle], registered)
    <3>1. \A u \in Workers : [thread EXCEPT ![w] = Idle][u].pc \in Working <=> thread[u].pc \in Working
      BY <1>0, <1>1 DEF Restart, Idle, Working, Claiming
    <3> QED BY <3>1, SameWorkers DEF OneWorker
  <2>2. Start(t.gw, [thread EXCEPT ![w] = Idle]) /\ DOMAIN [thread EXCEPT ![w] = Idle] = Workers
    BY <1>0, <1>1 DEF Restart
  <2> QED BY <2>1, <2>2, StartKeepsOne
<1>2. CASE Final(w) \/ (Release(w) /\ ~rerun)
  <2>1. t.pc \in Working BY <1>2 DEF Final, Release, Working
  <2>2. registered' = FALSE BY <1>2 DEF Final, Release
  <2>3. \A u \in Workers \ {w} : thread'[u] = thread[u] /\ thread[u].pc \notin Working
    BY <1>0, <1>2, <2>1 DEF Final, Release, OneWorker, OneWorkerIn
  <2>4. thread'[w].pc \in {"idle", "restart"}
    <3>1. CASE Final(w) BY <1>0, <3>1 DEF Final, Idle
    <3>2. CASE Release(w) /\ ~rerun BY <1>0, <3>2 DEF Release, Idle
    <3> QED BY <1>2, <3>1, <3>2
  <2>5. thread'[w].pc \notin Working BY <2>4 DEF Working, Claiming
  <2> QED BY <2>2, <2>3, <2>5 DEF OneWorker, OneWorkerIn
<1>3. CASE ~(Restart(w) \/ Final(w) \/ (Release(w) /\ ~rerun))
  <2>1. UNCHANGED registered
    BY <1>3 DEF WorkerStep, Top, Queue, List, Next, Claim, Dispatch, Answer, Invalid, CallFails,
         CallCancelled, Fail, MarkOperationsReady, Publish, After, Remaining, Release,
         DatabaseError, aside, memory
  <2>g. \A pc : Goto(w, pc) => thread'[w].pc = pc BY <1>0 DEF Goto, ThreadOk, Fields
  <2>l. Leave(w) => thread'[w].pc = "next" BY <1>0 DEF Leave, ThreadOk, Fields
  <2>2. t.pc \in Working
    BY <1>3 DEF WorkerStep, Top, Queue, List, Next, Claim, Dispatch, Answer, Invalid, CallFails,
         CallCancelled, Fail, MarkOperationsReady, Publish, After, Remaining, Release,
         DatabaseError, Working, Claiming
  <2>3. thread'[w].pc \in Working
    <3> USE DEF Working, Claiming
    <3>1. CASE Queue(w) \/ Answer(w) \/ CallFails(w) \/ MarkOperationsReady(w) \/ After(w)
               \/ Remaining(w) \/ DatabaseError(w) \/ Release(w)
      BY <1>3, <2>g, <3>1 DEF Queue, Answer, CallFails, MarkOperationsReady, After, Remaining,
                              DatabaseError, Release
    <3>2. CASE Dispatch(w) \/ CallCancelled(w) \/ Fail(w) \/ Publish(w)
      BY <2>g, <2>l, <3>2 DEF Dispatch, CallCancelled, Fail, Publish, InterruptClaim, Finish, FinishLost
    <3>3. CASE Top(w) BY <1>0, <2>g, <3>3 DEF Top, ThreadOk, Fields
    <3>4. CASE Next(w)
      <4>1. \E pc \in {"after", "next", "claim"} : \E d, todo :
               \/ thread' = [thread EXCEPT ![w].pc = pc, ![w].todo = todo]
               \/ thread' = [thread EXCEPT ![w].pc = pc, ![w].doc = d, ![w].todo = todo]
        BY <3>4 DEF Next
      <4> QED BY <1>0, <4>1 DEF ThreadOk, Fields
    <3>5. CASE List(w) BY <1>0, <3>5 DEF List, ThreadOk, Fields
    <3>6. CASE Claim(w) BY <1>0, <2>l, <3>6 DEF Claim, ThreadOk, Fields
    <3>7. CASE Invalid(w) BY <1>0, <2>g, <3>7 DEF Invalid, ThreadOk, Fields
    <3> QED BY <1>3, <3>1, <3>2, <3>3, <3>4, <3>5, <3>6, <3>7 DEF WorkerStep
  <2>4. \A u \in Workers \ {w} : thread'[u] = thread[u]
    <3>1. ASSUME NEW x, thread' = [thread EXCEPT ![w] = x]
          PROVE  \A u \in Workers \ {w} : thread'[u] = thread[u]
      BY <1>0, <3>1
    <3> QED
      BY <1>0, <1>3, <3>1 DEF WorkerStep, Top, Queue, List, Next, Claim, Dispatch, Answer, Invalid,
         CallFails, CallCancelled, Fail, MarkOperationsReady, Publish, Published, After, Remaining,
         Release, DatabaseError, Goto, InterruptClaim, Finish, FinishLost, Leave
  <2> QED BY <2>1, <2>2, <2>3, <2>4, SameWorkers DEF OneWorker
<1> QED BY <1>1, <1>2, <1>3

\* Users, imports and the engine start a worker only if none is registered.
LEMMA OthersKeepOne ==
    ASSUME EnrichmentAssumption, Shapes, OneWorker, (\E d \in Docs : DocumentStep(d)) \/ EngineStep
    PROVE  OneWorker'
<1>0. DOMAIN thread = Workers /\ \A w \in Workers : ThreadOk(thread[w]) BY DEF Shapes, ThreadsOk
<1>1. CASE UNCHANGED <<thread, registered>> BY <1>1 DEF OneWorker
<1>2. CASE Open \/ OpenOther
  <2>1. UNCHANGED registered /\ thread' = Outdated BY <1>2 DEF Open, OpenOther, memory
  <2>2. \A w \in Workers : thread'[w].pc = thread[w].pc
    BY <1>0, <2>1 DEF Outdated, ThreadOk, Fields
  <2> QED BY <2>1, <2>2, SameWorkers DEF OneWorker
<1>3. CASE StartAfterImport \/ RetryStart
  <2>1. \E g : Start(g, thread) BY <1>3 DEF StartAfterImport, RetryStart
  <2> QED BY <1>0, <2>1, StartKeepsOne DEF OneWorker
<1>4. CASE Crash BY <1>4 DEF Crash, OneWorker, OneWorkerIn, Idle, Working, Claiming
<1> QED
  BY <1>1, <1>2, <1>3, <1>4 DEF DocumentStep, RetryTask, Cancel, StartRebuild, EndRebuild,
     ChangeAvailability, EngineStep, BuildGateway, VerifySettings, SaveSettings, memory

-----------------------------------------------------------------------------
(* The theorems.                                                           *)

\* At first there is no task and no worker.
LEMMA InvariantInit == ASSUME EnrichmentAssumption, Init PROVE IInv
<1>1. settings \in Models BY DEF Init, EnrichmentAssumption
<1>2. NoTask \in TaskRows BY DEF NoTask, TaskRows, EnrichmentAssumption
<1>3. Ledger!EmptyLedger \in Ledger!Ledgers BY DEF Ledger!EmptyLedger, Ledger!Ledgers
<1>4. ThreadsOk(thread) BY IdleOk DEF Init, ThreadsOk
<1>5. tree \in [Docs -> 1..MaxTree] BY DEF Init, EnrichmentAssumption
<1>6. Shapes BY <1>1, <1>2, <1>3, <1>4, <1>5 DEF Init, Shapes
<1>7. \A d \in Docs : task[d].tree = 0 /\ task[d].scope = None /\ task[d].status = "none"
  BY DEF Init, NoTask
<1>8. \A w \in Workers : thread[w].pc = "idle" BY DEF Init, Idle
<1>9. TasksInv BY <1>5, <1>7, <1>8 DEF TasksInv, RowOk, ClaimOk, Claiming
<1>10. OneWorker BY <1>8 DEF Init, OneWorker, OneWorkerIn, Working, Claiming
<1>11. PermitsInv BY DEF Init, PermitsInv, Ledger!EmptyLedger
<1>12. RunningIsWorkedOn /\ CompletedHasSummaries
  BY <1>7 DEF RunningIsWorkedOn, CompletedHasSummaries
<1> QED BY <1>6, <1>9, <1>10, <1>11, <1>12 DEF IInv

\* Every step keeps the invariant, publishes in turn, and lifts suspensions by retries only.
LEMMA InvariantStep ==
    ASSUME EnrichmentAssumption, IInv, [NextState]_vars
    PROVE  IInv' /\ PublishedInTurn /\ LiftedByRetry
<1> USE DEF IInv
<1>1. Shapes' BY ShapesStep
<1>2. CASE NextState
  <2>1. Effects BY <1>2, NextEffects
  <2>2. TasksInv' /\ PermitsInv' /\ RunningIsWorkedOn' /\ CompletedHasSummaries' /\ PublishedInTurn
    BY <1>1, <2>1, EffectsKeep
  <2>3. LiftedByRetry BY <2>1 DEF Effects, LedgerStep
  <2>4. OneWorker' BY <1>2, WorkerKeepsOne, OthersKeepOne DEF NextState
  <2> QED BY <1>1, <2>2, <2>3, <2>4
<1>3. CASE UNCHANGED vars
  <2>1. UNCHANGED <<tree, task, overlay, ledger, thread, registered, active, env>>
    BY <1>3 DEF vars, database, memory
  <2>2. TasksInv' BY <2>1 DEF TasksInv, RowOk, ClaimOk, Held
  <2>3. PermitsInv' BY <2>1 DEF PermitsInv, ScopesOf
  <2>4. RunningIsWorkedOn' /\ CompletedHasSummaries'
    BY <2>1 DEF RunningIsWorkedOn, CompletedHasSummaries
  <2>5. OneWorker' BY <2>1 DEF OneWorker
  <2>6. PublishedInTurn /\ LiftedByRetry BY <2>1 DEF PublishedInTurn, LiftedByRetry
  <2> QED BY <1>1, <2>2, <2>3, <2>4, <2>5, <2>6
<1> QED BY <1>2, <1>3

\* What the invariant says of each state: a registered worker is one thread, and no permit,
\* running task or result stands alone (start_page_tree_enrichments, _publish).
LEMMA InvariantMeans ==
    ASSUME IInv
    PROVE  TypeOK /\ PermitsInv /\ PermitsHaveOwner /\ RunningIsWorkedOn /\ CompletedHasSummaries
<1> DEFINE working == {w \in Workers : thread[w].pc \in Working}
<1>1. Cardinality(working) = IF registered THEN 1 ELSE 0
  <2>1. CASE registered
    <3>1. PICK w \in Workers : thread[w].pc \in Working
      BY <2>1 DEF IInv, OneWorker, OneWorkerIn
    <3>2. working = {w} BY <3>1 DEF IInv, OneWorker, OneWorkerIn
    <3> HIDE DEF working
    <3> QED BY <2>1, <3>2, FS_Singleton
  <2>2. CASE ~registered
    <3>1. working = {} BY <2>2 DEF IInv, OneWorker, OneWorkerIn
    <3> HIDE DEF working
    <3> QED BY <2>2, <3>1, FS_EmptySet
  <2> QED BY <2>1, <2>2
<1>2. task \in [Docs -> TaskRows] /\ ledger \in Ledger!Ledgers BY DEF IInv, Shapes
<1>3. \A w \in Workers :
         /\ thread[w].pc \in Working \cup {"idle", "restart"}
         /\ thread[w].doc \in Docs \cup {None}
         /\ thread[w].scope \in Scopes \cup {None}
         /\ thread[w].todo \subseteq Docs
  BY DEF IInv, Shapes, ThreadsOk, ThreadOk
<1>4. TypeOK BY <1>1, <1>2, <1>3 DEF TypeOK
<1> QED BY <1>4 DEF IInv, PermitsInv, PermitsHaveOwner

\* The worker, the task rows and the ledger of enrichment fit together at all times.
THEOREM EnrichmentInvariant == ASSUME EnrichmentAssumption PROVE Spec => []IInv
<1>1. Init => IInv BY InvariantInit
<1>2. IInv /\ [NextState]_vars => IInv' BY InvariantStep
<1> QED BY <1>1, <1>2, PTL DEF Spec

\* Every variable has its type, and a registered worker is one thread (the registry
\* of start_page_tree_enrichments).
THEOREM EnrichmentTypes == ASSUME EnrichmentAssumption PROVE Spec => []TypeOK
<1>1. IInv => TypeOK BY InvariantMeans
<1> QED BY <1>1, EnrichmentInvariant, PTL

\* A permit is never left behind by what happens to its task: each has a row with its
\* scope (retry_document, and every transaction that takes a scope from a row).
THEOREM EnrichmentPermitsHaveOwner ==
    ASSUME EnrichmentAssumption PROVE Spec => [](PermitsInv /\ PermitsHaveOwner)
<1>1. IInv => PermitsInv /\ PermitsHaveOwner BY DEF IInv, PermitsInv, PermitsHaveOwner
<1> QED BY <1>1, EnrichmentInvariant, PTL

\* Without failures of the database, what counts as running is worked on: every way out
\* of a claim (_finish_task, _publish) writes the row that is still the claim's.
THEOREM EnrichmentRunningIsWorkedOn ==
    ASSUME EnrichmentAssumption PROVE Spec => []RunningIsWorkedOn
<1>1. IInv => RunningIsWorkedOn BY DEF IInv
<1> QED BY <1>1, EnrichmentInvariant, PTL

\* A completed task has the summaries of its tree and its model (_publish, and
\* _complete_repaired_task_in).
THEOREM EnrichmentCompletedHasSummaries ==
    ASSUME EnrichmentAssumption PROVE Spec => []CompletedHasSummaries
<1>1. IInv => CompletedHasSummaries BY DEF IInv
<1> QED BY <1>1, EnrichmentInvariant, PTL

\* Summaries are published for the tree that is current then (the check in _publish).
THEOREM EnrichmentPublishedInTurn ==
    ASSUME EnrichmentAssumption PROVE Spec => [][PublishedInTurn]_vars
<1>1. IInv /\ [NextState]_vars => [PublishedInTurn]_vars BY InvariantStep
<1> QED BY <1>1, EnrichmentInvariant, PTL DEF Spec

\* A suspension is lifted by the answer of a retry that was permitted for it, whatever
\* calls were under way when the contract was suspended (mark_ready_for_retry).
THEOREM EnrichmentLiftedByRetry ==
    ASSUME EnrichmentAssumption PROVE Spec => [][LiftedByRetry]_vars
<1>1. IInv /\ [NextState]_vars => [LiftedByRetry]_vars BY InvariantStep
<1> QED BY <1>1, EnrichmentInvariant, PTL DEF Spec

=============================================================================
