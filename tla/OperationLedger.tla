-------------------------- MODULE OperationLedger --------------------------
(***************************************************************************)
(* openkb/models/operation_state.py and result_failure.py: which model     *)
(* operations of a knowledge base may be called.  A contract (an operation *)
(* under one model identity, with one prompt) is suspended by a failed     *)
(* call and made ready by a validated answer.  A user's retry gets permits *)
(* under a scope of its own: a permit admits calls of a contract as long   *)
(* as the suspension is the one it was granted for.                        *)
(*                                                                         *)
(* A ledger is a record; the operators below are the statements that the   *)
(* tasks run in their transactions.  The code compares revision numbers:   *)
(* a write of a contract raises its revision, and a permit is good while   *)
(* it has the revision of the contract.  Here the permits of an earlier    *)
(* revision are the spent ones.                                            *)
(***************************************************************************)
EXTENDS FiniteSets, Integers

CONSTANTS
    Contracts,   \* records [operation, identity, digest]
    Scopes,      \* the scopes of retries
    None

CallFailures == {"configuration", "result", "transport"}

\* Credentials and configuration, and a result the protocol does not allow, leave
\* a signature, which failures of other operations may corroborate.
Signature(failure) == IF failure = "transport" THEN None ELSE failure

Ledgers ==
    [suspended : SUBSET Contracts,
     signature : [Contracts -> {"configuration", "result", None}],
     permits   : SUBSET (Contracts \X Scopes),
     spent     : SUBSET (Contracts \X Scopes)]

EmptyLedger ==
    [suspended |-> {},
     signature |-> [c \in Contracts |-> None],
     permits   |-> {},
     spent     |-> {}]

PermitsOf(l, c) == {p \in l.permits : p[1] = c}

\* The same operation under the same model, with another prompt.
Versions(c) ==
    {d \in Contracts : /\ d.operation = c.operation
                       /\ d.identity = c.identity
                       /\ d # c}

Signed(l, c, signature) ==
    [d \in Contracts |-> CASE d = c -> signature
                           [] d \in Versions(c) -> None
                           [] OTHER -> l.signature[d]]

\* suspend: permits of this contract were granted for an earlier suspension now.
Suspend(l, c, signature) ==
    [suspended |-> l.suspended \cup {c},
     signature |-> Signed(l, c, signature),
     permits   |-> l.permits \ PermitsOf(l, c),
     spent     |-> l.spent \cup PermitsOf(l, c)]

Ready(l, c) ==
    [suspended |-> l.suspended \ {c},
     signature |-> Signed(l, c, None),
     permits   |-> {p \in l.permits : p[1] # c},
     spent     |-> {p \in l.spent : p[1] # c}]

MarkReadyUnlessSuspended(l, c) ==
    IF c \in l.suspended THEN l ELSE Ready(l, c)

\* Near miss: the answer of a retry that was revoked meanwhile still clears.
MarkReadyRevokedToo(l, c, scope) == Ready(l, c)

\* Only the suspension that this retry was granted for is cleared.
MarkReadyForRetry(l, c, scope) ==
    IF c \in l.suspended /\ <<c, scope>> \notin l.permits THEN l ELSE Ready(l, c)

\* mark_model_result_operation_ready: by the authority of the call.
MarkResultReady(l, c, scope) ==
    IF scope = None THEN MarkReadyUnlessSuspended(l, c) ELSE MarkReadyForRetry(l, c, scope)

\* The permit of an earlier revision stays in the way of a new one (ON CONFLICT DO
\* NOTHING): a scope is granted a contract once.
Authorize(l, C, scope) ==
    [l EXCEPT !.permits = @ \cup {p \in (C \cap l.suspended) \X {scope} : p \notin l.spent}]

Revoke(l, scope) ==
    [l EXCEPT !.permits = {p \in @ : p[2] # scope}, !.spent = {p \in @ : p[2] # scope}]

RevokeAll(l, S) ==
    [l EXCEPT !.permits = {p \in @ : p[2] \notin S}, !.spent = {p \in @ : p[2] \notin S}]

\* When a knowledge base is opened, no retry survives.
DiscardPermits(l) == [l EXCEPT !.permits = {}, !.spent = {}]

DispatchAdmitted(l, c, scope) == c \in l.suspended => <<c, scope>> \in l.permits

----------------------------------------------------------------------------
(* How a failed call is classified.                                         *)

\* _suspend_parent_dependency: a repair that does not work suspends its parent.
SuspendParent(l, c, parent) == IF parent = None THEN l ELSE Suspend(l, parent, None)

\* suspend_model_call_operation and suspend_analysis_operation_failure.
SuspendFailedCall(l, c, parent, failure) ==
    SuspendParent(Suspend(l, c, Signature(failure)), c, parent)

\* suspend_structured_model_operation: neither the answer nor its repair was valid.
SuspendInvalidAnswer(l, c, repair) ==
    LET suspended == Suspend(l, c, None)
    IN  IF repair = None THEN suspended ELSE Suspend(suspended, repair, None)

\* The operations of this model that are suspended for the same reason.
Corroborating(l, c) ==
    {d.operation : d \in {e \in l.suspended : /\ e.identity = c.identity
                                              /\ l.signature[e] = l.signature[c]}}

\* _invalidate_exact_shared_capability: when the model itself has to be checked again.
InvalidatesModel(l, c, failure) ==
    \/ failure = "configuration"
    \/ failure = "result" /\ Cardinality(Corroborating(Suspend(l, c, "result"), c)) >= 2

=============================================================================
