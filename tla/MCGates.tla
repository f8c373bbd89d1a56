------------------------------ MODULE MCGates -------------------------------
(***************************************************************************)
(* What a thread passes before it works: a behaviour is one of the lock of *)
(* a knowledge base, or one of the gates in front of its model calls.  The *)
(* other of the two rests in its initial state; no code holds both (a call *)
(* is made outside the lock, see knowledge/corpus/knowledge_pipeline.py).  *)
(* Three threads of the engine process and one of a second process use the *)
(* lock; documents A, B, C and a question make the calls.                  *)
(***************************************************************************)
EXTENDS KbLocks, ModelDispatch

CONSTANTS t1, t2, t3, t4, p1, p2, k1, k2, k3, k4, q1

TwoProcesses == (t1 :> p1) @@ (t2 :> p1) @@ (t3 :> p1) @@ (t4 :> p2)

\* Documents that make calls.  The calls of one stop together; the question has a signal of
\* its own.
Documents == (k1 :> "A") @@ (k2 :> "A") @@ (k3 :> "B") @@ (k4 :> "C") @@ (q1 :> "question")

\* One call does not fit the smaller limit.
TokensNeeded == (k1 :> 2) @@ (k2 :> 1) @@ (k3 :> 1) @@ (k4 :> 1) @@ (q1 :> 1)
Larger == [calls |-> 1, tokens |-> 2]
TwoLimits == {Larger, [calls |-> 1, tokens |-> 1]}

ASSUME GatesAssumption == DispatchAssumption

VARIABLE part

\* Calls of three documents take turns while the limits change, or while the number of slots
\* does, or calls of two documents give up.
Within ==
    /\ part \in {"turns", "slots"} => pc[k2] = "out" /\ cancelled = {}
    /\ part = "slots" => limits = Larger
    /\ part = "cancelling" => pc[k4] = "out" /\ "C" \notin cancelled
    /\ part # "slots" =>
           /\ maximum = 1
           /\ \A i \in DOMAIN reservations : reservations[i].tokens = Need[reservations[i].call]

MCInit ==
    /\ part \in {"locks", "turns", "slots", "cancelling"}
    /\ Init /\ DispatchInit /\ Within
    /\ part = "locks" => limits = Larger

MCNext ==
    /\ UNCHANGED part
    /\ \/ part = "locks" /\ Next /\ UNCHANGED dispatch
       \/ part # "locks" /\ DispatchNext /\ Within' /\ UNCHANGED vars

MCSpec ==
    /\ MCInit /\ [][MCNext]_<<part, vars, dispatch>>
    /\ Fairness
    /\ \A c \in Calls : WF_dispatch(part = "turns" /\ Polls(c))
    /\ WF_dispatch(part = "turns" /\ Expire)

\* Readers do not starve writers.
WritersAreNotStarved == part = "locks" => WritersNotStarvedByReaders

\* Background calls that never end do not hold up an answer.
AnswersNeedNoBackground == part = "turns" => QuestionsNeedNoBackground

\* No document is starved by others.
BackgroundIsServed == part = "turns" => CallsAreServed

=============================================================================
