-------------------------- MODULE MCModelDispatch --------------------------
(* Instances of ModelDispatch: documents A, B, C and a question.            *)
EXTENDS ModelDispatch

CONSTANTS a1, a2, b1, c1, q1

\* Two calls for document A, one for each of the others.
Documents == (a1 :> "A") @@ (a2 :> "A") @@ (b1 :> "B") @@ (c1 :> "C") @@ (q1 :> "question")

\* Two tasks on one document (graph extraction and page tree enrichment) are
\* cancelled independently.
TaskSignals == [c \in Calls |-> c]

OneToken == [c \in Calls |-> 1]

OneCall == {[calls |-> 1, tokens |-> 2]}

=============================================================================
