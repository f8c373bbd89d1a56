---------------------------- MODULE Publication ----------------------------
(***************************************************************************)
(* What imports promise to the readers of a knowledge base: documents are  *)
(* added whole, one at a time, each in the step in which its job ends; a   *)
(* document is added once and stays; a job ends with one document, for     *)
(* good; a document either is canonical (its own root) or points at a      *)
(* canonical one.  How jobs get there, through pauses, crashes, failures   *)
(* and other jobs with the same content, is the business of ImportJobs.    *)
(***************************************************************************)
CONSTANTS Jobs, Bytes, None

VARIABLES
    root,     \* root[b]: the canonical document of the document of b, or None
    result    \* result[j]: the bytes whose document j ended with, or None

PubInit ==
    /\ root = [b \in Bytes |-> None]
    /\ result = [j \in Jobs |-> None]

End(j, b) ==
    /\ result[j] = None
    /\ result' = [result EXCEPT ![j] = b]

\* The job ends with a document of bytes that had none.
Add(j, b) ==
    /\ root[b] = None
    /\ \E r \in {b} \cup {c \in Bytes : root[c] = c} : root' = [root EXCEPT ![b] = r]
    /\ End(j, b)

\* The job ends with a document that is there.
Reuse(j, b) ==
    /\ root[b] # None
    /\ End(j, b)
    /\ UNCHANGED root

PubNext == \E j \in Jobs, b \in Bytes : Add(j, b) \/ Reuse(j, b)

PubSpec == PubInit /\ [][PubNext]_<<root, result>>

=============================================================================
