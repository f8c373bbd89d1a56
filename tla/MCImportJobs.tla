--------------------------- MODULE MCImportJobs ----------------------------
(* Instances of ImportJobs.  The contents b1, b2, b3 differ in their bytes; *)
(* what they have in common is their normalized body.                       *)
EXTENDS ImportJobs, TLC

CONSTANTS b1, b2, b3

\* All have one body, or b3 has another.
OneBody == [b \in {b1, b2, b3} |-> "x"]
TwoBodies == [OneBody EXCEPT ![b3] = "y"]

\* What the jobs bring: anything, or b1.
AnySources == [Jobs -> Bytes]
OneSource == {[j \in Jobs |-> b1]}

\* Two jobs bring the same and one another, or all three differ; which ones makes no
\* difference.
TwoOrThreeContents ==
    {CHOOSE f \in [Jobs -> Bytes] : Cardinality({f[j] : j \in Jobs}) = n : n \in {2, 3}}

\* What may happen to the jobs of a run: documents are withdrawn, records of failures are lost
\* and cancels are written late; or what each of the known ways to go wrong takes.
LossAndDamage == [j \in Jobs |-> {"lose_write", "damage", "cancel_paused"}]
PauseAndLateCancel == [j \in Jobs |-> {"pause", "cancel_paused"}]
GateLost == [j \in Jobs |-> {"gate_lost"}]
RecoveryAndEdit == [j \in Jobs |-> {"isolate", "recover", "fail", "edit"}]

=============================================================================
