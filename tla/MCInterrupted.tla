--------------------------- MODULE MCInterrupted ---------------------------
(***************************************************************************)
(* Jobs that are stopped again and again: a behaviour is one of two jobs   *)
(* that users and crashes interrupt, one of a job whose quarantined stage  *)
(* is recovered, or one of a job whose document is edited and reparsed.    *)
(* (A recovery after an edit is kept apart: see ImportJobs_mixed.cfg.)     *)
(***************************************************************************)
EXTENDS MCImportJobs

CONSTANTS j1, j2, j3, j4, w1, w2

Involved == [two |-> {j1, j2}, recovery |-> {j3}, repair |-> {j4}]

EventsOf ==
    [j \in Jobs |->
        CASE j \in {j1, j2} -> {"pause", "cancel", "gate", "crash", "fail", "edit"}
          [] j = j3 -> {"gate", "isolate", "fail", "recover", "crash"}
          [] j = j4 -> {"pause", "cancel", "lose_write", "gate", "edit", "crash", "fail",
                        "isolate", "reparse", "gate_lost"}]

SourcesOf == {f \in [Jobs -> Bytes] : f[j3] = b3 /\ f[j4] = b3}

VARIABLE part

\* How many of the identifiers a recovery leaves behind may be in use at a time.
MaxInUse == 4

\* The jobs of the other parts are not there, with a source that stays the same.  Two threads
\* are at work in one part only.
Within ==
    /\ \A j \in Jobs \ Involved[part] :
         job[j] = "absent" /\ source[j] = b3
    /\ part = "two" => \A j \in {j1, j2} : source[j] # b3
    /\ part # "two" => At(w2, "idle")
    /\ part = "recovery" => Cardinality(StampsOf(j3)) <= MaxInUse

MCInit == part \in DOMAIN Involved /\ Init /\ Within

MCNext == UNCHANGED part /\ Next /\ Within'

MCSpec == MCInit /\ [][MCNext]_<<part, vars>>

\* It does not matter which thread, which of two jobs or which of two contents with one body it
\* is.  (Where w2 and b2 are not used, no two states differ in them only.)
InterruptedSymmetry == Permutations(Workers) \cup Permutations({j1, j2}) \cup Permutations({b1, b2})

=============================================================================
