------------------------- MODULE MCCorpusSynthesis -------------------------
EXTENDS CorpusSynthesis, TLC
CONSTANTS d1, d2, i1, i2, x
MCMentions == (d1 :> {i1}) @@ (d2 :> {i1, i2})
============================================================================
