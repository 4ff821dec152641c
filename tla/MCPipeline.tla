----------------------------- MODULE MCPipeline -----------------------------
(* Model-checking instance of Pipeline: two writer tasks, small Handovers *)
(* and batches so that full Handovers, full and partial batches and       *)
(* overlapping bulk requests all occur.                                   *)
EXTENDS Pipeline, TLC

CONSTANTS w1, w2

MCWriters == {w1, w2}

MCSymmetry == Permutations(MCWriters)
=============================================================================
