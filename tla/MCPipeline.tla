----------------------------- MODULE MCPipeline ------------------------------
(* Small instances of Pipeline: one name per epoch, so that the windows of *)
(* different epochs differ.                                                *)
EXTENDS Pipeline, TLC

CONSTANTS t1, t2, a, b, c

OneNameEach == <<a, b, c>>
MCSubset == [e \in 0..MaxEpoch |-> {OneNameEach[e + 1]}]

TaskSymmetry == Permutations(Tasks)
=============================================================================
