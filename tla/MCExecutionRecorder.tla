------------------------- MODULE MCExecutionRecorder -------------------------
(* Two experiments, one artifact and a schema bound below 3 * 2 phases, so  *)
(* that finalize also meets the bound.                                      *)
EXTENDS ExecutionRecorder, TLC

Symmetric == Permutations(Experiments)
=============================================================================
