------------------------- MODULE MCPhaseExperiment -------------------------
(* Two calls of one run.  Artifact ownership is the subject of               *)
(* ExecutionRecorder and left out here: Artifacts is empty, and MaxPhases is *)
(* not reached.                                                              *)
EXTENDS PhaseExperiment, TLC

Symmetric == Permutations(Experiments)
=============================================================================
