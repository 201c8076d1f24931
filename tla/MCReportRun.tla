----------------------------- MODULE MCReportRun -----------------------------
(* Two runs, two issues, and a thing or two people do in between. *)
EXTENDS ReportRun, TLC

CONSTANTS own, reporter, member

Symmetric == Permutations(Runs)
==============================================================================
