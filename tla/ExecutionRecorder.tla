-------------------------- MODULE ExecutionRecorder --------------------------
(***************************************************************************)
(* One FilteringEnvironmentExecutionRecorder under callers that may invoke *)
(* any method in any order: the recorder is the boundary that has to keep  *)
(* its guarantees whatever the orchestrator, a late tool call or the       *)
(* finalizer does.  A call that throws is a stutter.                       *)
(***************************************************************************)
EXTENDS PhaseLedger

VARIABLES
  recorder,  \* the recorder
  execution  \* status of the execution that finalize returned, or "none"

recorderVars == <<recorder, execution>>

RecorderTypeOK ==
  /\ recorder \in Recorder
  /\ execution \in Disposition \cup {"none"}

RecorderInit ==
  /\ recorder = NewRecorder
  /\ execution = "none"

Register ==
  /\ Writable(recorder)
  /\ recorder' = RegisterAdapter(recorder)
  /\ UNCHANGED execution

Begin(t) ==
  /\ MayBegin(recorder, t)
  /\ recorder' = BeginPhase(recorder, t)
  /\ UNCHANGED execution

Bind(t) ==
  /\ MayBind(recorder, t)
  /\ recorder' = BindPhaseLease(recorder, t)
  /\ UNCHANGED execution

CompleteEntry(t, k, new, cited) ==
  /\ MayComplete(recorder, t, k, new, cited)
  /\ recorder' = CompletePhase(recorder, t, k, new)
  /\ UNCHANGED execution

\* The adapter's snapshot is whatever the caller read: lifecycle, whether any
\* lease is still open, and the receipt it passes along.
Cleanup(lifecycle, leases, receipt, drainFailed) ==
  /\ MayRecordCleanup(recorder, lifecycle, leases, receipt)
  /\ recorder' = RecordCleanup(recorder, receipt, drainFailed)
  /\ UNCHANGED execution

PublishExecution(provisional) ==
  /\ MayFinalize(recorder, provisional)
  /\ recorder' = Finalize(recorder)
  /\ execution' = FinalStatus(recorder, provisional)

RecorderNext ==
  \/ Register
  \/ \E t \in Token :
       \/ Begin(t)
       \/ Bind(t)
       \/ \E k \in Completion, new, cited \in SUBSET Artifacts :
            CompleteEntry(t, k, new, cited)
  \/ \E lifecycle \in {"ready", "cleaned", "cleanup_failed"},
        leases \in SUBSET Experiments,
        receipt \in {"completed", "failed"}, drainFailed \in BOOLEAN :
       Cleanup(lifecycle, leases, receipt, drainFailed)
  \/ \E provisional \in Disposition : PublishExecution(provisional)

RecorderSpec == RecorderInit /\ [][RecorderNext]_recorderVars

------------------------------------------------------------------------------
\* An artifact has an owner exactly because that phase was observed: no
\* artifact survives a completion that was refused or that failed
\* (completePhase registers owners before it stores the evidence).
OwnersWereObserved ==
  \A a \in Artifacts :
    recorder.owner[a] # NoToken => recorder.entry[recorder.owner[a]] \in Observed

\* What escapes was written over a settled ledger after cleanup: no bound
\* phase without evidence, at most MaxPhases of evidence, and a run whose
\* drain or cleanup failed is published as failed whatever was found.
PublishedIsSettled ==
  execution # "none" =>
    /\ recorder.finalized
    /\ Unsettled(recorder) = {}
    /\ Cardinality(Evidence(recorder)) <= MaxPhases
    /\ CleanupFailed(recorder) => execution = "failed"
    /\ execution = "verified" =>
         \A p \in Phase : \E x \in Experiments : <<x, p>> \in Evidence(recorder)

\* Once a phase has evidence neither a second completion (the catch branch of
\* executeEnvironmentPhase completes again after a throw) nor any later call
\* rewrites it, and an artifact never changes hands.
EvidenceIsFinal ==
  [][/\ \A t \in Token :
          recorder.entry[t] \in Completion => recorder'.entry[t] = recorder.entry[t]
     /\ \A a \in Artifacts :
          recorder.owner[a] # NoToken => recorder'.owner[a] = recorder.owner[a]]_recorderVars

\* A late call (a tool call that outlived its deadline) cannot change the
\* recorder after the execution has escaped.
FrozenAfterPublication ==
  [][execution # "none" => UNCHANGED recorderVars]_recorderVars
=============================================================================
