----------------------------- MODULE PhaseLedger -----------------------------
(***************************************************************************)
(* The value kept by FilteringEnvironmentExecutionRecorder, the sole       *)
(* aggregate of phase evidence of a run, and what each of its methods does *)
(* to that value.  A method that throws leaves the recorder as it was, so  *)
(* every method is a pair: May...(r, ..) is the conjunction of the checks  *)
(* that do not throw, and the operator without "May" is the new value.     *)
(*                                                                         *)
(* Digests, proofs and schema detail are abstracted: an artifact is a      *)
(* model value, and a completion is one of three kinds.  "positive" is an  *)
(* observed completion that speaks for the candidate (in B: navigation     *)
(* verified and the reported symptom present; in C: symptom gone, page     *)
(* usable, candidate validated under the digest of the proof), "negative"  *)
(* any other observed completion, "failed" the failed variant.             *)
(***************************************************************************)
EXTENDS Naturals, FiniteSets

CONSTANTS
  Experiments,  \* experiment ids of one run (a fresh one per execution)
  Artifacts,    \* artifact ids the observers may hand to the recorder
  NoToken,      \* stands for "no owner"
  MaxPhases     \* bound of `phases` in FilteringEnvironmentExecutionSchema (32)

ASSUME LedgerAssumption ==
  /\ MaxPhases \in Nat
  /\ NoToken \notin Experiments \X {"A", "B", "C"}

Phase      == {"A", "B", "C"}
Token      == Experiments \X Phase
Observed   == {"positive", "negative"}
Completion == Observed \cup {"failed"}
Entry      == {"none", "issued", "bound"} \cup Completion
Receipt    == {"none", "completed", "failed"}

\* Provisional and final dispositions; no code produces the schema's "rejected".
Disposition == {"verified", "inconclusive", "capability_limited", "failed"}

Recorder ==
  [registered  : BOOLEAN,                        \* adapterState is set
   entry       : [Token -> Entry],               \* ledger and phaseKeys
   owner       : [Artifacts -> Token \cup {NoToken}],
   cleanup     : Receipt,                        \* cleanupInput.cleanup
   drainFailed : BOOLEAN,                        \* cleanupInput.drain.failed > 0
   finalized   : BOOLEAN]

NewRecorder ==
  [registered  |-> FALSE,
   entry       |-> [t \in Token |-> "none"],
   owner       |-> [a \in Artifacts |-> NoToken],
   cleanup     |-> "none",
   drainFailed |-> FALSE,
   finalized   |-> FALSE]

\* Mutant: a finalized recorder still accepts calls.
WritableAlways(r) == TRUE

Writable(r) == ~r.finalized

RegisterAdapter(r) == [r EXCEPT !.registered = TRUE]

MayBegin(r, t) ==
  /\ Writable(r)
  /\ r.registered
  /\ r.entry[t] = "none"

BeginPhase(r, t) == [r EXCEPT !.entry[t] = "issued"]

MayBind(r, t) ==
  /\ Writable(r)
  /\ r.registered
  /\ r.entry[t] = "issued"

BindPhaseLease(r, t) == [r EXCEPT !.entry[t] = "bound"]

\* Artifacts introduced by earlier phases that phase t may cite: only a
\* validated candidate (phase C) cites any, and only those of B of its own
\* experiment.
Citable(r, t) ==
  {a \in Artifacts : t[2] = "C" /\ r.owner[a] = <<t[1], "B">>}

\* Mutant: a phase that has evidence may be completed again.
MayCompleteAgain(r, t, k, new, cited) ==
  /\ Writable(r)
  /\ r.entry[t] \in {"bound"} \cup Completion
  /\ k \in Observed => /\ \A a \in new : r.owner[a] = NoToken
                       /\ cited \subseteq Citable(r, t)

\* new: artifacts of this completion; cited: artifacts it takes from elsewhere.
MayComplete(r, t, k, new, cited) ==
  /\ Writable(r)
  /\ r.entry[t] = "bound"
  /\ k \in Observed => /\ \A a \in new : r.owner[a] = NoToken
                       /\ cited \subseteq Citable(r, t)

\* Mutant: artifacts are registered before the completion is known to be observed.
CompletePhaseEagerly(r, t, k, new) ==
  [r EXCEPT !.entry[t] = k,
            !.owner = [a \in Artifacts |-> IF a \in new THEN t ELSE @[a]]]

CompletePhase(r, t, k, new) ==
  [r EXCEPT !.entry[t] = k,
            !.owner = IF k \in Observed
                      THEN [a \in Artifacts |-> IF a \in new THEN t ELSE @[a]]
                      ELSE @]

MayRecordCleanup(r, lifecycle, leases, receipt) ==
  /\ Writable(r)
  /\ r.registered
  /\ r.cleanup = "none"
  /\ \/ receipt = "completed" /\ lifecycle = "cleaned" /\ leases = {}
     \/ receipt = "failed" /\ lifecycle = "cleanup_failed"

\* Mutant: the adapter's lifecycle is stored where the receipt belongs.
RecordCleanupLifecycle(r, receipt, drainFailed) ==
  [r EXCEPT !.cleanup = IF receipt = "completed" THEN "cleaned" ELSE receipt,
            !.drainFailed = drainFailed]

RecordCleanup(r, receipt, drainFailed) ==
  [r EXCEPT !.cleanup = receipt, !.drainFailed = drainFailed]

Unsettled(r) == {t \in Token : r.entry[t] = "bound"}
Evidence(r)  == {t \in Token : r.entry[t] \in Completion}

CleanupFailed(r) == r.cleanup # "completed" \/ r.drainFailed

\* Mutant: the verdict of the investigation stands whatever cleanup left.
FinalStatusUnguarded(r, provisional) == provisional

\* Cleanup precedence: a failed cleanup overrides what the investigation found.
FinalStatus(r, provisional) ==
  IF CleanupFailed(r) THEN "failed" ELSE provisional

\* Mutant: bound phases need not be completed.
MayFinalizeUnsettled(r, provisional) ==
  /\ Writable(r)
  /\ r.registered
  /\ r.cleanup # "none"
  /\ Cardinality(Evidence(r)) <= MaxPhases
  /\ FinalStatus(r, provisional) = "verified"
       => \A p \in Phase : \E x \in Experiments : <<x, p>> \in Evidence(r)

MayFinalize(r, provisional) ==
  /\ Writable(r)
  /\ r.registered
  /\ r.cleanup # "none"
  /\ Unsettled(r) = {}
  /\ Cardinality(Evidence(r)) <= MaxPhases
  /\ FinalStatus(r, provisional) = "verified"
       => \A p \in Phase : \E x \in Experiments : <<x, p>> \in Evidence(r)

Finalize(r) == [r EXCEPT !.finalized = TRUE]
=============================================================================
