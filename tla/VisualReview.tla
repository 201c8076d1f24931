---------------------------- MODULE VisualReview ----------------------------
(***************************************************************************)
(* The visual review of one candidate (reviewCandidateVisually): one       *)
(* inventory per tile batch, viewport and full-page overview of the BEFORE *)
(* and AFTER states, side by side under a call limiter, then a text-only   *)
(* synthesis with bounded repair and one audit of dismissed observations,  *)
(* and the verdict the runner derives from its answer.                     *)
(*                                                                         *)
(* A provider call is runStructuredSingleShot over completeOnce: attempts  *)
(* that repair an invalid reply, each with retries after transient         *)
(* gateway failures.  An overview refused or omitted without a call is an  *)
(* answer like the others.  Observations are counted.                      *)
(***************************************************************************)
EXTENDS CallLimiter, SequencesExt

CONSTANTS
  TileBatches,     \* provider requests per state that carry tiles
  MaxRetries,      \* requestMaxAttempts - 1
  MaxObservations, \* observations one inventory may report
  MaxReconciled,   \* MAX_RECONCILED_INSTANCES
  NoRequest        \* the synthesis, which asks for no slot

States == {"before", "after"}

Tiles(s) == [i \in 1..TileBatches |-> <<s, "tiles", i>>]

\* The order in which the one synchronous stretch enqueues the inventories.
Enqueued ==
  Tiles("before") \o Tiles("after")
    \o << <<"before", "viewport", 1>>, <<"before", "full", 1>>,
          <<"after", "viewport", 1>>, <<"after", "full", 1>> >>

ReviewRequests == ToSet(Enqueued)

ASSUME ReviewAssumption ==
  /\ TileBatches \in Nat /\ MaxRetries \in Nat
  /\ MaxObservations \in Nat /\ MaxReconciled \in Nat
  /\ Requests = ReviewRequests
  /\ NoRequest \notin Requests

VARIABLES
  stage,       \* where reviewCandidateVisually stands
  completion,  \* per provider call: attempt, retry, and what it waits for
  inventory,   \* observations seen per state, and whether all was covered
  synthesis,   \* whole: inventory complete and untruncated; audited
  aborted,     \* options.signal
  conclusion   \* the persisted review

reviewVars == <<limiter, stage, completion, inventory, synthesis, aborted,
                conclusion>>

Synthesis == NoRequest
ProviderCalls == Requests \cup {Synthesis}

\* runStructuredSingleShot repairs once by default; the synthesis owns its
\* repair and its audit, MAX_FINAL_SYNTHESIS_ATTEMPTS together.
MaxAttempts(k) == IF k = Synthesis THEN 3 ELSE 2

\* Relation of the candidate to the requests of the page: no third-party host
\* block, one whose requests cannot be judged, and one whose network
\* verification is clean or not.
Networks == {"other", "unjudged", "clean", "unclean"}

NoReview == [verdict |-> "none", failed |-> FALSE, byRequests |-> FALSE]

FirstAttempt == [attempt |-> 1, retry |-> 0, at |-> "sending"]

NothingSeen == [before |-> 0, after |-> 0, covered |-> TRUE]
Unsynthesized == [whole |-> FALSE, audited |-> FALSE]

ReviewTypeOK ==
  /\ limiter \in Limiter
  /\ stage \in {"none", "inventory", "synthesis", "ended"}
  /\ completion \in [ProviderCalls ->
       [attempt : 1..3, retry : 0..MaxRetries, at : {"sending", "pausing"}]]
  /\ inventory \in [before : Nat, after : Nat, covered : BOOLEAN]
  /\ synthesis \in [whole : BOOLEAN, audited : BOOLEAN]
  /\ aborted \in BOOLEAN
  /\ conclusion \in [verdict : {"none", "verified", "rejected", "inconclusive"},
                     failed : BOOLEAN, byRequests : BOOLEAN]

ReviewInit ==
  /\ LimiterInit
  /\ stage = "none"
  /\ completion = [k \in ProviderCalls |-> FirstAttempt]
  /\ inventory = NothingSeen
  /\ synthesis = Unsynthesized
  /\ aborted = FALSE
  /\ conclusion = NoReview
------------------------------------------------------------------------------
(* The verdict *)

ThirdParty(network) == network # "other"

\* The network verification decides when vision kept no BEFORE observation.
DecidedByRequests(o, network) == network \in {"clean", "unclean"} /\ o.kept = 0

FailsCandidate(o, network) ==
  \/ o.symptom = "not_resolved"
  \/ o.residue = "present" /\ ~ThirdParty(network)
  \/ o.remaining > 0
  \/ o.integrity = "regressed"

ProvesCandidate(o, network) ==
  /\ o.symptom = "resolved"
  /\ o.residue = "absent" \/ (o.residue = "present" /\ ThirdParty(network))
  /\ o.coverage
  /\ o.kept > 0
  /\ o.integrity = "intact" \/ (o.integrity = "unclear" /\ ~o.damage /\ ThirdParty(network))

\* deriveCandidateVisualVerdict.
Derived(o, network) ==
  IF DecidedByRequests(o, network)
  THEN IF network = "clean" /\ o.integrity # "regressed" /\ ~o.damage
       THEN "verified" ELSE "rejected"
  ELSE IF FailsCandidate(o, network) THEN "rejected"
  ELSE IF ProvesCandidate(o, network) THEN "verified" ELSE "inconclusive"

Conclude(o, failed) ==
  \E network \in Networks :
    /\ stage' = "ended"
    /\ conclusion' = [verdict |-> Derived(o, network), failed |-> failed,
                      byRequests |-> DecidedByRequests(o, network)]

\* inconclusiveModelOutput.
Unseen == [symptom |-> "unclear", residue |-> "unclear", coverage |-> FALSE,
           kept |-> 0, remaining |-> 0, integrity |-> "unclear", damage |-> FALSE]

\* Anything that throws ends the review at once: Promise.all rejects with the
\* first failure, and the calls still queued or in flight go on unattended.
\* What the review no longer needs is forgotten, and so are the attempts of the
\* calls it leaves behind.
FailReview ==
  /\ Conclude(Unseen, TRUE)
  /\ inventory' = NothingSeen
  /\ synthesis' = Unsynthesized
  /\ completion' = [k \in ProviderCalls |-> FirstAttempt]
------------------------------------------------------------------------------
(* One provider call *)

\* The call k is under way.
Busy(k) == IF k = Synthesis THEN stage = "synthesis"
                            ELSE limiter.standing[k] = "running"

\* Attempts are told apart while the review waits for the call.
Counted(k) == Busy(k) /\ stage # "ended" /\ ~aborted

\* completeOnce meets a transient gateway failure, or a pause the provider asks
\* for: it waits, unless its retries are used up or the caller has aborted.
Retry(k) ==
  /\ Counted(k)
  /\ completion[k].at = "sending"
  /\ completion[k].retry < MaxRetries
  /\ completion' = [completion EXCEPT ![k].at = "pausing"]
  /\ UNCHANGED <<limiter, stage, inventory, synthesis, aborted, conclusion>>

\* sleepUnlessAborted has waited the full delay.
Resend(k) ==
  /\ Counted(k)
  /\ completion[k].at = "pausing"
  /\ completion' = [completion EXCEPT ![k].at = "sending", ![k].retry = @ + 1]
  /\ UNCHANGED <<limiter, stage, inventory, synthesis, aborted, conclusion>>

NextAttempt(k) ==
  completion' = [completion EXCEPT ![k] =
                   [FirstAttempt EXCEPT !.attempt = completion[k].attempt + 1]]

\* A reply came and is not what the schema asks for; the synthesis also counts
\* one whose dispositions do not cover its inventories.
Repair(k) ==
  /\ Counted(k)
  /\ completion[k].at = "sending"
  /\ completion[k].attempt < MaxAttempts(k)
  /\ NextAttempt(k)
  /\ UNCHANGED <<limiter, stage, inventory, synthesis, aborted, conclusion>>

\* The call settles for good: with an answer, or, given up, without one.  An
\* abort ends the request in flight and the pause; an answer that was complete
\* when the signal fired counts as read before it.
MayGiveUp(k) == Busy(k) /\ completion[k].at = "sending"
MayAnswer(k) == MayGiveUp(k) /\ ~aborted

Settled(k) == completion' = [completion EXCEPT ![k] = FirstAttempt]
------------------------------------------------------------------------------
(* The inventories *)

\* The batches of the states one of whose tiles exceeds the request budget.
Refused(states) == {r \in Requests : r[2] = "tiles" /\ r[1] \in states}

\* The requests enter the limiter in order, the refused ones not at all.
Entered(refused) ==
  FoldLeft(Enter,
           [limiter EXCEPT !.standing =
              [r \in Requests |-> IF r \in refused THEN "done" ELSE @[r]]],
           SelectSeq(Enqueued, LAMBDA r : r \notin refused))

\* Everything up to the first await.  An overview whose file is gone fails the
\* review before any request.  A refused tile fails it too, and keeps the
\* batches of its state, but not the other requests, from starting.
BeginReview ==
  /\ stage = "none"
  /\ \/ /\ limiter' = Entered({})
        /\ stage' = "inventory"
        /\ \E captured \in BOOLEAN :
             inventory' = [NothingSeen EXCEPT !.covered = captured]
        /\ UNCHANGED <<completion, synthesis, conclusion>>
     \/ \E states \in SUBSET States \ {{}} :
          /\ limiter' = Entered(Refused(states))
          /\ FailReview
     \/ FailReview /\ UNCHANGED limiter
  /\ UNCHANGED aborted

\* Observations beyond the limit are not told apart.
CountUpTo(n) == IF n > MaxReconciled THEN MaxReconciled + 1 ELSE n

\* combineStateInventories, one answer at a time; `covered` starts as the
\* coverage of the captures, and both states have to be covered.
Merged(r, n, covered) ==
  [inventory EXCEPT ![r[1]] = CountUpTo(@ + n), !.covered = @ /\ covered]

\* The last inventory is in: the review goes on to the synthesis, unless a state
\* holds more observations than one synthesis may reconcile (the merge of its
\* tile batches alone may find that out earlier).
Proceeds(r, n, covered) ==
  \/ /\ \A s \in States : Merged(r, n, covered)[s] <= MaxReconciled
     /\ stage' = "synthesis"
     /\ inventory' = Merged(r, n, covered)
     /\ \E untruncated \in BOOLEAN :
          synthesis' = [Unsynthesized EXCEPT !.whole = untruncated /\ inventory'.covered]
     /\ Settled(r)
     /\ UNCHANGED conclusion
  \/ /\ \E s \in States : Merged(r, n, covered)[s] > MaxReconciled
     /\ FailReview

LastOut(r) == \A q \in Requests \ {r} : limiter.standing[q] = "done"

\* The request r gives its slot back; a waiter it hands the slot to starts before
\* anything else can happen, wanted or not.
Passed(r) ==
  LET l == Leave(limiter, r)
  IN  FoldLeft(Resume, l, SelectSeq(Enqueued, LAMBDA q : l.standing[q] = "handed"))

\* The review ended before r did: nobody reads the answer.
Orphaned ==
  /\ stage = "ended"
  /\ UNCHANGED <<stage, completion, inventory, synthesis, conclusion>>

\* An inventory parses and cites only what it was shown.
Inventoried(r) ==
  /\ MayAnswer(r)
  /\ limiter' = Passed(r)
  /\ \/ /\ stage = "inventory"
        /\ \E n \in 0..MaxObservations, covered \in BOOLEAN :
             \/ LastOut(r) /\ Proceeds(r, n, covered)
             \/ /\ ~LastOut(r)
                /\ inventory' = Merged(r, n, covered)
                /\ Settled(r)
                /\ UNCHANGED <<stage, synthesis, conclusion>>
     \/ Orphaned
  /\ UNCHANGED aborted

\* The provider fails, the repaired reply is no better, a citation is foreign,
\* or the overview may not be sent.
InventoryThrows(r) ==
  /\ MayGiveUp(r)
  /\ limiter' = Passed(r)
  /\ (stage = "inventory" /\ FailReview) \/ Orphaned
  /\ UNCHANGED aborted
------------------------------------------------------------------------------
(* The synthesis *)

\* What normalizeModelOutput makes of a reply that disposes of every observation
\* once: it may only keep or dismiss what the inventories hold.
Outputs ==
  [symptom   : {"resolved", "not_resolved", "unclear"},
   residue   : {"absent", "present", "unclear"},
   coverage  : {FALSE, synthesis.whole},
   kept      : 0..inventory.before,
   remaining : 0..inventory.after,
   integrity : {"intact", "regressed", "unclear"},
   damage    : BOOLEAN]

\* Mutant: a reply that repairs an invalid one is not audited.
DismissesFirst(o) ==
  o.remaining < inventory.after /\ completion[Synthesis].attempt = 1

\* An AFTER observation is dismissed, and no audit has been asked for yet.
Dismisses(o) ==
  o.remaining < inventory.after /\ ~synthesis.audited

Synthesized(o) ==
  /\ MayAnswer(Synthesis)
  /\ \/ /\ ~Dismisses(o)
        /\ Conclude(o, FALSE)
        /\ Settled(Synthesis)
        /\ UNCHANGED <<inventory, synthesis>>
     \/ /\ Dismisses(o)
        /\ completion[Synthesis].attempt < MaxAttempts(Synthesis)
        /\ NextAttempt(Synthesis)
        /\ synthesis' = [synthesis EXCEPT !.audited = TRUE]
        /\ UNCHANGED <<stage, inventory, conclusion>>
     \/ /\ Dismisses(o)
        /\ completion[Synthesis].attempt = MaxAttempts(Synthesis)
        /\ FailReview
  /\ UNCHANGED <<limiter, aborted>>

SynthesisThrows ==
  /\ MayGiveUp(Synthesis)
  /\ FailReview
  /\ UNCHANGED <<limiter, aborted>>
------------------------------------------------------------------------------
\* Mutant: the pause before a retry does not listen to the signal.
AbortAwake ==
  /\ ~aborted
  /\ aborted' = TRUE
  /\ UNCHANGED <<limiter, stage, completion, inventory, synthesis, conclusion>>

\* The caller's signal fires: a review under way can only fail now, and what it
\* has gathered is forgotten.
Abort ==
  /\ ~aborted
  /\ aborted' = TRUE
  /\ IF stage = "ended"
     THEN UNCHANGED <<completion, inventory, synthesis>>
     ELSE /\ completion' = [k \in ProviderCalls |-> FirstAttempt]
          /\ inventory' = NothingSeen
          /\ synthesis' = Unsynthesized
  /\ UNCHANGED <<limiter, stage, conclusion>>

RequestStep(k) ==
  Retry(k) \/ Resend(k) \/ Repair(k) \/ Inventoried(k) \/ InventoryThrows(k)

SynthesisStep ==
  \/ Retry(Synthesis) \/ Resend(Synthesis) \/ Repair(Synthesis)
  \/ \E o \in Outputs : Synthesized(o)
  \/ SynthesisThrows

ReviewOver == stage = "ended" /\ limiter.inFlight = 0

ReviewNext ==
  \/ BeginReview
  \/ \E r \in Requests : RequestStep(r)
  \/ SynthesisStep
  \/ Abort
  \/ ReviewOver /\ UNCHANGED reviewVars

ReviewSpec == ReviewInit /\ [][ReviewNext]_reviewVars
------------------------------------------------------------------------------
\* Model failures fail closed to an inconclusive review
\* (reviewCandidateVisually: "Model failures fail closed to a persisted
\* inconclusive review").
FailedReviewIsInconclusive ==
  conclusion.failed => conclusion.verdict = "inconclusive"

\* A verified review rests on what was seen or on the requests of the page.  If
\* it was seen, both captures and all their inventories were complete, the
\* symptom was there before, and whatever was dismissed afterwards had been put
\* to an audit.
VerifiedIsSeen ==
  conclusion.verdict = "verified" =>
    \/ conclusion.byRequests
    \/ /\ inventory.covered
       /\ inventory.before > 0
       /\ inventory.after > 0 => synthesis.audited
=============================================================================
