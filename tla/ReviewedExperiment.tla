-------------------------- MODULE ReviewedExperiment --------------------------
(***************************************************************************)
(* An experiment and the visual review its phase C waits for               *)
(* (candidateCompletion).  The observation of phase C may only judge the   *)
(* candidate by a review that has ended.  When the tool deadline aborts    *)
(* the observation, the experiment goes on at once and the review, handed  *)
(* the same signal, is left to end by itself.                              *)
(***************************************************************************)
EXTENDS PhaseExperiment, VisualReview

CONSTANT Reviewed  \* the call whose review is followed

ASSUME ReviewedAssumption == Reviewed \in Calls

allVars == <<vars, reviewVars>>

ReviewedInit == Init /\ ReviewInit

\* The call observes phase C.
Observing == call[Reviewed].at = "observing" /\ call[Reviewed].phase = "C"

\* What phase C may be completed with.  A verified review is necessary, not
\* sufficient: the symptom may still be there and the page unusable.
Backing == [positive |-> stage = "ended" /\ conclusion.verdict = "verified",
            negative |-> stage = "ended",
            failed   |-> stage \in {"none", "ended"}]

ReviewedCallStep(c) ==
  /\ CallStep(c)
  /\ c = Reviewed /\ Observing => Backing[EntryOf(c)']
  /\ UNCHANGED reviewVars

\* The deadline's signal is the review's.
ReviewedTimer(c) ==
  /\ Timer(c)
  /\ IF c = Reviewed /\ Observing
     THEN Abort
     ELSE UNCHANGED reviewVars

\* The review starts inside the observation, once both controls were observed;
\* an observation abandoned before it got there may still get there.
StartReview ==
  /\ Observing \/ aborted
  /\ \A p \in {"A", "B"} : rec[call[Reviewed].env].entry[<<Reviewed, p>>] \in Observed
  /\ BeginReview

\* A provider call of the review gets on.
CallGoesOn ==
  /\ ~Flushing
  /\ (\E r \in Requests : RequestStep(r)) \/ SynthesisStep
  /\ UNCHANGED vars

ReviewStep ==
  \/ ~Flushing /\ StartReview /\ UNCHANGED vars
  \/ CallGoesOn

\* Nothing is left to do.
Quiet ==
  /\ AllDone
  /\ stage = "none" \/ ReviewOver
  /\ UNCHANGED reviewVars

ReviewedNext ==
  \/ \E c \in Calls : \/ StartStep(c) /\ UNCHANGED reviewVars
                      \/ ReviewedCallStep(c)
                      \/ ReviewedTimer(c)
  \/ EndRun /\ UNCHANGED reviewVars
  \/ FinalStep /\ UNCHANGED reviewVars
  \/ ReviewStep
  \/ Quiet

\* HostFairness, of the composed steps.  A provider call ends by itself: its
\* stall timer and its ceiling are armed with every request; retries, repairs
\* and attempts of the synthesis are counted.
ReviewedFairness ==
  /\ \A c \in Calls : /\ WF_allVars(ReviewedTimer(c))
                      /\ WF_allVars(RunsOn(c) /\ UNCHANGED reviewVars)
  /\ WF_allVars(EndRun /\ UNCHANGED reviewVars)
  /\ WF_allVars(FinalStep /\ UNCHANGED reviewVars)
  /\ WF_allVars(CallGoesOn)

ReviewedSpec == ReviewedInit /\ [][ReviewedNext]_allVars /\ ReviewedFairness
------------------------------------------------------------------------------
\* A candidate the run accepts was reviewed to the end before the deadline, and
\* seen to be right (see VerifiedIsSeen); a later failure of the review, an
\* orphaned call or another attempt of the synthesis does not take that back.
AcceptedWasSeen ==
  (\E r \in Candidates : accepted[r] = Reviewed) =>
    /\ stage = "ended" /\ conclusion.verdict = "verified" /\ ~aborted
    /\ VerifiedIsSeen

\* A review that has begun ends, also when nobody waits for it any more, and
\* leaves no provider call in flight.
ReviewSettles == stage # "none" ~> ReviewOver
=============================================================================
