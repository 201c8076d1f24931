--------------------------- MODULE PhaseExperiment ---------------------------
(***************************************************************************)
(* The controlled experiments of one run, from the apply_rule call of the  *)
(* agent to the published environment execution.  Each call may build the  *)
(* run's environment (ensureFilteringEnvironment), then walks its own      *)
(* experiment through phases A, B and C (runAdsEnvironmentExperiment,      *)
(* executeEnvironmentPhase, openPhase) under a tool deadline               *)
(* (withToolDeadline).  When the agent is done the environment is drained, *)
(* cleaned and published (finalizeFilteringEnvironmentExecution).          *)
(*                                                                         *)
(* A step is what runs between two awaits that the host can settle in any  *)
(* order; the recorder and the adapters are the records of PhaseLedger and *)
(* LeaseRegistry.  Every call is one experiment: Calls is Experiments.     *)
(***************************************************************************)
EXTENDS LeaseRegistry, Sequences

CONSTANTS
  Candidates,    \* candidate rules the agent may try
  NoCall,        \* no call: no adapter built yet, no experiment selected
  NoCandidate,   \* candidateDigest null
  MaxParallel,   \* calls of one agent turn that the host starts together
  GraceMayExpire,\* can a call stay wedged longer than the settle grace?
  MaxSurvivors   \* bound: browsers of a run that survive a close

Calls == Experiments

ASSUME ExperimentAssumption ==
  /\ NoCall \notin Calls
  /\ NoCandidate \notin Candidates
  /\ MaxParallel \in Nat \ {0}
  /\ GraceMayExpire \in BOOLEAN
  /\ MaxSurvivors \in Nat

VARIABLES
  call,        \* per call: where it stands, see Call
  env,         \* whose adapter and recorder the runtime's two fields hold
  adapter,     \* per call: the adapter it built
  rec,         \* per call: the recorder it built
  live,        \* sessions whose browser process is alive
  unclosed,    \* history: sessions whose browser survived a close
  disposition, \* filteringEnvironmentDisposition
  accepted,    \* per candidate: the call whose verified outcome is the latest
  candidateOrder, \* calls in the order their phase C entered the ledger
  run,         \* stage of the run
  toDrain,     \* handles the drain in progress has still to close
  failedStages,\* which of the two drains met a rejected close
  provisional, \* disposition handed to the finalizer
  published    \* the execution that escaped

experimentVars == <<call, env, adapter, rec, live, unclosed,
                    disposition, accepted, candidateOrder>>
finalVars == <<run, toDrain, failedStages, provisional, published>>
vars == <<experimentVars, finalVars>>

Call ==
  [at        : {"idle", "preparing", "ensured", "phase", "opening",
                "configuring", "relaunched", "observing", "closing",
                "returned"},
   phase     : Phase,
   origin    : {"created", "relaunched"},  \* of the session in hand
   env       : Calls \cup {NoCall},        \* captured adapter and recorder
   candidate : Candidates \cup {NoCandidate},
   deadline  : {"attended", "expired", "detached"}]

Verdict == [status : Disposition, candidate : Candidates \cup {NoCandidate},
            failure : BOOLEAN]

TypeOK ==
  /\ call \in [Calls -> Call]
  /\ env \in Calls \cup {NoCall}
  /\ adapter \in [Calls -> Adapter]
  /\ rec \in [Calls -> Recorder]
  /\ live \subseteq Session
  /\ unclosed \subseteq Session
  /\ disposition \in Verdict
  /\ accepted \in [Candidates -> Calls \cup {NoCall}]
  /\ candidateOrder \in Seq(Calls)
  /\ run \in {"agent", "draining", "cleaning", "done", "threw"}
  /\ toDrain \subseteq Session
  /\ failedStages \subseteq {"draining", "cleaning"}
  /\ provisional \in Verdict
  /\ published \in [status : Disposition \cup {"none"},
                    candidate : Candidates \cup {NoCandidate},
                    attached : BOOLEAN]

Undecided == [status |-> "inconclusive", candidate |-> NoCandidate,
              failure |-> FALSE]
Limited   == [Undecided EXCEPT !.status = "capability_limited", !.failure = TRUE]

Init ==
  /\ call = [c \in Calls |->
               [at |-> "idle", phase |-> "A", origin |-> "created",
                env |-> NoCall, candidate |-> NoCandidate,
                deadline |-> "attended"]]
  /\ env = NoCall
  /\ adapter = [c \in Calls |-> NewAdapter]
  /\ rec = [c \in Calls |-> NewRecorder]
  /\ live = {}
  /\ unclosed = {}
  /\ disposition = Undecided
  /\ accepted = [r \in Candidates |-> NoCall]
  /\ candidateOrder = <<>>
  /\ run = "agent"
  /\ toDrain = {}
  /\ failedStages = {}
  /\ provisional = Undecided
  /\ published = [status |-> "none", candidate |-> NoCandidate,
                  attached |-> FALSE]

------------------------------------------------------------------------------
Working(c) == call[c].at \notin {"idle", "returned"}

\* The agent loop is still waiting for the answer of c.
Attended(c) == Working(c) /\ call[c].deadline # "detached"

\* signal.aborted
Aborted(c) == call[c].deadline # "attended"

TokenOf(c) == <<c, call[c].phase>>
SessionOf(c) == <<TokenOf(c), call[c].origin>>
Adapt(c) == adapter[call[c].env]
Record(c) == rec[call[c].env]
EntryOf(c) == Record(c).entry[TokenOf(c)]

GoTo(c, at) == [call EXCEPT ![c].at = at]

\* What a call that has returned no longer needs is forgotten.
Returned(c) == [call EXCEPT ![c] = [@ EXCEPT !.at = "returned", !.phase = "A",
                                             !.origin = "created",
                                             !.deadline = "attended"]]

\* A promise chain that awaits no I/O runs to its end before any other
\* completion is delivered: with nothing left to close, the finalizer goes
\* from one stage to the next without interleaving.
Flushing == run \in {"draining", "cleaning"} /\ toDrain = {}

\* A browser survives a close that is rejected, and one that BrowserSession
\* gives up, and reports as done, after the protocol close and the forced kill.
Survives(s) ==
  /\ s \in live
  /\ s \notin unclosed => Cardinality(unclosed) < MaxSurvivors
  /\ unclosed' = unclosed \cup {s}

\* The close of a session returns.
Closed(s) ==
  \/ live' = live \ {s} /\ UNCHANGED unclosed
  \/ Survives(s) /\ UNCHANGED live
------------------------------------------------------------------------------
(* The call and its environment *)

\* A call returns early without having begun an experiment.
Return(c) ==
  /\ call' = Returned(c)
  /\ UNCHANGED <<env, adapter, rec, live, unclosed, disposition, accepted,
                 candidateOrder>>

\* runCommonExtensionCandidate up to its first await: the runtime's fields are
\* read here, and a recorded limitation refuses the call.
Start(c, r) ==
  /\ run = "agent"
  /\ call[c].at = "idle"
  /\ Cardinality({d \in Calls : Attended(d)}) < MaxParallel
  /\ call' = [call EXCEPT ![c].candidate = r,
                          ![c].at = CASE env = NoCall         -> "preparing"
                                      [] disposition.failure  -> "returned"
                                      [] OTHER                -> "ensured"]
  /\ UNCHANGED <<env, adapter, rec, live, unclosed, disposition, accepted,
                 candidateOrder>>

\* No adapter can be built: the requested lists do not converge or no executor
\* is registered (recorded), or the executor refuses construction (not recorded).
Unpreparable(c) ==
  /\ call[c].at = "preparing"
  /\ call' = Returned(c)
  /\ disposition' \in {disposition, Limited}
  /\ UNCHANGED <<env, adapter, rec, live, unclosed, accepted, candidateOrder>>

\* `await adapter.prepare` settles: the recorder is registered, the runtime's
\* fields are set, whatever they held, and the disposition starts over.
Prepared(c, ready) ==
  /\ call[c].at = "preparing"
  /\ adapter' = [adapter EXCEPT ![c] = Prepare(@, ready)]
  /\ rec' = [rec EXCEPT ![c] = RegisterAdapter(@)]
  /\ env' = c
  /\ disposition' = IF ready THEN Undecided ELSE Limited
  /\ call' = IF ready THEN GoTo(c, "ensured") ELSE Returned(c)
  /\ UNCHANGED <<live, unclosed, accepted, candidateOrder>>

\* The call captures the runtime's fields; an operation the environment cannot
\* apply makes it return here.
Capture(c) ==
  /\ call[c].at = "ensured"
  /\ call' = [call EXCEPT ![c].env = env, ![c].at = "phase"]
  /\ UNCHANGED <<env, adapter, rec, live, unclosed, disposition, accepted,
                 candidateOrder>>

UnsupportedOperation(c) == call[c].at = "ensured" /\ Return(c)
------------------------------------------------------------------------------
(* What an experiment leaves behind when it is over *)

\* Mutant: an aborted experiment still writes its verdict.
SettleRegardless(c, verdict) ==
  /\ call' = Returned(c)
  /\ disposition' = verdict

\* The end of runCommonExtensionCandidate: an aborted call answers
\* tool_deadline_exceeded and leaves the runtime alone.
Settle(c, verdict) ==
  /\ call' = Returned(c)
  /\ disposition' = IF Aborted(c) THEN disposition ELSE verdict

\* recordCandidateValidationOutcome: only a judged phase C replaces the latest
\* outcome of its candidate.
Judge(c, verified) ==
  accepted' = [accepted EXCEPT ![call[c].candidate] =
                 IF Aborted(c) THEN @ ELSE IF verified THEN c ELSE NoCall]

SettleUnjudged(c, verdict) == Settle(c, verdict) /\ UNCHANGED accepted

Failed == [Limited EXCEPT !.status = "failed"]
Verified(r) == [Undecided EXCEPT !.status = "verified", !.candidate = r]
------------------------------------------------------------------------------
(* One phase *)

\* executeEnvironmentPhase up to createSession (A) or the relocking of the
\* baseline (B, C).
BeginPhaseOf(c) ==
  /\ call[c].at = "phase"
  /\ IF Aborted(c)
     THEN SettleUnjudged(c, Limited) /\ UNCHANGED <<rec, candidateOrder>>
     ELSE /\ MayBegin(Record(c), TokenOf(c))
          /\ rec' = [rec EXCEPT ![call[c].env] = BeginPhase(@, TokenOf(c))]
          /\ candidateOrder' = IF call[c].phase = "C"
                               THEN Append(candidateOrder, c)
                               ELSE candidateOrder
          /\ IF MayOpen(Adapt(c))
             THEN call' = GoTo(c, "opening") /\ UNCHANGED <<disposition, accepted>>
             ELSE SettleUnjudged(c, Limited)
  /\ UNCHANGED <<env, adapter, live, unclosed>>

\* Settings or baseline changed, or the session could not be created; a
\* bootstrap-shaped launch failure leaves no limitation behind.
OpenFails(c) ==
  /\ call[c].at = "opening"
  /\ \E verdict \in {Limited, Undecided} : SettleUnjudged(c, verdict)
  /\ UNCHANGED <<env, adapter, rec, live, unclosed, candidateOrder>>

\* The phase is open: an aborted call closes it without binding, any other
\* binds the lease and starts to observe.
Open(c) ==
  IF Aborted(c)
  THEN call' = GoTo(c, "closing") /\ UNCHANGED rec
  ELSE /\ MayBind(Record(c), TokenOf(c))
       /\ rec' = [rec EXCEPT ![call[c].env] = BindPhaseLease(@, TokenOf(c))]
       /\ call' = GoTo(c, "observing")

\* createSession settles and its session is retained.  An application that
\* finds the signal aborted answers "unverified" before it touches anything.
SessionCreated(c) ==
  /\ call[c].at = "opening"
  /\ LET s == <<TokenOf(c), "created">>
     IN  /\ live' = live \cup {s}
         /\ adapter' = [adapter EXCEPT ![call[c].env] = Retain(@, s)]
  /\ CASE call[c].phase = "A" ->
            Open(c) /\ UNCHANGED <<disposition, accepted>>
       [] call[c].phase # "A" /\ Aborted(c) ->
            SettleUnjudged(c, Limited) /\ UNCHANGED rec
       [] call[c].phase # "A" /\ ~Aborted(c) ->
            call' = GoTo(c, "configuring") /\ UNCHANGED <<rec, disposition, accepted>>
  /\ UNCHANGED <<env, unclosed, candidateOrder>>

\* The Firefox application closes the session in hand, logging a rejected
\* close, and launches another that the registry does not know yet.
Relaunch(c) ==
  /\ call[c].at = "configuring"
  /\ LET r == <<TokenOf(c), "relaunched">>
     IN  \/ live' = (live \ {SessionOf(c)}) \cup {r} /\ UNCHANGED unclosed
         \/ live' = live \cup {r} /\ Survives(SessionOf(c))
  /\ call' = [call EXCEPT ![c].at = "relaunched", ![c].origin = "relaunched"]
  /\ UNCHANGED <<env, adapter, rec, disposition, accepted, candidateOrder>>

\* The same close, and no other session could be launched.
RelaunchFails(c) ==
  /\ call[c].at = "configuring"
  /\ Closed(SessionOf(c))
  /\ SettleUnjudged(c, Limited)
  /\ UNCHANGED <<env, adapter, rec, candidateOrder>>

\* The session that phaseConfiguration hands back, when it is not the one it was
\* given, takes the place of that one under its lease.
RetainReplacement(c) ==
  IF call[c].at = "relaunched"
  THEN adapter' = [adapter EXCEPT ![call[c].env] = Retain(@, SessionOf(c))]
  ELSE UNCHANGED adapter

\* Mutant: a phase that is not ready forgets its lease.
ConfiguredForgets(c, applied) ==
  /\ call[c].at \in {"configuring", "relaunched"}
  /\ IF applied
     THEN /\ RetainReplacement(c)
          /\ Open(c)
          /\ UNCHANGED <<disposition, accepted>>
     ELSE /\ adapter' = [adapter EXCEPT ![call[c].env] = Release(@, SessionOf(c))]
          /\ SettleUnjudged(c, Limited)
          /\ UNCHANGED rec
  /\ UNCHANGED <<env, live, unclosed, candidateOrder>>

\* phaseConfiguration settles: refused and unverified applications return
\* without closing the session in hand.
Configured(c, applied) ==
  /\ call[c].at \in {"configuring", "relaunched"}
  /\ RetainReplacement(c)
  /\ IF applied
     THEN Open(c) /\ UNCHANGED <<disposition, accepted>>
     ELSE SettleUnjudged(c, Limited) /\ UNCHANGED rec
  /\ UNCHANGED <<env, live, unclosed, candidateOrder>>

\* A configuration that throws rejects the whole call.
ConfigurationThrows(c) == call[c].at = "configuring" /\ Return(c)

\* Mutant: the candidate is judged whatever became of phase A.
ObserveWithoutControl(c, k) ==
  /\ call[c].at = "observing"
  /\ k = "positive" => call[c].phase # "A"
  /\ MayComplete(Record(c), TokenOf(c), k, {}, {})
  /\ rec' = [rec EXCEPT ![call[c].env] = CompletePhase(@, TokenOf(c), k, {})]
  /\ call' = GoTo(c, "closing")
  /\ UNCHANGED <<env, adapter, live, unclosed, disposition, accepted,
                 candidateOrder>>

\* The observer answers or throws.  Phase A has nothing to say for a candidate,
\* and phase C judges it only over complete A and B evidence.
Observe(c, k) ==
  /\ call[c].at = "observing"
  /\ k = "positive" => call[c].phase # "A"
  /\ k \in Observed /\ call[c].phase = "C" =>
       Record(c).entry[<<c, "A">>] \in Observed
  /\ MayComplete(Record(c), TokenOf(c), k, {}, {})
  /\ rec' = [rec EXCEPT ![call[c].env] = CompletePhase(@, TokenOf(c), k, {})]
  /\ call' = GoTo(c, "closing")
  /\ UNCHANGED <<env, adapter, live, unclosed, disposition, accepted,
                 candidateOrder>>

\* Mutant: the loop over the phases runs one too far.
NextPhaseTooFar == [A |-> "B", B |-> "D"]

NextPhase == [A |-> "B", B |-> "C"]

Proceed(c) ==
  /\ call' = [call EXCEPT ![c].at = "phase", ![c].phase = NextPhase[@],
                          ![c].origin = "created"]
  /\ UNCHANGED <<disposition, accepted>>

\* The phase is closed.  `thrown` tells an observation that threw from one that
\* returned a failed completion: only the first stops an experiment in A.
AfterPhase(c, thrown) ==
  LET p == call[c].phase
      e == EntryOf(c)
  IN  IF e = "issued" \/ thrown
      THEN SettleUnjudged(c, Limited)
      ELSE CASE p = "A" \/ (p = "B" /\ e = "positive") -> Proceed(c)
             [] (p = "B" /\ e # "positive") \/ (p = "C" /\ e = "failed") ->
                  SettleUnjudged(c, Undecided)
             [] p = "C" /\ e = "positive" ->
                  Settle(c, Verified(call[c].candidate)) /\ Judge(c, TRUE)
             [] p = "C" /\ e = "negative" ->
                  Settle(c, Undecided) /\ Judge(c, FALSE)

\* close() of the lease; a lease already drained needs no close.
CloseReturns(c) ==
  /\ call[c].at = "closing"
  /\ Closed(SessionOf(c))
  /\ adapter' = [adapter EXCEPT ![call[c].env] = Release(@, SessionOf(c))]
  /\ \E thrown \in (IF EntryOf(c) = "failed" THEN BOOLEAN ELSE {FALSE}) :
       AfterPhase(c, thrown)
  /\ UNCHANGED <<env, rec, candidateOrder>>

\* A rejected close drops no lease.  It decides the experiment unless the
\* phase was closed because of the abort.
CloseThrows(c) ==
  /\ call[c].at = "closing"
  /\ Survives(SessionOf(c))
  /\ SettleUnjudged(c, IF EntryOf(c) = "issued" THEN Limited ELSE Failed)
  /\ UNCHANGED <<env, adapter, rec, live, candidateOrder>>
------------------------------------------------------------------------------
(* The tool deadline *)

\* Where a call waits for I/O; elsewhere it runs on without giving way.
Awaiting(c) == Working(c) /\ call[c].at \notin {"ensured", "phase"}

\* Mutant: the observation is not raced against the signal.
ExpireUnraced(c) ==
  /\ Awaiting(c)
  /\ call[c].deadline = "attended"
  /\ call' = [call EXCEPT ![c].deadline = "expired"]
  /\ UNCHANGED <<env, adapter, rec, live, unclosed, disposition, accepted,
                 candidateOrder>>

\* The signal fires.  Only the race around an observation listens to it: the
\* phase is completed as failed at once; every other await is left alone.
Expire(c) ==
  /\ Awaiting(c)
  /\ call[c].deadline = "attended"
  /\ IF call[c].at = "observing"
     THEN /\ MayComplete(Record(c), TokenOf(c), "failed", {}, {})
          /\ rec' = [rec EXCEPT ![call[c].env] =
                       CompletePhase(@, TokenOf(c), "failed", {})]
          /\ call' = [call EXCEPT ![c].deadline = "expired", ![c].at = "closing"]
     ELSE /\ call' = [call EXCEPT ![c].deadline = "expired"]
          /\ UNCHANGED rec
  /\ UNCHANGED <<env, adapter, live, unclosed, disposition, accepted,
                 candidateOrder>>

\* Mutant: the grace is bounded for calls that are closing only.
GraceExpiresWhenClosing(c) ==
  /\ GraceMayExpire
  /\ call[c].at = "closing"
  /\ call[c].deadline = "expired"
  /\ call' = [call EXCEPT ![c].deadline = "detached"]
  /\ UNCHANGED <<env, adapter, rec, live, unclosed, disposition, accepted,
                 candidateOrder>>

\* TOOL_ABORT_SETTLE_GRACE_MS has passed: the agent goes on without the call.
GraceExpires(c) ==
  /\ GraceMayExpire
  /\ Awaiting(c)
  /\ call[c].deadline = "expired"
  /\ call' = [call EXCEPT ![c].deadline = "detached"]
  /\ UNCHANGED <<env, adapter, rec, live, unclosed, disposition, accepted,
                 candidateOrder>>

CallStep(c) ==
  /\ ~Flushing
  /\ \/ Unpreparable(c)
     \/ \E ready \in BOOLEAN : Prepared(c, ready)
     \/ Capture(c)
     \/ UnsupportedOperation(c)
     \/ BeginPhaseOf(c)
     \/ OpenFails(c)
     \/ SessionCreated(c)
     \/ Relaunch(c)
     \/ RelaunchFails(c)
     \/ \E applied \in BOOLEAN : Configured(c, applied)
     \/ ConfigurationThrows(c)
     \/ \E k \in Completion : Observe(c, k)
     \/ CloseReturns(c)
     \/ CloseThrows(c)
  /\ UNCHANGED finalVars

Timer(c) ==
  /\ ~Flushing
  /\ Expire(c) \/ GraceExpires(c)
  /\ UNCHANGED finalVars

StartStep(c) ==
  /\ \E r \in Candidates : Start(c, r)
  /\ UNCHANGED finalVars
------------------------------------------------------------------------------
(* The end of the run *)

\* The agent is done: it failed, it proposes an accepted candidate, or it
\* reports without one.
ProvisionalDispositions ==
  {Failed, disposition}
    \cup {Verified(r) : r \in {r \in Candidates : accepted[r] # NoCall}}

EndRun ==
  /\ run = "agent"
  /\ \A c \in Calls : ~Attended(c)
  /\ provisional' \in ProvisionalDispositions
  /\ IF env = NoCall
     THEN run' = "done" /\ UNCHANGED toDrain
     ELSE run' = "draining" /\ toDrain' = adapter[env].leases
  /\ UNCHANGED <<experimentVars, failedStages, published>>

\* BrowserSession marks itself closed before it awaits: a second close of a
\* session that its call is closing returns at once.
InFlight(s) == \E c \in Calls : call[c].at = "closing" /\ SessionOf(c) = s

\* The drain closes the sessions it found and drops their lease identities,
\* also when a call left behind has put another session there since.
DrainOne(s) ==
  /\ s \in toDrain
  /\ toDrain' = toDrain \ {s}
  /\ adapter' = [adapter EXCEPT ![env] = Release(@, s)]
  /\ IF InFlight(s) THEN UNCHANGED <<live, unclosed>> ELSE Closed(s)
  /\ UNCHANGED <<call, env, rec, disposition, accepted, candidateOrder, run,
                 failedStages, provisional, published>>

DrainThrows(s) ==
  /\ s \in toDrain
  /\ ~InFlight(s)
  /\ Survives(s)
  /\ toDrain' = toDrain \ {s}
  /\ failedStages' = failedStages \cup {run}
  /\ UNCHANGED <<call, env, adapter, rec, live, disposition, accepted,
                 candidateOrder, run, provisional, published>>

\* drainOpenHandles is over; cleanup drains once more what is open now.
BeginCleanup ==
  /\ run = "draining"
  /\ toDrain = {}
  /\ run' = "cleaning"
  /\ toDrain' = adapter[env].leases
  /\ UNCHANGED <<experimentVars, failedStages, provisional, published>>

\* The experiment the projection answers for: that of the last evidence of
\* phase C under the disposition's digest.
Selected(r, digest) ==
  LET judged == SelectSeq(candidateOrder,
                  LAMBDA c : /\ call[c].candidate = digest
                             /\ r.entry[<<c, "C">>] \in Completion)
  IN  IF judged = <<>> THEN NoCall ELSE judged[Len(judged)]

\* The evidence of x shows the candidate to be right.
Backed(r, x) ==
  /\ r.entry[<<x, "A">>] \in Observed
  /\ r.entry[<<x, "B">>] = "positive"
  /\ r.entry[<<x, "C">>] = "positive"

\* projectEnvironmentExecution refuses a verified execution whose selected
\* experiment is not exactly that.
Projects(r, status, digest) ==
  status = "verified" =>
    LET x == Selected(r, digest) IN x # NoCall /\ Backed(r, x)

\* The receipt, the recorded cleanup, the finalized execution and its
\* projection follow each other without an await on I/O.
Finish ==
  /\ run = "cleaning"
  /\ toDrain = {}
  /\ LET a    == CleanUp(adapter[env], "cleaning" \in failedStages)
         kept == MayRecordCleanup(rec[env], a.lifecycle, a.leases, a.receipt)
         r    == IF kept
                 THEN RecordCleanup(rec[env], a.receipt,
                                    "draining" \in failedStages)
                 ELSE rec[env]
         status == FinalStatus(r, provisional.status)
         digest == IF status = "verified" THEN provisional.candidate
                                          ELSE NoCandidate
     IN  /\ adapter' = [adapter EXCEPT ![env] = a]
         /\ IF kept /\ MayFinalize(r, provisional.status)
            THEN /\ rec' = [rec EXCEPT ![env] = Finalize(r)]
                 /\ run' = "done"
                 /\ published' = [status |-> status, candidate |-> digest,
                                  attached |-> Projects(r, status, digest)]
            ELSE /\ rec' = [rec EXCEPT ![env] = r]
                 /\ run' = "threw"
                 /\ UNCHANGED published
  /\ UNCHANGED <<call, env, live, unclosed, disposition, accepted,
                 candidateOrder, toDrain, failedStages, provisional>>

FinalStep ==
  \/ \E s \in Session : DrainOne(s) \/ DrainThrows(s)
  \/ BeginCleanup
  \/ Finish

Finished == run \in {"done", "threw"}

\* Nothing is left to do, in the run or in a call it left behind.
AllDone ==
  /\ Finished
  /\ \A c \in Calls : ~Working(c)
  /\ UNCHANGED vars

Next ==
  \/ \E c \in Calls : StartStep(c) \/ CallStep(c) \/ Timer(c)
  \/ EndRun
  \/ FinalStep
  \/ AllDone

Spec == Init /\ [][Next]_vars

RunsOn(c) == call[c].at \in {"ensured", "phase"} /\ CallStep(c)

\* Timers fire, code between two awaits runs on, the drain's closes settle
\* (BrowserSession bounds its own close) and the agent stops: its turns and its
\* wall clock are bounded.
HostFairness ==
  /\ \A c \in Calls : WF_vars(Timer(c)) /\ WF_vars(RunsOn(c))
  /\ WF_vars(EndRun)
  /\ WF_vars(FinalStep)

HostSpec == Spec /\ HostFairness
------------------------------------------------------------------------------
\* No call to the recorder is refused: each experiment begins, binds and
\* completes its phases in an order the recorder accepts, and the finalizer
\* meets a settled ledger and a snapshot that matches its receipt.
RecorderAccepts ==
  /\ \A c \in Calls : ~Aborted(c) =>
       /\ call[c].at = "phase" => MayBegin(Record(c), TokenOf(c))
       /\ call[c].at \in {"opening", "configuring", "relaunched"} =>
            MayBind(Record(c), TokenOf(c))
       /\ call[c].at = "observing" =>
            MayComplete(Record(c), TokenOf(c), "failed", {}, {})
  /\ run # "threw"

\* A published verification is backed by one experiment of that candidate
\* whose three phases were observed, in the recorder that was published.
VerifiedIsBacked ==
  published.status = "verified" =>
    \E c \in Calls : /\ call[c].candidate = published.candidate
                     /\ Backed(rec[env], c)

\* Sessions a drain may lose: a call left behind has relaunched its browser
\* while the drain was closing the one before it, whose lease it shares.
LostToDrain(s) ==
  GraceMayExpire /\ run # "agent" /\ s[2] = "relaunched"

\* A session whose browser has survived no close is retained under its lease
\* from the moment its phase knows it until it is closed, or lost to a drain.
RetainedUntilClosed ==
  \A s \in live \ unclosed :
    LET c == LeaseOf(s)[1]
    IN  \/ s \in Adapt(c).leases
        \/ call[c].at = "relaunched" /\ s = SessionOf(c)
        \/ InFlight(s)
        \/ LostToDrain(s)

\* A finished run leaves no browser behind except one that survived a close,
\* and does not publish a verdict over a lease it still holds.
NoSessionOutlivesRun ==
  Finished =>
    /\ live \subseteq unclosed
    /\ env # NoCall /\ adapter[env].leases # {} => published.status = "failed"

\* The validators only ever look at a live session that its adapter holds.
ObservesOwnLiveSession ==
  \A c \in Calls :
    call[c].at = "observing" => SessionOf(c) \in live \cap Adapt(c).leases

\* After the abort an experiment no longer speaks: it changes neither the
\* disposition nor the outcome of its candidate, begins no phase and adds no
\* observed evidence, however late it settles.
AbortedExperimentIsSilent ==
  [][\A c \in Calls :
       Aborted(c) /\ call[c].at # "preparing" /\ call'[c] # call[c] =>
         /\ UNCHANGED <<disposition, accepted, candidateOrder>>
         /\ \A x \in Calls : \A t \in Token :
              rec'[x].entry[t] \in Observed \cup {"issued", "bound"} =>
                rec'[x].entry[t] = rec[x].entry[t]]_vars

\* The environment of a run is set once (ensureFilteringEnvironment: "it must
\* be idempotent").
EnvironmentIsSetOnce == [][env # NoCall => env' = env]_vars

\* The run ends although calls may stay wedged for ever.
RunEnds == <>Finished
------------------------------------------------------------------------------
\* What the published execution promises, read off the environment the run
\* will publish.
Promise == INSTANCE EnvironmentExecution WITH
  evidence <- [t \in Token |->
                 IF env # NoCall /\ rec[env].entry[t] \in Completion
                 THEN rec[env].entry[t] ELSE "none"],
  held     <- IF env = NoCall THEN {}
              ELSE {LeaseOf(s) : s \in adapter[env].leases},
  outcome  <- IF run = "threw" \/ (run = "done" /\ env = NoCall) THEN "absent"
              ELSE IF run = "done" THEN published.status ELSE "open"

\* The run implements that promise.
KeepsPromise == Promise!Spec
=============================================================================
