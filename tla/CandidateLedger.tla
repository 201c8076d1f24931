--------------------------- MODULE CandidateLedger ----------------------------
(***************************************************************************)
(* What the runtime remembers of the candidate rules of one run, and what  *)
(* it lets apply_rule do with them: the gate in front of the tool          *)
(* (mergeBrowserTools), the call behind it (runCommonExtensionCandidate)   *)
(* under its deadline (withToolDeadline), and what each answer leaves in   *)
(* the ledger (recordCandidateValidationOutcome,                           *)
(* recordPhaseBootstrapFailure).                                           *)
(*                                                                         *)
(* The experiment itself is PhaseExperiment: here it opens sessions until  *)
(* it ends in one of its answers.  A candidate is its ledger key, the      *)
(* operation with the canonical rule; a plan is the digest of the reveal   *)
(* steps, the empty one included.                                          *)
(***************************************************************************)
EXTENDS Integers, FiniteSets

CONSTANTS
  Candidates,     \* ledger keys the agent may try
  Plans,          \* digests of reveal steps
  NoCandidate,    \* candidate of no call
  NoPlan,         \* plan of no call
  Calls,          \* bound: apply_rule calls in progress, detached ones included
  MaxCandidates,  \* semantic attempts of a run
  MaxExecutions,  \* MAX_CANDIDATE_VALIDATION_EXECUTIONS
  MaxAbsent,      \* experiments without a symptom before a refusal
  MaxSessions,    \* bound: launches of the agent's browser
  MaxExperiments, \* bound: experiments of the run
  MaxParallel     \* calls of one agent turn that the host starts together

ASSUME LedgerAssumption ==
  /\ IsFiniteSet(Candidates) /\ IsFiniteSet(Calls)
  /\ NoCandidate \notin Candidates /\ NoPlan \notin Plans
  /\ {MaxCandidates, MaxExecutions, MaxAbsent} \subseteq Nat \ {0}
  /\ {MaxSessions, MaxExperiments, MaxParallel} \subseteq Nat \ {0}

VARIABLES
  attempt,    \* candidateAttempts: number of each candidate, 0 if unknown
  tried,      \* candidateAttemptSessionIds
  executions, \* candidateValidationExecutionCounts
  judged,     \* candidateRevealPlanDigests
  outcome,    \* candidateValidationOutcomes: number and verdict, 0 if none
  absent,     \* baselineSymptomAbsentCounts
  session,    \* activeSessionId: sessions are numbered by their launch
  ordinal,    \* filteringEnvironmentExperimentExecutionOrdinal
  bootstrap,  \* phaseBootstrapFailure: experiment of the failure, 0 if null
  built,      \* filteringEnvironmentAdapter is set
  limited,    \* filteringEnvironmentDisposition holds a failure
  overdue,    \* history: some call has outlived its deadline and the grace
  call        \* the calls in progress

ledgerVars == <<attempt, tried, executions, judged, outcome, absent>>
environmentVars == <<built, limited>>
vars == <<ledgerVars, session, ordinal, bootstrap, environmentVars, overdue, call>>

Sessions == 1 .. MaxSessions
Ordinals == 0 .. MaxExperiments

Call ==
  [at        : {"idle", "preparing", "ready", "running", "opening"},
   candidate : Candidates \cup {NoCandidate},
   plan      : Plans \cup {NoPlan},
   number    : 0 .. MaxCandidates, \* attemptNumber
   fresh     : BOOLEAN,            \* registered by this very call
   own       : Ordinals,           \* executionOrdinal of its experiment
   opened    : Ordinals,           \* ordinal when its session was asked for
   deadline  : {"attended", "expired", "detached"}]

TypeOK ==
  /\ attempt \in [Candidates -> 0 .. MaxCandidates]
  /\ tried \in [Candidates -> SUBSET Sessions]
  /\ executions \in [Candidates -> Ordinals]
  /\ judged \in [Candidates -> SUBSET Plans]
  /\ outcome \in [Candidates -> [number : 0 .. MaxCandidates,
                                 inconclusive : BOOLEAN]]
  /\ absent \in [Candidates \X Plans -> Ordinals]
  /\ session \in Sessions
  /\ ordinal \in Ordinals
  /\ bootstrap \in Ordinals
  /\ {built, limited, overdue} \subseteq BOOLEAN
  /\ call \in [Calls -> Call]

NoOutcome == [number |-> 0, inconclusive |-> FALSE]

Idle == [at |-> "idle", candidate |-> NoCandidate, plan |-> NoPlan, number |-> 0,
         fresh |-> FALSE, own |-> 0, opened |-> 0, deadline |-> "attended"]

Init ==
  /\ attempt = [k \in Candidates |-> 0]
  /\ tried = [k \in Candidates |-> {}]
  /\ executions = [k \in Candidates |-> 0]
  /\ judged = [k \in Candidates |-> {}]
  /\ outcome = [k \in Candidates |-> NoOutcome]
  /\ absent = [kp \in Candidates \X Plans |-> 0]
  /\ session = 1
  /\ ordinal = 0
  /\ bootstrap = 0
  /\ built = FALSE /\ limited = FALSE /\ overdue = FALSE
  /\ call = [c \in Calls |-> Idle]
------------------------------------------------------------------------------
Registered == {k \in Candidates : attempt[k] # 0}

Working(c) == call[c].at # "idle"
Attended(c) == Working(c) /\ call[c].deadline # "detached"

\* signal.aborted
Aborted(c) == call[c].deadline # "attended"

MayCall == Cardinality({c \in Calls : Attended(c)}) < MaxParallel

\* launch_browser has replaced the session the browser tools act on.
Relaunch ==
  /\ MayCall
  /\ session < MaxSessions
  /\ session' = session + 1
  /\ UNCHANGED <<ledgerVars, ordinal, bootstrap, environmentVars, call>>
------------------------------------------------------------------------------
(* The gate of apply_rule *)

\* canRetryInconclusiveVisualReview
MayRetry(k) ==
  \/ outcome[k] = NoOutcome
  \/ outcome[k].inconclusive /\ executions[k] < MaxExecutions

\* Mutant: new reveal steps buy an experiment without end.
IsUntriedPlanUnbounded(k, p) == judged[k] # {} /\ p \notin judged[k]

\* isUntriedRevealPlan
IsUntriedPlan(k, p) ==
  judged[k] # {} /\ p \notin judged[k] /\ executions[k] < MaxExecutions

\* Mutant: the limit is checked after the registration.
AdmitsOneMore(k, p) ==
  IF attempt[k] # 0
  THEN session \notin tried[k] \/ MayRetry(k) \/ IsUntriedPlan(k, p)
  ELSE Cardinality(Registered) <= MaxCandidates

\* Neither duplicate_candidate nor candidate_limit_reached.
Admits(k, p) ==
  IF attempt[k] # 0
  THEN session \notin tried[k] \/ MayRetry(k) \/ IsUntriedPlan(k, p)
  ELSE Cardinality(Registered) < MaxCandidates

\* Mutant: a candidate that is tried again gets a number of its own.
NumberOfAnew(k) == Cardinality(Registered \ {k}) + 1

NumberOf(k) == IF attempt[k] # 0 THEN attempt[k] ELSE Cardinality(Registered) + 1

\* Up to the first await of the call the candidate is registered, whatever the
\* call makes of it: without an instruction or a prepared session, or when the
\* baseline showed no symptom often enough, it ends here, and so it does in an
\* environment known to be limited.
Apply(c, k, p) ==
  /\ MayCall
  /\ ~Working(c)
  /\ Admits(k, p)
  /\ attempt' = [attempt EXCEPT ![k] = NumberOf(k)]
  /\ tried' = [tried EXCEPT ![k] = @ \cup {session}]
  /\ \/ UNCHANGED call
     \/ /\ absent[<<k, p>>] < MaxAbsent
        /\ ~(built /\ limited)
        /\ call' = [call EXCEPT ![c] =
             [Idle EXCEPT !.at = IF built THEN "ready" ELSE "preparing",
                          !.candidate = k, !.plan = p,
                          !.number = NumberOf(k), !.fresh = attempt[k] = 0]]
  /\ UNCHANGED <<executions, judged, outcome, absent, session, ordinal,
                 bootstrap, environmentVars>>
------------------------------------------------------------------------------
(* Answers *)

End(c) == call' = [call EXCEPT ![c] = Idle]

\* Every answer that validated nothing leaves the candidate's records alone.
AnswerUnjudged(c) == End(c) /\ UNCHANGED ledgerVars

\* Mutant: whoever registered the candidate, the refusal releases it.
ReleaseAlways(c) == ~Aborted(c)

\* candidate_operation_unsupported gives back the attempt that this call took;
\* an aborted call was answered with its deadline instead.
Releases(c) == call[c].fresh /\ ~Aborted(c)

AnswerUnsupported(c) ==
  LET k == call[c].candidate
  IN  /\ End(c)
      /\ attempt' = [attempt EXCEPT ![k] = IF Releases(c) THEN 0 ELSE @]
      /\ tried' = [tried EXCEPT ![k] = IF Releases(c) THEN {} ELSE @]
      /\ UNCHANGED <<executions, judged, outcome, absent>>

\* recordCandidateValidationOutcome
AnswerJudged(c, inconclusive) ==
  LET k == call[c].candidate
  IN  /\ End(c)
      /\ executions' = [executions EXCEPT ![k] = @ + 1]
      /\ judged' = [judged EXCEPT ![k] = @ \cup {call[c].plan}]
      /\ outcome' = [outcome EXCEPT ![k] = [number |-> call[c].number,
                                            inconclusive |-> inconclusive]]
      /\ UNCHANGED <<attempt, tried, absent>>

AnswerAbsent(c) ==
  /\ End(c)
  /\ absent' = [absent EXCEPT ![<<call[c].candidate, call[c].plan>>] = @ + 1]
  /\ UNCHANGED <<attempt, tried, executions, judged, outcome>>
------------------------------------------------------------------------------
(* The call behind the gate *)

\* ensureFilteringEnvironment meets a limitation (recorded), or the executor
\* refuses to build an adapter (not recorded).
Unprepared(c) ==
  /\ call[c].at = "preparing"
  /\ built' \in {built, TRUE}
  /\ limited' \in {limited, TRUE}
  /\ built' # built => limited'
  /\ AnswerUnjudged(c)
  /\ UNCHANGED <<session, ordinal, bootstrap>>

Prepared(c) ==
  /\ call[c].at = "preparing"
  /\ built' = TRUE
  /\ limited' = FALSE
  /\ call' = [call EXCEPT ![c].at = "ready"]
  /\ UNCHANGED <<ledgerVars, session, ordinal, bootstrap>>

\* The route cannot change a published baseline.
UnsupportedByRoute(c) ==
  /\ call[c].at = "ready"
  /\ AnswerUnsupported(c)
  /\ UNCHANGED <<session, ordinal, bootstrap, environmentVars>>

Begin(c) ==
  /\ call[c].at = "ready"
  /\ ordinal < MaxExperiments
  /\ ordinal' = ordinal + 1
  /\ call' = [call EXCEPT ![c] = [@ EXCEPT !.at = "running", !.own = ordinal + 1]]
  /\ UNCHANGED <<ledgerVars, session, bootstrap, environmentVars>>

\* createFilteringPhaseSession up to its await. An aborted experiment begins
\* no phase.
OpenSession(c) ==
  /\ call[c].at = "running"
  /\ ~Aborted(c)
  /\ call' = [call EXCEPT ![c] = [@ EXCEPT !.at = "opening", !.opened = ordinal]]
  /\ UNCHANGED <<ledgerVars, session, ordinal, bootstrap, environmentVars>>

SessionOpens(c) ==
  /\ call[c].at = "opening"
  /\ call' = [call EXCEPT ![c] = [@ EXCEPT !.at = "running", !.opened = 0]]
  /\ UNCHANGED <<ledgerVars, session, ordinal, bootstrap, environmentVars>>

\* Mutant: the end of an experiment drops its own failure, too.
FailureForgotten(c, failure) == 0

\* An experiment is over: a failure recorded for another one is dropped.
OwnFailure(c, failure) == IF failure = call[c].own THEN failure ELSE 0

\* recordPhaseBootstrapFailure: only the current experiment's failure counts.
Recorded(c, infrastructure) ==
  CASE call[c].opened # ordinal -> bootstrap
    [] call[c].opened = ordinal -> IF infrastructure THEN ordinal ELSE 0

\* The launch of a phase's session throws and ends the experiment. With an own
\* failure on record the call answers phase_session_unavailable and leaves the
\* environment as it is, otherwise the environment is limited.
BootstrapFails(c, infrastructure) ==
  LET failure == Recorded(c, infrastructure)
  IN  /\ call[c].at = "opening"
      /\ AnswerUnjudged(c)
      /\ IF Aborted(c)
         THEN bootstrap' = failure /\ UNCHANGED limited
         ELSE /\ bootstrap' = OwnFailure(c, failure)
              /\ limited' = (OwnFailure(c, failure) = 0)
      /\ UNCHANGED <<session, ordinal, built>>

\* The experiment of a call that is still on time ends.
Concludes(c) ==
  /\ call[c].at = "running"
  /\ ~Aborted(c)
  /\ bootstrap' = OwnFailure(c, bootstrap)
  /\ UNCHANGED <<session, ordinal, built>>

Judge(c, inconclusive) ==
  Concludes(c) /\ AnswerJudged(c, inconclusive) /\ limited' = FALSE

SymptomAbsent(c) == Concludes(c) /\ AnswerAbsent(c) /\ limited' = FALSE

Inconclusive(c) == Concludes(c) /\ AnswerUnjudged(c) /\ limited' = FALSE

LimitationMet(c) == Concludes(c) /\ AnswerUnjudged(c) /\ limited' = TRUE

\* The adapter refuses the operation; the limitation is not the environment's.
UnsupportedByAdapter(c) == Concludes(c) /\ AnswerUnsupported(c) /\ limited' = FALSE

\* The experiment notices the abort and the call leaves the runtime alone.
Abandoned(c) ==
  /\ call[c].at = "running"
  /\ Aborted(c)
  /\ AnswerUnjudged(c)
  /\ UNCHANGED <<session, ordinal, bootstrap, environmentVars>>

\* withToolDeadline: the call is told to stop; when the grace is over too, the
\* agent gets its answer and the call goes on.
Expire(c) ==
  /\ Working(c)
  /\ call[c].deadline = "attended"
  /\ call' = [call EXCEPT ![c].deadline = "expired"]
  /\ UNCHANGED <<ledgerVars, session, ordinal, bootstrap, environmentVars>>

GraceExpires(c) ==
  /\ Working(c)
  /\ call[c].deadline = "expired"
  /\ call' = [call EXCEPT ![c].deadline = "detached"]
  /\ overdue' = TRUE
  /\ UNCHANGED <<ledgerVars, session, ordinal, bootstrap, environmentVars>>

\* What follows an environment at hand awaits nothing before the experiment.
Ready(c) == call[c].at = "ready"

ReadyStep(c) == UnsupportedByRoute(c) \/ Begin(c)

CallStep(c) ==
  \/ \E k \in Candidates, p \in Plans : Apply(c, k, p)
  \/ Unprepared(c)
  \/ Prepared(c)
  \/ OpenSession(c)
  \/ SessionOpens(c)
  \/ \E infrastructure \in BOOLEAN : BootstrapFails(c, infrastructure)
  \/ \E inconclusive \in BOOLEAN : Judge(c, inconclusive)
  \/ SymptomAbsent(c)
  \/ Inconclusive(c)
  \/ LimitationMet(c)
  \/ UnsupportedByAdapter(c)
  \/ Abandoned(c)
  \/ Expire(c)

Next ==
  \/ \E c \in Calls : Ready(c) /\ ReadyStep(c) /\ UNCHANGED overdue
  \/ /\ \A c \in Calls : ~Ready(c)
     /\ \/ Relaunch /\ UNCHANGED overdue
        \/ \E c \in Calls : CallStep(c) /\ UNCHANGED overdue
        \/ \E c \in Calls : GraceExpires(c)

Spec == Init /\ [][Next]_vars
------------------------------------------------------------------------------
\* The candidates of the run are numbered 1, 2, ... without gap or repetition,
\* although an unsupported one gives its number back.
NumbersAreRanks ==
  {attempt[k] : k \in Registered} = 1 .. Cardinality(Registered)

\* A verdict is about a candidate that is still registered, under the number
\* that its artifacts carry.
VerdictsAreRegistered ==
  \A k \in Candidates :
    outcome[k] # NoOutcome => attempt[k] = outcome[k].number

\* A candidate is validated three times in one session, over all its reveal
\* plans and inconclusive reviews, and once more for each further session.
ExecutionsAreBounded ==
  \A k \in Candidates :
    executions[k] > 0 => executions[k] < MaxExecutions + Cardinality(tried[k])

\* A browser that dies at launch is not a limit of the environment: the call
\* that meets it does not lock later candidates out ("an infrastructure-shaped
\* bootstrap fault is not a capability limit of the locked environment"), as
\* long as no call left behind can begin an experiment of its own meanwhile.
BootstrapIsNoLimit ==
  [][\A c \in Calls :
       ~overdue /\ ~Aborted(c) /\ BootstrapFails(c, TRUE) => ~limited']_vars
=============================================================================
