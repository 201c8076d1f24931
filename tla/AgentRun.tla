------------------------------- MODULE AgentRun -------------------------------
(***************************************************************************)
(* One agent session run, from runAgentSession to its sealed outcome: the  *)
(* pi agent loop (external: requests, streamed answers, batches of tool    *)
(* calls, retries), the terminal tool, the guards that abort the loop from *)
(* outside, and the two-prompt flow that seals whatever happened first.    *)
(* A turn is abstracted to the number of terminal submissions in its       *)
(* batch; other tools only take time.                                      *)
(***************************************************************************)
EXTENDS TerminalTool, Sequences

CONSTANTS
  MaxTurns,  \* budgets.maxTurns
  MaxBatch   \* bound: terminal submissions in one turn

ASSUME AgentAssumption == MaxTurns \in Nat \ {0} /\ MaxBatch \in Nat \ {0}

VARIABLES
  stage,     \* where the run stands, see TypeOK
  prompts,   \* prompts issued: 1 the user task, 2 the nudge
  requests,  \* provider requests issued
  turns,     \* turn_end events the guards counted
  batch,     \* terminal submissions of the current turn still to run
  calling,   \* state of the submission being executed
  terminal,  \* the controller of the terminal tool
  cancelled, \* the caller's signal is aborted
  cause,     \* cause the guards recorded
  aborted,   \* pi's own run signal is aborted
  outcome,   \* the sealed outcome
  observed   \* history: fingerprints of the counted rejections

vars == <<stage, prompts, requests, turns, batch, calling, terminal,
          cancelled, cause, aborted, outcome, observed>>

Guard   == {"wall-clock", "turns", "request-deadline", "caller"}
Outcome == {"terminal", "rejected-streak", "rejected-total", "no-terminal",
            "provider-failure", "budget-wall-clock", "budget-turns",
            "budget-request-deadline", "aborted"}

TypeOK ==
  /\ stage \in {"called", "building", "requesting", "streaming", "turn", "sealed"}
  /\ prompts \in 0..2
  /\ requests \in Nat
  /\ turns \in 0..MaxTurns
  /\ batch \in 0..MaxBatch
  /\ calling \in {"none", "validating", "refused"}
  /\ terminal \in Controller
  /\ cancelled \in BOOLEAN
  /\ cause \in Guard \cup {"none"}
  /\ aborted \in BOOLEAN
  /\ outcome \in Outcome \cup {"none"}
  /\ observed \in Seq(Walls)

Init ==
  /\ stage = "called"
  /\ prompts = 0
  /\ requests = 0
  /\ turns = 0
  /\ batch = 0
  /\ calling = "none"
  /\ terminal = NewController
  /\ cancelled = FALSE
  /\ cause = "none"
  /\ aborted = FALSE
  /\ outcome = "none"
  /\ observed = <<>>

Prompting == stage \in {"requesting", "streaming", "turn"}
------------------------------------------------------------------------------
(* Sealing *)

SettlementSeal ==
  CASE terminal.settled = "accepted" -> "terminal"
    [] terminal.settled = "streak"   -> "rejected-streak"
    [] terminal.settled = "total"    -> "rejected-total"

CauseSeal(c) ==
  CASE c = "caller"           -> "aborted"
    [] c = "wall-clock"       -> "budget-wall-clock"
    [] c = "turns"            -> "budget-turns"
    [] c = "request-deadline" -> "budget-request-deadline"

\* Mutant: a recorded guard cause outranks the settlement.
SealGuardFirst(c, reason) ==
  IF c # "none" THEN CauseSeal(c)
  ELSE IF Settled(terminal) THEN SettlementSeal
  ELSE IF reason = "error" THEN "provider-failure"
  ELSE IF reason = "aborted" THEN "aborted"
  ELSE IF prompts = 2 THEN "no-terminal" ELSE "none"

\* What a prompt that ended means: the settlement wins, a guard's cause
\* outranks the transcript, and only a prose ending earns the nudge.
Seal(c, reason) ==
  IF Settled(terminal) THEN SettlementSeal
  ELSE IF c # "none" THEN CauseSeal(c)
  ELSE IF reason = "error" THEN "provider-failure"
  ELSE IF reason = "aborted" THEN "aborted"
  ELSE IF prompts = 2 THEN "no-terminal" ELSE "none"

\* prompt() has ended; the next prompt follows without giving way.
EndPrompt(c, reason) ==
  /\ outcome' = Seal(c, reason)
  /\ IF outcome' = "none"
     THEN /\ prompts' = prompts + 1
          /\ requests' = requests + 1
          /\ stage' = "requesting"
     ELSE /\ stage' = "sealed"
          /\ UNCHANGED <<prompts, requests>>

\* A caller already aborted is sealed at once, before a session is built.
Enter ==
  /\ stage = "called"
  /\ IF cancelled THEN stage' = "sealed" /\ outcome' = "aborted"
                  ELSE stage' = "building" /\ UNCHANGED outcome
  /\ UNCHANGED <<prompts, requests, turns, batch, calling, terminal, cancelled,
                 cause, aborted, observed>>

\* The session is built, the guards are attached and the user task is prompted.
Attach ==
  /\ stage = "building"
  /\ stage' = "requesting"
  /\ prompts' = 1
  /\ requests' = requests + 1
  /\ UNCHANGED <<turns, batch, calling, terminal, cancelled, cause, aborted,
                 outcome, observed>>
------------------------------------------------------------------------------
(* Guards *)

\* Mutant: the cause is recorded and the session left running.
FireSilently(c) ==
  /\ cause' = IF cause = "none" THEN c ELSE cause
  /\ UNCHANGED aborted

\* The first cause wins, and aborts pi's run.
Fire(c) ==
  /\ cause' = IF cause = "none" THEN c ELSE cause
  /\ aborted' = TRUE

\* The abort event is heard by the guards' listener only, and missed before
\* they are attached.
CallerAborts ==
  /\ ~cancelled
  /\ stage # "sealed"
  /\ cancelled' = TRUE
  /\ IF Prompting THEN Fire("caller") ELSE UNCHANGED <<cause, aborted>>
  /\ UNCHANGED <<stage, prompts, requests, turns, batch, calling, terminal,
                 outcome, observed>>

WallClock ==
  /\ Prompting
  /\ cause = "none"
  /\ Fire("wall-clock")
  /\ UNCHANGED <<stage, prompts, requests, turns, batch, calling, terminal,
                 cancelled, outcome, observed>>

\* Armed while an assistant message is streamed.
RequestDeadline ==
  /\ stage = "streaming"
  /\ cause = "none"
  /\ Fire("request-deadline")
  /\ UNCHANGED <<stage, prompts, requests, turns, batch, calling, terminal,
                 cancelled, outcome, observed>>

\* turn_end: the turn is counted, and the backstop may fire.
CauseAfterTurn ==
  IF cause = "none" /\ turns + 1 >= MaxTurns THEN "turns" ELSE cause

CountTurn ==
  /\ turns' = IF turns < MaxTurns THEN turns + 1 ELSE turns
  /\ IF CauseAfterTurn # cause THEN Fire("turns") ELSE UNCHANGED <<cause, aborted>>

\* The runner's race has seen the settlement and aborts the session.
NoticeSettlement ==
  /\ Prompting
  /\ Settled(terminal)
  /\ ~aborted
  /\ aborted' = TRUE
  /\ UNCHANGED <<stage, prompts, requests, turns, batch, calling, terminal,
                 cancelled, cause, outcome, observed>>
------------------------------------------------------------------------------
(* The pi agent loop *)

Respond ==
  /\ stage = "requesting"
  /\ ~aborted
  /\ stage' = "streaming"
  /\ UNCHANGED <<prompts, requests, turns, batch, calling, terminal, cancelled,
                 cause, aborted, outcome, observed>>

\* A failed request ends its turn; a transient one is retried.
RequestFails(retried) ==
  /\ stage \in {"requesting", "streaming"}
  /\ ~aborted
  /\ CountTurn
  /\ IF retried /\ ~aborted'
     THEN /\ stage' = "requesting"
          /\ requests' = requests + 1
          /\ UNCHANGED <<prompts, outcome>>
     ELSE EndPrompt(CauseAfterTurn, "error")
  /\ UNCHANGED <<batch, calling, terminal, cancelled, observed>>

\* An aborted request ends the prompt.
RequestAborted ==
  /\ stage \in {"requesting", "streaming"}
  /\ aborted
  /\ CountTurn
  /\ \E reason \in {"error", "aborted"} : EndPrompt(CauseAfterTurn, reason)
  /\ UNCHANGED <<batch, calling, terminal, cancelled, observed>>

AnswersInProse ==
  /\ stage = "streaming"
  /\ ~aborted
  /\ CountTurn
  /\ EndPrompt(CauseAfterTurn, "prose")
  /\ UNCHANGED <<batch, calling, terminal, cancelled, observed>>

\* The answer calls tools, n of the calls being terminal submissions.
AnswersWithCalls(n) ==
  /\ stage = "streaming"
  /\ ~aborted
  /\ stage' = "turn"
  /\ batch' = n
  /\ UNCHANGED <<prompts, requests, turns, calling, terminal, cancelled, cause,
                 aborted, outcome, observed>>

\* Mutant: the calls of a batch run side by side.
MayCallInParallel == stage = "turn" /\ batch > 0 /\ calling # "validating"

\* The terminal tool's executionMode is sequential.
MayCall == stage = "turn" /\ batch > 0 /\ calling = "none"

\* A rejection reaches the controller; it counts until the run is settled.
Observe(reason) ==
  /\ terminal' = ObserveRejection(terminal, reason)
  /\ observed' = IF Settled(terminal) THEN observed
                 ELSE Append(observed, Fingerprint(terminal, reason))

\* pi refuses the call before it executes.
Bounce(wall) ==
  /\ MayCall
  /\ Observe(wall)
  /\ batch' = batch - 1
  /\ UNCHANGED <<stage, prompts, requests, turns, calling, cancelled, cause,
                 aborted, outcome>>

Execute ==
  /\ MayCall
  /\ calling' = "validating"
  /\ UNCHANGED <<stage, prompts, requests, turns, batch, terminal, cancelled,
                 cause, aborted, outcome, observed>>

\* A second payload is refused without a fingerprint: the run is settled.
HostAccepts ==
  /\ calling = "validating"
  /\ calling' = "none"
  /\ batch' = batch - 1
  /\ terminal' = Accept(terminal)
  /\ UNCHANGED <<stage, prompts, requests, turns, cancelled, cause, aborted,
                 outcome, observed>>

HostRefuses(wall) ==
  /\ calling = "validating"
  /\ ~terminal.accepted
  /\ calling' = "refused"
  /\ terminal' = Refuse(terminal, wall)
  /\ UNCHANGED <<stage, prompts, requests, turns, batch, cancelled, cause,
                 aborted, outcome, observed>>

\* tool_execution_end of the refused call; its text is that of its wall.
RefusalReported ==
  /\ calling = "refused"
  /\ calling' = "none"
  /\ batch' = batch - 1
  /\ Observe(terminal.pending)
  /\ UNCHANGED <<stage, prompts, requests, turns, cancelled, cause, aborted,
                 outcome>>

\* pi may give up the calls left in the batch once it is aborted.
SkipCalls ==
  /\ MayCall
  /\ aborted
  /\ batch' = 0
  /\ UNCHANGED <<stage, prompts, requests, turns, calling, terminal, cancelled,
                 cause, aborted, outcome, observed>>

\* The batch is done.  A settlement has been noticed by then: its abort is a
\* few microtasks away, the next request many awaited listeners.
TurnEnds ==
  /\ stage = "turn"
  /\ batch = 0
  /\ Settled(terminal) => aborted
  /\ CountTurn
  /\ IF aborted'
     THEN EndPrompt(CauseAfterTurn, "aborted")
     ELSE /\ stage' = "requesting"
          /\ requests' = requests + 1
          /\ UNCHANGED <<prompts, outcome>>
  /\ UNCHANGED <<batch, calling, terminal, cancelled, observed>>

Turn ==
  \/ \E n \in 0..MaxBatch : AnswersWithCalls(n)
  \/ \E wall \in Walls : Bounce(wall)
  \/ Execute
  \/ HostAccepts
  \/ \E wall \in Walls : HostRefuses(wall)
  \/ RefusalReported
  \/ SkipCalls
  \/ TurnEnds

Sealed == stage = "sealed" /\ UNCHANGED vars

Next ==
  \/ Enter \/ Attach
  \/ CallerAborts \/ WallClock \/ RequestDeadline \/ NoticeSettlement
  \/ Respond \/ AnswersInProse \/ Turn
  \/ \E retried \in BOOLEAN : RequestFails(retried)
  \/ RequestAborted
  \/ Sealed

Spec == Init /\ [][Next]_vars

\* The session is built, an unanswered request times out, an aborted one ends,
\* tool calls settle, and the wall clock strikes.  A stream may go on for ever.
Fairness ==
  /\ WF_vars(Enter) /\ WF_vars(Attach)
  /\ WF_vars(Respond) /\ WF_vars(RequestAborted) /\ WF_vars(NoticeSettlement)
  /\ WF_vars(HostAccepts \/ \E wall \in Walls : HostRefuses(wall))
  /\ WF_vars(RefusalReported) /\ WF_vars(TurnEnds)
  /\ WF_vars(Execute \/ SkipCalls \/ \E wall \in Walls : Bounce(wall))
  /\ WF_vars(WallClock)

FairSpec == Spec /\ Fairness
------------------------------------------------------------------------------
\* A decision or a cap the terminal tool settled is the outcome of the run,
\* whatever guard trips, provider failure or cancellation meets it on the way.
SettlementSeals ==
  outcome # "none" /\ Settled(terminal) => outcome = SettlementSeal

\* The streak cap seals a run exactly when its last MaxRejections counted
\* rejections hit one wall: not earlier, when the model is still moving, and
\* not later; the total ceiling takes a run that never stays at one wall.
StreakIsReal ==
  LET n      == Len(observed)
      streak == /\ n >= MaxRejections
                /\ \A i \in (n - MaxRejections + 1)..n : observed[i] = observed[n]
  IN  /\ terminal.settled = "streak" <=> streak
      /\ terminal.settled = "total" <=> n = MaxTotalRejections /\ ~streak

\* A fingerprint waiting in the slot is that of the refused call whose report
\* comes next: no rejection is counted under another call's reason.
SlotBelongsToCall ==
  terminal.pending # NoWall /\ ~Settled(terminal) => calling = "refused"

\* Once a guard has tripped or the run is settled, no provider request starts.
StoppedRunRequestsNothing ==
  [][cause # "none" \/ Settled(terminal) => requests' = requests]_vars

\* Once the caller has cancelled, no provider request starts
\* (runAgentSession: "Caller aborts seal as `aborted`").
CancelledRunRequestsNothing == [][cancelled => requests' = requests]_vars

\* Every run is sealed, also when the provider streams for ever.
RunSeals == <>(outcome # "none")
=============================================================================
