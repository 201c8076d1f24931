--------------------------- MODULE TechnicalBudget ---------------------------
(***************************************************************************)
(* The technical budget of one target URL in AgentRuntime: how often its   *)
(* browser access has failed, and when the agent is told to stop trying.   *)
(***************************************************************************)
EXTENDS Naturals

CONSTANTS
  Signals,   \* fatal signals a crashed launch can name
  NoSignal   \* a failure that names none

ASSUME BudgetAssumption == NoSignal \notin Signals

\* MAX_TECHNICAL_BROWSER_FAILURES_PER_TARGET
MaxAttempts == 3

\* An entry of technicalBrowserFailures; an absent one has no attempts.
Budget == [attempts : 0..MaxAttempts,
           signal   : Signals \cup {NoSignal},
           failFast : BOOLEAN]

NewBudget == [attempts |-> 0, signal |-> NoSignal, failFast |-> FALSE]

\* No launch and no browser tool is served for the target any more, and the
\* agent is told to finish with an analysis-only report.
Exhausted(b) == b.attempts >= MaxAttempts \/ b.failFast

\* The terminal validator admits a report without browser evidence.
ReportAllowed(b) == b.attempts >= MaxAttempts

\* Mutant: the count is not capped.
OneMoreUncapped(b) == b.attempts + 1

OneMore(b) == IF b.attempts < MaxAttempts THEN b.attempts + 1 ELSE MaxAttempts

\* A launch failed. Dying twice running on one signal forfeits the rest.
ChargeLaunch(b, signal) ==
  [attempts |-> OneMore(b),
   signal   |-> signal,
   failFast |-> signal # NoSignal /\ b.signal = signal]

\* A navigation failed.
ChargePage(b) ==
  [attempts |-> OneMore(b), signal |-> NoSignal, failFast |-> FALSE]

\* Mutant: a wall is reported without being counted.
ChargeWallFreely(b) ==
  [attempts |-> b.attempts, signal |-> NoSignal, failFast |-> FALSE]

\* Vision saw a wall in place of the page.
ChargeWall(b) ==
  [attempts |-> OneMore(b), signal |-> NoSignal, failFast |-> FALSE]
==============================================================================
