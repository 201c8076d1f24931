---------------------------- MODULE BrowserAccess ----------------------------
(***************************************************************************)
(* The browser the agent works in: launch_browser, close_browser and       *)
(* open_page of AgentRuntime, their deadlines, the technical budgets they  *)
(* charge and the analysis-only report that may end a run without a        *)
(* reachable page. A launch call is named by an element of Launches, and   *)
(* so is the session it creates. The two fields browserSession and         *)
(* activeSessionId always change together and are one variable, active.    *)
(* Left out: settings proofs, captures and what vision reads in them.      *)
(***************************************************************************)
EXTENDS TechnicalBudget, FiniteSets

CONSTANTS
  Launches,      \* bound: launch_browser calls of one run
  Pages,         \* bound: open_page calls in flight
  Targets,       \* target URLs
  Reported,      \* those of the issue, allowed from the start
  Environments,  \* extension, profile and settings of a launch
  NoSession,     \* no browser session
  NoTarget,      \* no target URL
  MaxParallel,   \* bound: unanswered tool calls of a turn
  MaxOverdue     \* bound: launches answered before they have settled

ASSUME AccessAssumption ==
  /\ NoSession \notin Launches
  /\ NoTarget \notin Targets
  /\ Reported \subseteq Targets
  /\ MaxParallel \in Nat
  /\ MaxOverdue \in Nat

VARIABLES
  launch,     \* the launch_browser calls
  page,       \* the open_page calls
  dispose,    \* the dispose of close_browser, or that of the run's end
  browser,    \* state of every session's browser
  active,     \* browserSession and activeSessionId
  tools,      \* session the registered browser tools act on
  retired,    \* sessions with technicalNavigationFailed
  failedKeys, \* failedBrowserEnvironmentKeys
  visited,    \* sessions with navigationVerified
  loaded,     \* sessions that have loaded some page
  walled,     \* withheldPageCountedSessions
  budget,     \* technicalBrowserFailures
  allowed,    \* allowedTargetUrls and redirectTargetUrls
  run         \* the agent session: "open", "disposing", "done"

budgetVars == <<failedKeys, walled, budget>>
pageVars   == <<retired, visited, loaded, allowed>>
vars == <<launch, page, dispose, browser, active, tools, budgetVars, pageVars, run>>

Sessions == Launches \cup {NoSession}

LaunchState == {"new", "checking", "disposing", "creating", "preparing",
                "discarding", "failing", "ended"}

LaunchCall == [at       : LaunchState,
               target   : Targets \cup {NoTarget},
               env      : Environments \cup {NoTarget},
               waits    : Sessions,  \* session whose close it awaits
               signal   : Signals \cup {NoSignal},
               aborted  : BOOLEAN,   \* its deadline has passed
               answered : BOOLEAN]   \* and so has the grace

TypeOK ==
  /\ launch \in [Launches -> LaunchCall]
  /\ page \in [Pages -> [busy : BOOLEAN, on : Sessions, state : Sessions]]
  /\ dispose \in [busy : BOOLEAN, waits : Sessions]
  /\ browser \in [Launches -> {"none", "live", "closing", "closed"}]
  /\ active \in Sessions
  /\ tools \in Sessions
  /\ failedKeys \subseteq (Targets \cup {NoTarget}) \X (Environments \cup {NoTarget})
  /\ budget \in [Targets -> Budget]
  /\ retired \cup visited \cup loaded \cup walled \subseteq Launches
  /\ allowed \subseteq Targets
  /\ run \in {"open", "disposing", "done"}

Init ==
  /\ launch = [l \in Launches |->
                 [at |-> "new", target |-> NoTarget, env |-> NoTarget,
                  waits |-> NoSession, signal |-> NoSignal,
                  aborted |-> FALSE, answered |-> FALSE]]
  /\ page = [p \in Pages |->
               [busy |-> FALSE, on |-> NoSession, state |-> NoSession]]
  /\ dispose = [busy |-> FALSE, waits |-> NoSession]
  /\ browser = [l \in Launches |-> "none"]
  /\ active = NoSession
  /\ tools = NoSession
  /\ failedKeys = {}
  /\ budget = [t \in Targets |-> NewBudget]
  /\ retired = {} /\ visited = {} /\ loaded = {} /\ walled = {}
  /\ allowed = Reported
  /\ run = "open"

Working(l) == launch[l].at \notin {"new", "ended"}

\* Calls the model has no answer to yet.
Unanswered ==
  Cardinality({l \in Launches : Working(l) /\ ~launch[l].answered})
  + Cardinality({p \in Pages : page[p].busy})
  + (IF dispose.busy THEN 1 ELSE 0)

MayCall == run = "open" /\ Unanswered < MaxParallel

TargetOf(s) == launch[s].target
KeyOf(s)    == <<launch[s].target, launch[s].env>>
------------------------------------------------------------------------------
(* Closing a session *)

\* BrowserSession.close waits for the bounded close of a live browser; for any
\* other caller it returns at once, and what follows runs without a gap.
Live(s)  == s # NoSession /\ browser[s] = "live"
Close(s) == browser' = [browser EXCEPT ![s] = "closing"]

CloseReturns(waits) == browser[waits] = "closed"

BrowserCloses(l) ==
  /\ browser[l] = "closing"
  /\ browser' = [browser EXCEPT ![l] = "closed"]
  /\ UNCHANGED <<launch, page, dispose, active, tools, budgetVars, pageVars, run>>

\* Mutant: dispose leaves the session's tools registered.
ReleaseKeepsTools == active' = NoSession /\ UNCHANGED tools

\* The end of AgentRuntime.dispose.
Release == active' = NoSession /\ tools' = NoSession

BeginDispose ==
  /\ IF Live(active)
     THEN /\ Close(active)
          /\ dispose' = [busy |-> TRUE, waits |-> active]
          /\ UNCHANGED <<active, tools>>
     ELSE Release /\ UNCHANGED <<dispose, browser>>
  /\ UNCHANGED <<launch, page, budgetVars, pageVars>>

CloseBrowser ==
  /\ MayCall
  /\ ~dispose.busy
  /\ BeginDispose
  /\ UNCHANGED run

\* The agent session is over and the run disposes of its runtime.
EndRun ==
  /\ run = "open"
  /\ Unanswered = 0
  /\ BeginDispose
  /\ run' = IF Live(active) THEN "disposing" ELSE "done"

EndDispose ==
  /\ dispose.busy
  /\ CloseReturns(dispose.waits)
  /\ Release
  /\ dispose' = [busy |-> FALSE, waits |-> NoSession]
  /\ run' = IF run = "disposing" THEN "done" ELSE run
  /\ UNCHANGED <<launch, page, browser, budgetVars, pageVars>>
------------------------------------------------------------------------------
(* launch_browser *)

\* Every guard is read before the first await.
Launch(l, t, e) ==
  /\ MayCall
  /\ launch[l].at = "new"
  /\ t \in allowed
  /\ ~Exhausted(budget[t])
  /\ active \notin retired
  /\ <<t, e>> \notin failedKeys
  /\ launch' = [launch EXCEPT ![l] = [@ EXCEPT !.at = "checking", !.target = t, !.env = e]]
  /\ UNCHANGED <<page, dispose, browser, active, tools, budgetVars, pageVars, run>>

\* The catalog of the build refuses the settings.
CheckRefuses(l) ==
  /\ launch[l].at = "checking"
  /\ launch' = [launch EXCEPT ![l].at = "ended"]
  /\ UNCHANGED <<page, dispose, browser, active, tools, budgetVars, pageVars, run>>

CheckPasses(l) ==
  /\ launch[l].at = "checking"
  /\ IF Live(active)
     THEN /\ Close(active)
          /\ launch' = [launch EXCEPT ![l] = [@ EXCEPT !.at = "disposing", !.waits = active]]
          /\ UNCHANGED <<active, tools>>
     ELSE /\ Release
          /\ launch' = [launch EXCEPT ![l].at = "creating"]
          /\ UNCHANGED browser
  /\ UNCHANGED <<page, dispose, budgetVars, pageVars, run>>

Disposed(l) ==
  /\ launch[l].at = "disposing"
  /\ CloseReturns(launch[l].waits)
  /\ Release
  /\ launch' = [launch EXCEPT ![l] = [@ EXCEPT !.at = "creating", !.waits = NoSession]]
  /\ UNCHANGED <<page, dispose, browser, budgetVars, pageVars, run>>

SessionCreated(l) ==
  /\ launch[l].at = "creating"
  /\ launch' = [launch EXCEPT ![l].at = "preparing"]
  /\ browser' = [browser EXCEPT ![l] = "live"]
  /\ active' = l
  /\ UNCHANGED <<page, dispose, tools, budgetVars, pageVars, run>>

\* Mutant: only the newer launch counts.
SupersededOnly(l) == active # l

\* The deadline has passed or a newer launch has taken over.
Superseded(l) == launch[l].aborted \/ active # l

Discard(l) ==
  /\ launch' = [launch EXCEPT ![l].at = "ended"]
  /\ active' = IF active = l THEN NoSession ELSE active
  /\ UNCHANGED <<tools, browser>>

\* The session is set up: log, Baseline application, registry of its tools.
Prepared(l) ==
  /\ launch[l].at = "preparing"
  /\ \/ /\ Superseded(l) /\ Live(l)
        /\ launch' = [launch EXCEPT ![l].at = "discarding"]
        /\ Close(l)
        /\ UNCHANGED <<active, tools>>
     \/ Superseded(l) /\ ~Live(l) /\ Discard(l)
     \/ /\ ~Superseded(l)
        /\ launch' = [launch EXCEPT ![l].at = "ended"]
        /\ tools' = l
        /\ UNCHANGED <<active, browser>>
  /\ UNCHANGED <<page, dispose, budgetVars, pageVars, run>>

Discarded(l) ==
  /\ launch[l].at = "discarding"
  /\ CloseReturns(l)
  /\ Discard(l)
  /\ UNCHANGED <<page, dispose, budgetVars, pageVars, run>>

\* The end of the catch branch.
Fail(l, signal) ==
  /\ launch' = [launch EXCEPT ![l] = [@ EXCEPT !.at = "ended", !.signal = NoSignal]]
  /\ active' = NoSession
  /\ budget' = [budget EXCEPT ![launch[l].target] = ChargeLaunch(@, signal)]
  /\ UNCHANGED <<page, dispose, tools, failedKeys, walled, pageVars, run>>

CreationThrows(l, signal) ==
  /\ launch[l].at = "creating"
  /\ Fail(l, signal)
  /\ UNCHANGED browser

\* The evidence route has created the session, and the code throws before
\* registering it: the catch branch closes it all the same.
UnregisteredThrows(l) ==
  /\ launch[l].at = "creating"
  /\ launch' = [launch EXCEPT ![l].at = "failing"]
  /\ Close(l)
  /\ UNCHANGED <<page, dispose, active, tools, budgetVars, pageVars, run>>

\* Mutant: the catch branch forgets the session it had created.
PreparationThrowsOpen(l, signal) ==
  /\ launch[l].at = "preparing"
  /\ Fail(l, signal)
  /\ UNCHANGED browser

\* The catch branch closes what was created.
PreparationThrows(l, signal) ==
  /\ launch[l].at = "preparing"
  /\ IF Live(l)
     THEN /\ Close(l)
          /\ launch' = [launch EXCEPT ![l] = [@ EXCEPT !.at = "failing", !.signal = signal]]
          /\ UNCHANGED <<page, dispose, active, tools, budgetVars, pageVars, run>>
     ELSE Fail(l, signal) /\ UNCHANGED browser

Failed(l) ==
  /\ launch[l].at = "failing"
  /\ CloseReturns(l)
  /\ Fail(l, launch[l].signal)
  /\ UNCHANGED browser

\* withToolDeadline: the call is told to stop and gets a grace to settle.
Expire(l) ==
  /\ Working(l)
  /\ ~launch[l].aborted
  /\ launch' = [launch EXCEPT ![l].aborted = TRUE]
  /\ UNCHANGED <<page, dispose, browser, active, tools, budgetVars, pageVars, run>>

\* The grace is over: the agent gets its answer, the call goes on.
GraceExpires(l) ==
  /\ Working(l)
  /\ launch[l].aborted
  /\ ~launch[l].answered
  /\ Cardinality({k \in Launches : launch[k].answered}) < MaxOverdue
  /\ launch' = [launch EXCEPT ![l].answered = TRUE]
  /\ UNCHANGED <<page, dispose, browser, active, tools, budgetVars, pageVars, run>>

LaunchStep(l) ==
  \/ \E t \in Targets, e \in Environments : Launch(l, t, e)
  \/ CheckRefuses(l)
  \/ CheckPasses(l)
  \/ Disposed(l)
  \/ SessionCreated(l)
  \/ UnregisteredThrows(l)
  \/ Prepared(l)
  \/ Discarded(l)
  \/ \E signal \in Signals \cup {NoSignal} :
       CreationThrows(l, signal) \/ PreparationThrows(l, signal)
  \/ Failed(l)
  \/ Expire(l)
  \/ GraceExpires(l)
------------------------------------------------------------------------------
(* open_page and what vision makes of its page *)

\* The tool acts on the session it was registered with; its bookkeeping uses
\* the one that is active when the call begins.
OpenPage(p) ==
  /\ MayCall
  /\ ~page[p].busy
  /\ tools # NoSession
  /\ active # NoSession => ~Exhausted(budget[TargetOf(active)])
  /\ page' = [page EXCEPT ![p] = [busy |-> TRUE, on |-> tools, state |-> active]]
  /\ UNCHANGED <<launch, dispose, browser, active, tools, budgetVars, pageVars, run>>

Returned(p) == page' = [page EXCEPT ![p] = [busy |-> FALSE, on |-> NoSession,
                                            state |-> NoSession]]

\* A page of t has loaded. Targets stand for registrable domains: another one
\* than the session's is a redirect, and the agent may launch there next.
PageLoads(p, t) ==
  /\ page[p].busy
  /\ browser[page[p].on] = "live"
  /\ Returned(p)
  /\ loaded' = loaded \cup {page[p].on}
  /\ IF active # NoSession /\ t = TargetOf(active)
     THEN visited' = visited \cup {active} /\ UNCHANGED allowed
     ELSE /\ allowed' = IF active = NoSession THEN allowed ELSE allowed \cup {t}
          /\ UNCHANGED visited
  /\ UNCHANGED <<launch, dispose, browser, active, tools, budgetVars, retired, run>>

\* The site or the network failed the navigation: the session is retired.
PageFails(p) ==
  /\ page[p].busy
  /\ Returned(p)
  /\ LET s == page[p].state
     IN  IF s = NoSession
         THEN UNCHANGED <<retired, failedKeys, tools, budget>>
         ELSE /\ retired' = retired \cup {s}
              /\ failedKeys' = failedKeys \cup {KeyOf(s)}
              /\ tools' = NoSession
              /\ budget' = [budget EXCEPT ![TargetOf(s)] = ChargePage(@)]
  /\ UNCHANGED <<launch, dispose, browser, active, walled, visited, loaded,
                 allowed, run>>

\* A refused URL, any other error, or the deadline of the tool.
PageRefused(p) ==
  /\ page[p].busy
  /\ Returned(p)
  /\ UNCHANGED <<launch, dispose, browser, active, tools, budgetVars, pageVars, run>>

PageStep(p) ==
  \/ OpenPage(p)
  \/ \E t \in Targets : PageLoads(p, t)
  \/ PageFails(p)
  \/ PageRefused(p)

\* analyze_screenshot finds that a capture of s shows a wall, not the page.
CountWithheldPage(s) ==
  /\ MayCall
  /\ s \in loaded \ walled
  /\ walled' = walled \cup {s}
  /\ budget' = [budget EXCEPT ![TargetOf(s)] = ChargeWall(@)]
  /\ UNCHANGED <<launch, page, dispose, browser, active, tools, failedKeys,
                 pageVars, run>>

\* An analysis-only report can pass the validator's check of browser evidence.
MayFinishAnalysisOnly ==
  visited # {} \/ \E t \in Targets : ReportAllowed(budget[t])
------------------------------------------------------------------------------
\* The run is over and no call it left behind can still move.
AllDone == run = "done" /\ (\A l \in Launches : ~Working(l)) /\ UNCHANGED vars

Next ==
  \/ \E l \in Launches : LaunchStep(l) \/ BrowserCloses(l) \/ CountWithheldPage(l)
  \/ \E p \in Pages : PageStep(p)
  \/ CloseBrowser
  \/ EndRun
  \/ EndDispose
  \/ AllDone

Spec == Init /\ [][Next]_vars
------------------------------------------------------------------------------
\* No launch outlived its deadline and the grace.
AllSettled == \A l \in Launches : ~launch[l].answered

\* A finished run leaves no browser of the agent behind when every launch has
\* settled in time: dispose only closes the session it still knows.
NoBrowserOutlivesRun ==
  run = "done" /\ AllSettled
    => \A l \in Launches : browser[l] \in {"none", "closed"}

\* The browser tools on offer act on the active session, as long as no launch
\* that was answered unfinished can still drop that session.
ToolsAreActive == AllSettled => tools \in {NoSession, active}

\* A target, once exhausted, stays so: whatever fails later, an old session's
\* wall included, does not give the agent another launch.
ExhaustionIsFinal ==
  [][\A t \in Targets : Exhausted(budget[t]) => Exhausted(budget'[t])]_vars

\* A launch that was answered with its deadline neither offers its tools nor
\* stays the active session (launchBrowser: "its late settle must neither
\* publish a read-back nor merge tools").
LateLaunchIsSilent ==
  [][\A l \in Launches :
       launch[l].aborted /\ launch[l].at # "ended" /\ launch'[l].at = "ended"
         => tools' # l /\ active' # l]_vars

\* When a target is exhausted the agent is told to finish with an
\* analysis-only report; the validator must let such a report pass.
AdviceIsAccepted ==
  (\E t \in Targets : Exhausted(budget[t])) => MayFinishAnalysisOnly
=============================================================================
