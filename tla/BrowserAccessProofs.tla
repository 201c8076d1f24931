------------------------- MODULE BrowserAccessProofs -------------------------
(***************************************************************************)
(* Proofs about BrowserAccess, for every set of launches, pages, targets,  *)
(* environments and signals, any number of calls in parallel and calls     *)
(* that outlive their deadline; only NoBrowserIsLeft needs one call at a   *)
(* time.                                                                   *)
(***************************************************************************)
EXTENDS BrowserAccess, FiniteSetTheorems, TLAPS

\* What the fields of a budget say about each other: a remembered signal is a
\* counted failure, and the rest is forfeited at the second one at the earliest.
Coherent(b) ==
  /\ b.signal # NoSignal => b.attempts >= 1
  /\ b.failFast => b.attempts >= 2

BudgetsCoherent == \A t \in Targets : Coherent(budget[t])

\* A launch that has not ended offers no tools; one that has created no
\* session is not the active one.
Named ==
  \A l \in Launches :
    /\ tools = l => launch[l].at = "ended"
    /\ active = l => launch[l].at \in {"preparing", "discarding", "failing", "ended"}

\* A call of open_page in flight acts on a session that was created.
PagesHaveSession == \A p \in Pages : page[p].busy => page[p].on # NoSession

IInv == TypeOK /\ BudgetsCoherent /\ Named /\ PagesHaveSession
------------------------------------------------------------------------------
\* Every way to charge a budget keeps it a coherent budget and leaves an
\* exhausted one exhausted. The forfeit alone could be forgotten by a later
\* charge; two failures counted before it are what makes that charge the third.
LEMMA ChargesKeepExhaustion ==
  ASSUME NEW b \in Budget, Coherent(b), NEW signal \in Signals \cup {NoSignal}
  PROVE  \A c \in {ChargeLaunch(b, signal), ChargePage(b), ChargeWall(b)} :
           c \in Budget /\ Coherent(c) /\ (Exhausted(b) => Exhausted(c))
<1>1. OneMore(b) \in 0..MaxAttempts /\ OneMore(b) >= 1
      /\ (b.attempts >= 1 => OneMore(b) >= 2)
      /\ (b.attempts >= 2 => OneMore(b) >= MaxAttempts)
  BY DEF OneMore, MaxAttempts, Budget
<1>2. OneMore(b) >= 3 <=> OneMore(b) >= MaxAttempts
  BY DEF MaxAttempts
<1>3. Exhausted(b) => b.attempts >= 2
  BY DEF Exhausted, Coherent, MaxAttempts, Budget
<1>4. ChargeLaunch(b, signal) \in Budget /\ Coherent(ChargeLaunch(b, signal))
  BY <1>1 DEF ChargeLaunch, Budget, Coherent
<1>5. ChargePage(b) \in Budget /\ Coherent(ChargePage(b))
  BY <1>1 DEF ChargePage, Budget, Coherent
<1>6. ChargeWall(b) \in Budget /\ Coherent(ChargeWall(b))
  BY <1>1 DEF ChargeWall, Budget, Coherent
<1>7. b.attempts >= 2 => /\ Exhausted(ChargeLaunch(b, signal))
                         /\ Exhausted(ChargePage(b))
                         /\ Exhausted(ChargeWall(b))
  BY <1>1 DEF ChargeLaunch, ChargePage, ChargeWall, Exhausted
<1> QED
  BY <1>3, <1>4, <1>5, <1>6, <1>7

\* A step changes at most the budget of one target, and charges it.
BudgetStep ==
  \/ UNCHANGED budget
  \/ \E t \in Targets \cup {NoTarget}, signal \in Signals \cup {NoSignal} :
       \/ budget' = [budget EXCEPT ![t] = ChargeLaunch(@, signal)]
       \/ budget' = [budget EXCEPT ![t] = ChargePage(@)]
       \/ budget' = [budget EXCEPT ![t] = ChargeWall(@)]

\* Such a step keeps every budget coherent and an exhausted target exhausted.
LEMMA BudgetStepKeeps ==
  ASSUME budget \in [Targets -> Budget], BudgetsCoherent, BudgetStep
  PROVE  /\ budget' \in [Targets -> Budget]
         /\ BudgetsCoherent'
         /\ \A t \in Targets : Exhausted(budget[t]) => Exhausted(budget'[t])
<1>1. CASE UNCHANGED budget
  BY <1>1 DEF BudgetsCoherent
<1>2. ASSUME NEW t \in Targets \cup {NoTarget}, NEW signal \in Signals \cup {NoSignal},
             \/ budget' = [budget EXCEPT ![t] = ChargeLaunch(@, signal)]
             \/ budget' = [budget EXCEPT ![t] = ChargePage(@)]
             \/ budget' = [budget EXCEPT ![t] = ChargeWall(@)]
      PROVE  /\ budget' \in [Targets -> Budget]
             /\ BudgetsCoherent'
             /\ \A x \in Targets : Exhausted(budget[x]) => Exhausted(budget'[x])
  <2>1. \A x \in Targets :
          \A c \in {ChargeLaunch(budget[x], signal), ChargePage(budget[x]),
                    ChargeWall(budget[x])} :
            c \in Budget /\ Coherent(c) /\ (Exhausted(budget[x]) => Exhausted(c))
    BY ChargesKeepExhaustion DEF BudgetsCoherent
  <2>2. /\ DOMAIN budget' = Targets
        /\ budget' = [x \in Targets |-> budget'[x]]
        /\ \A x \in Targets :
             budget'[x] \in {budget[x], ChargeLaunch(budget[x], signal),
                             ChargePage(budget[x]), ChargeWall(budget[x])}
    BY <1>2
  <2>3. \A x \in Targets : /\ budget'[x] \in Budget
                           /\ Coherent(budget'[x])
                           /\ Exhausted(budget[x]) => Exhausted(budget'[x])
    BY <2>1, <2>2 DEF BudgetsCoherent
  <2> QED
    BY <2>2, <2>3 DEF BudgetsCoherent
<1> QED
  BY <1>1, <1>2 DEF BudgetStep

\* Every step of the specification is such a step.
LEMMA StepsCharge ==
  ASSUME TypeOK, [Next]_vars
  PROVE  BudgetStep
<1>1. \A l \in Launches : /\ TargetOf(l) \in Targets \cup {NoTarget}
                          /\ launch[l].signal \in Signals \cup {NoSignal}
  BY DEF TypeOK, LaunchCall, TargetOf
<1>2. ASSUME NEW l \in Launches, NEW signal \in Signals \cup {NoSignal},
             Fail(l, signal)
      PROVE  BudgetStep
  BY <1>1, <1>2 DEF Fail, BudgetStep, TargetOf
<1>3. ASSUME NEW l \in Launches, LaunchStep(l)
      PROVE  BudgetStep
  <2>1. CASE \E t \in Targets, e \in Environments : Launch(l, t, e)
    BY <2>1 DEF Launch, BudgetStep, budgetVars
  <2>2. CASE CheckRefuses(l) \/ CheckPasses(l) \/ Disposed(l)
    BY <2>2 DEF CheckRefuses, CheckPasses, Disposed, BudgetStep, budgetVars
  <2>3. CASE SessionCreated(l) \/ UnregisteredThrows(l) \/ Prepared(l) \/ Discarded(l)
    BY <2>3 DEF SessionCreated, UnregisteredThrows, Prepared, Discarded, BudgetStep, budgetVars
  <2>4. CASE \E signal \in Signals \cup {NoSignal} : CreationThrows(l, signal)
    BY <2>4, <1>2 DEF CreationThrows
  <2>5. CASE \E signal \in Signals \cup {NoSignal} : PreparationThrows(l, signal)
    <3>1. CASE Live(l)
      BY <2>5, <3>1 DEF PreparationThrows, BudgetStep, budgetVars
    <3>2. CASE ~Live(l)
      BY <2>5, <3>2, <1>2 DEF PreparationThrows
    <3> QED
      BY <3>1, <3>2
  <2>6. CASE Failed(l)
    BY <2>6, <1>1, <1>2 DEF Failed
  <2>7. CASE Expire(l) \/ GraceExpires(l)
    BY <2>7 DEF Expire, GraceExpires, BudgetStep, budgetVars
  <2> QED
    BY <1>3, <2>1, <2>2, <2>3, <2>4, <2>5, <2>6, <2>7 DEF LaunchStep
<1>4. ASSUME NEW p \in Pages, PageFails(p)
      PROVE  BudgetStep
  <2> DEFINE s == page[p].state
  <2>1. CASE s = NoSession
    BY <1>4, <2>1 DEF PageFails, BudgetStep
  <2>2. CASE s # NoSession
    <3>1. s \in Launches
      BY <2>2 DEF TypeOK, Sessions
    <3>2. budget' = [budget EXCEPT ![TargetOf(s)] = ChargePage(@)]
      BY <1>4, <2>2 DEF PageFails
    <3> QED
      BY <1>1, <3>1, <3>2 DEF BudgetStep
  <2> QED
    BY <2>1, <2>2
<1>5. ASSUME NEW p \in Pages,
             OpenPage(p) \/ PageRefused(p) \/ \E t \in Targets : PageLoads(p, t)
      PROVE  BudgetStep
  BY <1>5 DEF OpenPage, PageRefused, PageLoads, BudgetStep, budgetVars
<1>6. ASSUME NEW l \in Launches, CountWithheldPage(l)
      PROVE  BudgetStep
  BY <1>1, <1>6 DEF CountWithheldPage, BudgetStep
<1>7. ASSUME NEW l \in Launches, BrowserCloses(l)
      PROVE  BudgetStep
  BY <1>7 DEF BrowserCloses, BudgetStep, budgetVars
<1>8. CASE CloseBrowser \/ EndRun \/ EndDispose
  BY <1>8 DEF CloseBrowser, EndRun, EndDispose, BeginDispose, BudgetStep, budgetVars
<1>9. CASE AllDone \/ UNCHANGED vars
  BY <1>9 DEF AllDone, BudgetStep, vars, budgetVars
<1> QED
  BY <1>3, <1>4, <1>5, <1>6, <1>7, <1>8, <1>9 DEF Next, PageStep
------------------------------------------------------------------------------
(* Types and names *)

\* The invariant holds at first.
LEMMA InitInv == Init => IInv
<1> SUFFICES ASSUME Init PROVE IInv
  OBVIOUS
<1>1. TypeOK
  BY AccessAssumption
  DEF Init, TypeOK, LaunchCall, LaunchState, Sessions, Budget, NewBudget, MaxAttempts
<1>2. BudgetsCoherent
  BY DEF Init, BudgetsCoherent, Coherent, NewBudget
<1>3. Named /\ PagesHaveSession
  BY AccessAssumption DEF Init, Named, PagesHaveSession
<1> QED
  BY <1>1, <1>2, <1>3 DEF IInv

\* The variables that no launch changes but for its own record, the browsers,
\* and the two references to a session.
LaunchTypes ==
  /\ launch \in [Launches -> LaunchCall]
  /\ browser \in [Launches -> {"none", "live", "closing", "closed"}]
  /\ active \in Sessions
  /\ tools \in Sessions

\* The steps of a launch_browser call.
LEMMA LaunchStepFrame ==
  ASSUME NEW l \in Launches, LaunchStep(l)
  PROVE  UNCHANGED <<page, dispose, failedKeys, walled, pageVars, run>>
  BY DEF LaunchStep, Launch, CheckRefuses, CheckPasses, Disposed, SessionCreated,
         UnregisteredThrows, Prepared, Discarded, CreationThrows, PreparationThrows,
         Failed, Fail, Expire, GraceExpires, budgetVars

\* The steps of a launch keep the types.
LEMMA LaunchStepTypes ==
  ASSUME LaunchTypes, NEW l \in Launches, LaunchStep(l)
  PROVE  LaunchTypes'
<1>0. /\ launch[l] \in LaunchCall
      /\ l \in Sessions /\ NoSession \in Sessions
  BY DEF LaunchTypes, Sessions
<1>1. ASSUME NEW t \in Targets, NEW e \in Environments, Launch(l, t, e)
      PROVE  LaunchTypes'
  <2>1. [launch[l] EXCEPT !.at = "checking", !.target = t, !.env = e] \in LaunchCall
    BY <1>0 DEF LaunchCall, LaunchState
  <2> QED
    BY <1>1, <2>1 DEF Launch, LaunchTypes
<1>2. CASE CheckRefuses(l)
  BY <1>0, <1>2 DEF CheckRefuses, LaunchTypes, LaunchCall, LaunchState
<1>3. CASE CheckPasses(l)
  <2>1. /\ [launch[l] EXCEPT !.at = "disposing", !.waits = active] \in LaunchCall
        /\ [launch[l] EXCEPT !.at = "creating"] \in LaunchCall
    BY <1>0 DEF LaunchTypes, LaunchCall, LaunchState
  <2>2. launch' \in [Launches -> LaunchCall]
    BY <1>3, <2>1 DEF CheckPasses, LaunchTypes
  <2> QED
    BY <1>0, <1>3, <2>2 DEF CheckPasses, LaunchTypes, Release, Close
<1>4. CASE Disposed(l)
  <2>1. [launch[l] EXCEPT !.at = "creating", !.waits = NoSession] \in LaunchCall
    BY <1>0 DEF LaunchCall, LaunchState
  <2> QED
    BY <1>0, <1>4, <2>1 DEF Disposed, LaunchTypes, Release
<1>5. CASE SessionCreated(l)
  BY <1>0, <1>5 DEF SessionCreated, LaunchTypes, LaunchCall, LaunchState
<1>6. CASE Prepared(l)
  <2>1. /\ [launch[l] EXCEPT !.at = "discarding"] \in LaunchCall
        /\ [launch[l] EXCEPT !.at = "ended"] \in LaunchCall
    BY <1>0 DEF LaunchCall, LaunchState
  <2> QED
    BY <1>0, <1>6, <2>1 DEF Prepared, Discard, Close, LaunchTypes
<1>7. CASE Discarded(l)
  BY <1>0, <1>7 DEF Discarded, Discard, LaunchTypes, LaunchCall, LaunchState
<1>8. ASSUME NEW signal \in Signals \cup {NoSignal}, Fail(l, signal)
      PROVE  launch' \in [Launches -> LaunchCall] /\ active' \in Sessions
                /\ tools' = tools
  <2>1. [launch[l] EXCEPT !.at = "ended", !.signal = NoSignal] \in LaunchCall
    BY <1>0 DEF LaunchCall, LaunchState
  <2> QED
    BY <1>0, <1>8, <2>1 DEF Fail, LaunchTypes
<1>9. ASSUME NEW signal \in Signals \cup {NoSignal}, CreationThrows(l, signal)
      PROVE  LaunchTypes'
  BY <1>8, <1>9 DEF CreationThrows, LaunchTypes
<1>10. ASSUME NEW signal \in Signals \cup {NoSignal}, PreparationThrows(l, signal)
       PROVE  LaunchTypes'
  <2>1. CASE Live(l)
    <3>1. [launch[l] EXCEPT !.at = "failing", !.signal = signal] \in LaunchCall
      BY <1>0 DEF LaunchCall, LaunchState
    <3> QED
      BY <1>10, <2>1, <3>1 DEF PreparationThrows, Close, LaunchTypes
  <2>2. CASE ~Live(l)
    BY <1>8, <1>10, <2>2 DEF PreparationThrows, LaunchTypes
  <2> QED
    BY <2>1, <2>2
<1>11. CASE Failed(l)
  <2>1. launch[l].signal \in Signals \cup {NoSignal}
    BY <1>0 DEF LaunchCall
  <2> QED
    BY <1>8, <1>11, <2>1 DEF Failed, LaunchTypes
<1>12. CASE Expire(l)
  <2>1. [launch[l] EXCEPT !.aborted = TRUE] \in LaunchCall
    BY <1>0 DEF LaunchCall
  <2> QED
    BY <1>12, <2>1 DEF Expire, LaunchTypes
<1>13. CASE GraceExpires(l)
  <2>1. [launch[l] EXCEPT !.answered = TRUE] \in LaunchCall
    BY <1>0 DEF LaunchCall
  <2> QED
    BY <1>13, <2>1 DEF GraceExpires, LaunchTypes
<1>14. CASE UnregisteredThrows(l)
  BY <1>0, <1>14 DEF UnregisteredThrows, Close, LaunchTypes, LaunchCall, LaunchState
<1> QED
  BY <1>1, <1>2, <1>3, <1>4, <1>5, <1>6, <1>7, <1>9, <1>10, <1>11, <1>12, <1>13, <1>14
  DEF LaunchStep

\* A step of a launch moves it on only as far as it has a session.
LEMMA LaunchStepNames ==
  ASSUME LaunchTypes, Named, NEW l \in Launches, LaunchStep(l)
  PROVE  Named'
<1> USE AccessAssumption
<1>0. /\ launch \in [Launches -> LaunchCall]
      /\ launch[l].at = "checking" => active # l /\ tools # l
  BY DEF LaunchTypes, Named
<1>1. ASSUME NEW t \in Targets, NEW e \in Environments, Launch(l, t, e)
      PROVE  Named'
  BY <1>0, <1>1 DEF Launch, Named, LaunchCall
<1>2. CASE CheckRefuses(l)
  BY <1>0, <1>2 DEF CheckRefuses, Named, LaunchCall
<1>3. CASE CheckPasses(l)
  <2>1. CASE Live(active)
    BY <1>0, <1>3, <2>1 DEF CheckPasses, Named, LaunchCall
  <2>2. CASE ~Live(active)
    BY <1>0, <1>3, <2>2 DEF CheckPasses, Named, Release, LaunchCall
  <2> QED
    BY <2>1, <2>2
<1>4. CASE Disposed(l)
  BY <1>0, <1>4 DEF Disposed, Named, Release, LaunchCall
<1>5. CASE SessionCreated(l)
  BY <1>0, <1>5 DEF SessionCreated, Named, LaunchCall
<1>6. CASE Prepared(l)
  BY <1>0, <1>6 DEF Prepared, Named, Discard, LaunchCall
<1>7. CASE Discarded(l)
  BY <1>0, <1>7 DEF Discarded, Named, Discard, LaunchCall
<1>8. ASSUME NEW signal \in Signals \cup {NoSignal}, Fail(l, signal)
      PROVE  Named'
  BY <1>0, <1>8 DEF Fail, Named, LaunchCall
<1>9. ASSUME NEW signal \in Signals \cup {NoSignal}, PreparationThrows(l, signal)
      PROVE  Named'
  <2>1. CASE Live(l)
    <3>1. /\ launch[l].at = "preparing" /\ launch'[l].at = "failing"
          /\ \A x \in Launches \ {l} : launch'[x] = launch[x]
          /\ UNCHANGED <<active, tools>>
      BY <1>0, <1>9, <2>1 DEF PreparationThrows, LaunchCall
    <3> QED
      BY <3>1 DEF Named
  <2>2. CASE ~Live(l)
    BY <1>8, <1>9, <2>2 DEF PreparationThrows
  <2> QED
    BY <2>1, <2>2
<1>10. CASE \/ \E signal \in Signals \cup {NoSignal} : CreationThrows(l, signal)
            \/ Failed(l)
  <2>1. launch[l].signal \in Signals \cup {NoSignal}
    BY <1>0 DEF LaunchCall
  <2> QED
    BY <1>8, <1>10, <2>1 DEF CreationThrows, Failed
<1>11. CASE Expire(l)
  BY <1>0, <1>11 DEF Expire, Named, LaunchCall
<1>12. CASE GraceExpires(l)
  BY <1>0, <1>12 DEF GraceExpires, Named, LaunchCall
<1>13. CASE UnregisteredThrows(l)
  BY <1>0, <1>13 DEF UnregisteredThrows, Named, LaunchCall
<1> QED
  BY <1>1, <1>2, <1>3, <1>4, <1>5, <1>6, <1>7, <1>9, <1>10, <1>11, <1>12, <1>13
  DEF LaunchStep

\* The steps of an open_page call.
LEMMA PageStepKeeps ==
  ASSUME IInv, NEW p \in Pages, PageStep(p)
  PROVE  /\ page' \in [Pages -> [busy : BOOLEAN, on : Sessions, state : Sessions]]
         /\ PagesHaveSession'
         /\ failedKeys' \subseteq (Targets \cup {NoTarget}) \X (Environments \cup {NoTarget})
         /\ retired' \cup visited' \cup loaded' \subseteq Launches
         /\ allowed' \subseteq Targets
         /\ tools' \in {tools, NoSession}
         /\ UNCHANGED <<launch, dispose, browser, active, walled, run>>
<1>0. TypeOK /\ PagesHaveSession /\ NoSession \in Sessions
  BY DEF IInv, Sessions
<1>1. \A s \in Sessions : s # NoSession => s \in Launches
  BY DEF Sessions
<1>2. CASE OpenPage(p)
  <2>1. page' \in [Pages -> [busy : BOOLEAN, on : Sessions, state : Sessions]]
        /\ PagesHaveSession'
    BY <1>0, <1>2 DEF OpenPage, TypeOK, PagesHaveSession
  <2> QED
    BY <1>0, <1>2, <2>1 DEF OpenPage, TypeOK, budgetVars, pageVars
<1>3. CASE PageRefused(p)
  <2>1. page' \in [Pages -> [busy : BOOLEAN, on : Sessions, state : Sessions]]
        /\ PagesHaveSession'
    BY <1>0, <1>3 DEF PageRefused, Returned, TypeOK, PagesHaveSession
  <2> QED
    BY <1>0, <1>3, <2>1 DEF PageRefused, TypeOK, budgetVars, pageVars
<1>4. ASSUME NEW t \in Targets, PageLoads(p, t)
      PROVE  /\ page' \in [Pages -> [busy : BOOLEAN, on : Sessions, state : Sessions]]
             /\ PagesHaveSession'
             /\ retired' \cup visited' \cup loaded' \subseteq Launches
             /\ allowed' \subseteq Targets
             /\ UNCHANGED <<failedKeys, tools, launch, dispose, browser, active,
                           walled, run>>
  <2>1. page[p].on \in Launches
    BY <1>0, <1>1, <1>4 DEF PageLoads, PagesHaveSession, TypeOK
  <2>2. page' \in [Pages -> [busy : BOOLEAN, on : Sessions, state : Sessions]]
        /\ PagesHaveSession'
    BY <1>0, <1>4 DEF PageLoads, Returned, PagesHaveSession, TypeOK
  <2>3. retired' \cup visited' \cup loaded' \subseteq Launches
    BY <1>0, <1>1, <1>4, <2>1 DEF PageLoads, TypeOK
  <2>4. allowed' \subseteq Targets
    BY <1>0, <1>4 DEF PageLoads, TypeOK
  <2> QED
    BY <1>4, <2>2, <2>3, <2>4 DEF PageLoads, budgetVars
<1>5. CASE PageFails(p)
  <2>1. page' \in [Pages -> [busy : BOOLEAN, on : Sessions, state : Sessions]]
        /\ PagesHaveSession'
    BY <1>0, <1>5 DEF PageFails, Returned, PagesHaveSession, TypeOK
  <2>2. page[p].state # NoSession =>
          /\ page[p].state \in Launches
          /\ KeyOf(page[p].state) \in
               (Targets \cup {NoTarget}) \X (Environments \cup {NoTarget})
    BY <1>0, <1>1 DEF TypeOK, LaunchCall, KeyOf
  <2>3. failedKeys' \subseteq (Targets \cup {NoTarget}) \X (Environments \cup {NoTarget})
        /\ retired' \subseteq Launches
        /\ tools' \in {tools, NoSession}
    BY <1>0, <1>5, <2>2 DEF PageFails, TypeOK
  <2> QED
    BY <1>0, <1>5, <2>1, <2>3 DEF PageFails, TypeOK
<1> QED
  BY <1>0, <1>2, <1>3, <1>4, <1>5
  DEF PageStep, TypeOK, OpenPage, PageRefused, budgetVars, pageVars

\* The dispose of close_browser and that of the run's end.
LEMMA DisposeStepKeeps ==
  ASSUME IInv, CloseBrowser \/ EndRun \/ EndDispose
  PROVE  /\ dispose' \in [busy : BOOLEAN, waits : Sessions]
         /\ LaunchTypes' /\ Named'
         /\ run' \in {"open", "disposing", "done"}
         /\ UNCHANGED <<launch, page, failedKeys, walled, pageVars>>
<1> USE AccessAssumption DEF Sessions
<1>0. TypeOK /\ Named
  BY DEF IInv
<1>1. ASSUME BeginDispose
      PROVE  /\ dispose' \in [busy : BOOLEAN, waits : Sessions]
             /\ LaunchTypes' /\ Named'
             /\ UNCHANGED <<launch, page, failedKeys, walled, pageVars>>
  <2>1. UNCHANGED <<launch, page, failedKeys, walled, pageVars>>
    BY <1>1 DEF BeginDispose, budgetVars
  <2>2. CASE Live(active)
    <3>1. /\ dispose' = [busy |-> TRUE, waits |-> active]
          /\ browser' = [browser EXCEPT ![active] = "closing"]
          /\ UNCHANGED <<active, tools>>
      BY <1>1, <2>2 DEF BeginDispose, Close
    <3> QED
      BY <1>0, <2>1, <3>1 DEF TypeOK, LaunchTypes, Named
  <2>3. CASE ~Live(active)
    BY <1>0, <1>1, <2>1, <2>3
    DEF BeginDispose, TypeOK, LaunchTypes, Named, Release
  <2> QED
    BY <2>1, <2>2, <2>3
<1>2. CASE CloseBrowser
  BY <1>0, <1>1, <1>2 DEF CloseBrowser, TypeOK
<1>3. CASE EndRun
  BY <1>0, <1>1, <1>3 DEF EndRun, TypeOK
<1>4. CASE EndDispose
  BY <1>0, <1>4 DEF EndDispose, TypeOK, LaunchTypes, Named, Release, budgetVars
<1> QED
  BY <1>2, <1>3, <1>4

\* Every step keeps the invariant.
LEMMA InvStep == IInv /\ [Next]_vars => IInv'
<1> SUFFICES ASSUME IInv, [Next]_vars PROVE IInv'
  OBVIOUS
<1>0. /\ TypeOK /\ BudgetsCoherent /\ Named /\ PagesHaveSession
      /\ LaunchTypes
  BY DEF IInv, TypeOK, LaunchTypes
<1>1. budget' \in [Targets -> Budget] /\ BudgetsCoherent'
  BY <1>0, StepsCharge, BudgetStepKeeps DEF TypeOK
<1> SUFFICES TypeOK' /\ Named' /\ PagesHaveSession'
  BY <1>1 DEF IInv
<1>2. ASSUME NEW l \in Launches, LaunchStep(l)
      PROVE  TypeOK' /\ Named' /\ PagesHaveSession'
  BY <1>0, <1>1, <1>2, LaunchStepFrame, LaunchStepTypes,
     LaunchStepNames
  DEF TypeOK, LaunchTypes, PagesHaveSession, pageVars
<1>3. ASSUME NEW p \in Pages, PageStep(p)
      PROVE  TypeOK' /\ Named' /\ PagesHaveSession'
  <2>1. tools' \in Sessions
    BY <1>0, <1>3, PageStepKeeps DEF TypeOK, Sessions
  <2>2. TypeOK'
    BY <1>0, <1>1, <1>3, <2>1, PageStepKeeps DEF TypeOK
  <2>3. Named'
    BY <1>0, <1>3, PageStepKeeps, AccessAssumption DEF Named
  <2> QED
    BY <1>3, <2>2, <2>3, PageStepKeeps
<1>4. ASSUME NEW l \in Launches, BrowserCloses(l)
      PROVE  TypeOK' /\ Named' /\ PagesHaveSession'
  BY <1>0, <1>1, <1>4
  DEF BrowserCloses, TypeOK, Named, PagesHaveSession, budgetVars, pageVars
<1>5. ASSUME NEW l \in Launches, CountWithheldPage(l)
      PROVE  TypeOK' /\ Named' /\ PagesHaveSession'
  BY <1>0, <1>1, <1>5
  DEF CountWithheldPage, TypeOK, Named, PagesHaveSession, pageVars
<1>6. CASE CloseBrowser \/ EndRun \/ EndDispose
  BY <1>0, <1>1, <1>6, DisposeStepKeeps
  DEF TypeOK, LaunchTypes, PagesHaveSession, pageVars
<1>7. CASE AllDone \/ UNCHANGED vars
  BY <1>0, <1>7
  DEF AllDone, vars, TypeOK, Named, PagesHaveSession, budgetVars, pageVars
<1> QED
  BY <1>2, <1>3, <1>4, <1>5, <1>6, <1>7 DEF Next

\* So it always holds.
LEMMA Inductive == Spec => []IInv
  BY InitInv, InvStep, PTL DEF Spec
------------------------------------------------------------------------------
\* Launches, sessions, budgets and what the run remembers of its navigations
\* keep their types (the state of AgentRuntime).
THEOREM TypeCorrect == Spec => []TypeOK
<1>1. IInv => TypeOK
  BY DEF IInv
<1> QED
  BY <1>1, Inductive, PTL

\* recordTechnicalBrowserFailure and countWithheldPage: a target once exhausted
\* stays exhausted, although every charge but a launch resets the forfeit.
THEOREM ExhaustedForGood == Spec => ExhaustionIsFinal
<1>1. IInv /\ [Next]_vars =>
        [\A t \in Targets : Exhausted(budget[t]) => Exhausted(budget'[t])]_vars
  BY StepsCharge, BudgetStepKeeps DEF IInv, TypeOK
<1> QED
  BY <1>1, Inductive, PTL DEF Spec, ExhaustionIsFinal

\* launchBrowser: a call that ends after its deadline has passed neither offers
\* tools nor stays the active session, in every order of the other calls.
THEOREM LateLaunchesAreSilent == Spec => LateLaunchIsSilent
<1> DEFINE Silent ==
      \A l \in Launches :
        launch[l].aborted /\ launch[l].at # "ended" /\ launch'[l].at = "ended"
          => tools' # l /\ active' # l
<1>1. IInv /\ [Next]_vars => [Silent]_vars
  <2> SUFFICES ASSUME IInv, Next, NEW x \in Launches,
                      launch[x].aborted, launch[x].at # "ended",
                      launch'[x].at = "ended"
               PROVE  tools' # x /\ active' # x
    OBVIOUS
  <2> USE AccessAssumption
  <2>0. launch \in [Launches -> LaunchCall] /\ Named
    BY DEF IInv, TypeOK
  <2>1. ASSUME NEW l \in Launches, LaunchStep(l)
        PROVE  tools' # x /\ active' # x
    <3>1. CASE CheckRefuses(l) \/ Prepared(l) \/ Discarded(l) \/ Failed(l)
      BY <2>0, <3>1
      DEF CheckRefuses, Prepared, Discarded, Failed, Fail, Discard, Superseded,
          Named, LaunchCall
    <3>2. ASSUME NEW signal \in Signals \cup {NoSignal},
                 Fail(l, signal)
          PROVE  tools' # x /\ active' # x
      BY <2>0, <3>2 DEF Fail, Named, LaunchCall
    <3>3. ASSUME NEW signal \in Signals \cup {NoSignal},
                 CreationThrows(l, signal) \/ PreparationThrows(l, signal)
          PROVE  tools' # x /\ active' # x
      <4>1. CASE Fail(l, signal)
        BY <3>2, <4>1
      <4>2. CASE Live(l) /\ PreparationThrows(l, signal)
        BY <2>0, <4>2, ZenonT(60) DEF PreparationThrows, LaunchCall
      <4> QED
        BY <3>3, <4>1, <4>2 DEF CreationThrows, PreparationThrows
    <3>4. CASE \E t \in Targets, e \in Environments : Launch(l, t, e)
      BY <2>0, <3>4 DEF Launch, LaunchCall
    <3>5. CASE CheckPasses(l)
      BY <2>0, <3>5 DEF CheckPasses, LaunchCall
    <3>6. CASE Disposed(l) \/ SessionCreated(l) \/ UnregisteredThrows(l)
      BY <2>0, <3>6, ZenonT(60) DEF Disposed, SessionCreated, UnregisteredThrows, LaunchCall
    <3>7. CASE Expire(l) \/ GraceExpires(l)
      BY <2>0, <3>7 DEF Expire, GraceExpires, LaunchCall
    <3> QED
      BY <2>1, <3>1, <3>3, <3>4, <3>5, <3>6, <3>7 DEF LaunchStep
  <2>2. UNCHANGED launch => tools' # x /\ active' # x
    OBVIOUS
  <2>3. \A p \in Pages : PageStep(p) => UNCHANGED launch
    BY DEF PageStep, OpenPage, PageFails, PageRefused, PageLoads
  <2>4. (CloseBrowser \/ EndRun \/ EndDispose \/ AllDone) => UNCHANGED launch
    BY DEF CloseBrowser, EndRun, BeginDispose, EndDispose, AllDone, vars
  <2>5. \A l \in Launches :
          BrowserCloses(l) \/ CountWithheldPage(l) => UNCHANGED launch
    BY DEF BrowserCloses, CountWithheldPage
  <2> QED
    BY <2>1, <2>2, <2>3, <2>4, <2>5 DEF Next
<1> QED
  BY <1>1, Inductive, PTL DEF Spec, LateLaunchIsSilent
------------------------------------------------------------------------------
(* One call at a time *)

\* A launch the model has no answer to.
Pending(l) == Working(l) /\ ~launch[l].answered

\* At most one call is unanswered, and none once the run is over but the
\* dispose of its end.
Alone ==
  /\ \A l, m \in Launches : Pending(l) /\ Pending(m) => l = m
  /\ \A p, q \in Pages : page[p].busy /\ page[q].busy => p = q
  /\ \A l \in Launches, p \in Pages : ~(Pending(l) /\ page[p].busy)
  /\ dispose.busy \/ run # "open" =>
       (\A l \in Launches : ~Pending(l)) /\ (\A p \in Pages : ~page[p].busy)
  /\ run = "disposing" => dispose.busy
  /\ run = "done" => ~dispose.busy

NoneLive == \A l \in Launches : browser[l] # "live"

\* The close of a browser that somebody waits for.
Awaited(s) ==
  \/ dispose.busy /\ dispose.waits = s
  \/ \E l \in Launches :
       \/ launch[l].at = "disposing" /\ launch[l].waits = s
       \/ launch[l].at \in {"discarding", "failing"} /\ l = s

\* As long as every launch settles in time, the only live browser is the active
\* session's, a call that closes one has none beside it, and whoever closes a
\* browser waits for it.
Attended ==
  /\ \A l \in Launches :
       /\ browser[l] = "live" => active = l
       /\ browser[l] = "closing" => Awaited(l)
       /\ launch[l].at = "preparing" => active = l
       /\ launch[l].at \in {"disposing", "creating", "discarding", "failing"} => NoneLive
  /\ dispose.busy \/ run # "open" => NoneLive

Kept == Alone /\ (AllSettled => Attended)

\* Sets of at most one member have a number of members.
LEMMA FewMembers ==
  ASSUME NEW S, \A x, y \in S : x = y
  PROVE  IsFiniteSet(S) /\ Cardinality(S) \in Nat /\ (Cardinality(S) = 0 => S = {})
<1>1. CASE S = {}
  BY <1>1, FS_EmptySet
<1>2. ASSUME NEW x \in S PROVE IsFiniteSet(S) /\ Cardinality(S) = 1
  <2>1. S = {x}
    OBVIOUS
  <2> QED
    BY <2>1, FS_Singleton
<1> QED
  BY <1>1, <1>2

\* A tool call is accepted, and the run ends, when none is unanswered.
LEMMA NobodyCalls ==
  ASSUME Alone, Unanswered = 0 \/ (MaxParallel = 1 /\ MayCall)
  PROVE  /\ \A l \in Launches : ~Pending(l)
         /\ \A p \in Pages : ~page[p].busy
         /\ ~dispose.busy
<1> DEFINE L == {l \in Launches : Pending(l)}
           P == {p \in Pages : page[p].busy}
           nl == Cardinality(L)
           np == Cardinality(P)
           nd == IF dispose.busy THEN 1 ELSE 0
<1>1. nl \in Nat /\ (nl = 0 => L = {})
  <2>1. \A x, y \in L : x = y
    BY DEF Alone
  <2> HIDE DEF L
  <2> QED
    BY <2>1, FewMembers
<1>2. np \in Nat /\ (np = 0 => P = {})
  <2>1. \A x, y \in P : x = y
    BY DEF Alone
  <2> HIDE DEF P
  <2> QED
    BY <2>1, FewMembers
<1>3. Unanswered = nl + np + nd
  BY DEF Unanswered, Pending
<1>4. nd \in 0 .. 1 /\ (nd = 0 => ~dispose.busy)
  OBVIOUS
<1>5. Unanswered = 0 \/ Unanswered < 1
  BY DEF MayCall
<1>6. nl = 0 /\ np = 0 /\ nd = 0
  <2> HIDE DEF nl, np, nd
  <2> QED
    BY <1>1, <1>2, <1>3, <1>4, <1>5
<1>7. L = {} /\ P = {} /\ ~dispose.busy
  BY <1>1, <1>2, <1>4, <1>6
<1> QED
  BY <1>7

\* A step of a launch changes no other, and only the expiry of its grace
\* answers it.
LEMMA LaunchMoves ==
  ASSUME TypeOK, NEW l \in Launches, LaunchStep(l)
  PROVE  /\ \A m \in Launches \ {l} : launch'[m] = launch[m]
         /\ Working(l) \/ \E t \in Targets, e \in Environments : Launch(l, t, e)
         /\ GraceExpires(l) \/ launch'[l].answered = launch[l].answered
         /\ GraceExpires(l) => launch'[l].answered = TRUE
         /\ UNCHANGED <<page, dispose, run>>
<1>1. launch \in [Launches -> LaunchCall] /\ launch[l] \in LaunchCall
  BY DEF TypeOK
<1>2. UNCHANGED <<page, dispose, run>>
  BY LaunchStepFrame
<1>3. ASSUME NEW t \in Targets, NEW e \in Environments, Launch(l, t, e)
      PROVE  /\ \A m \in Launches \ {l} : launch'[m] = launch[m]
             /\ launch'[l].answered = launch[l].answered
  BY <1>1, <1>3 DEF Launch, LaunchCall
<1> DEFINE Only == /\ \A m \in Launches \ {l} : launch'[m] = launch[m]
                   /\ launch'[l].answered = launch[l].answered
<1>a. ASSUME NEW at \in LaunchState, launch' = [launch EXCEPT ![l].at = at]
      PROVE  Only
  BY <1>1, <1>a DEF LaunchCall
<1>b. ASSUME NEW at \in LaunchState, NEW w \in Sessions,
             launch' = [launch EXCEPT ![l] = [@ EXCEPT !.at = at, !.waits = w]]
      PROVE  Only
  BY <1>1, <1>b DEF LaunchCall
<1>4. ASSUME \/ CheckRefuses(l) \/ CheckPasses(l) \/ Disposed(l)
             \/ SessionCreated(l) \/ UnregisteredThrows(l)
      PROVE  Only /\ Working(l)
  <2>1. CASE CheckRefuses(l)
    BY <2>1, <1>a DEF CheckRefuses, Working, LaunchState
  <2>2. CASE CheckPasses(l) /\ Live(active)
    <3>1. launch' = [launch EXCEPT ![l] = [@ EXCEPT !.at = "disposing", !.waits = active]]
      BY <2>2 DEF CheckPasses
    <3>2. active \in Sessions /\ "disposing" \in LaunchState
      BY DEF TypeOK, LaunchState
    <3> QED
      BY <2>2, <3>1, <3>2, <1>b DEF CheckPasses, Working
  <2>3. CASE CheckPasses(l) /\ ~Live(active)
    BY <2>3, <1>a DEF CheckPasses, Working, LaunchState
  <2>4. CASE Disposed(l)
    <3>1. launch' = [launch EXCEPT ![l] = [@ EXCEPT !.at = "creating", !.waits = NoSession]]
      BY <2>4 DEF Disposed
    <3>2. NoSession \in Sessions /\ "creating" \in LaunchState
      BY DEF Sessions, LaunchState
    <3> QED
      BY <2>4, <3>1, <3>2, <1>b DEF Disposed, Working
  <2>5. CASE SessionCreated(l)
    BY <2>5, <1>a DEF SessionCreated, Working, LaunchState
  <2>6. CASE UnregisteredThrows(l)
    BY <2>6, <1>a DEF UnregisteredThrows, Working, LaunchState
  <2> QED
    BY <1>4, <2>1, <2>2, <2>3, <2>4, <2>5, <2>6
<1>5. ASSUME Prepared(l) \/ Discarded(l)
      PROVE  Only /\ Working(l)
  <2>1. Working(l)
    BY <1>5 DEF Prepared, Discarded, Working
  <2>2. \E at \in {"ended", "discarding"} : launch' = [launch EXCEPT ![l].at = at]
    BY <1>5 DEF Prepared, Discarded, Discard
  <2> QED
    BY <2>1, <2>2, <1>a DEF LaunchState
<1>9. ASSUME Expire(l)
      PROVE  Only /\ Working(l)
  BY <1>1, <1>9 DEF Expire, LaunchCall
<1>10. ASSUME GraceExpires(l)
       PROVE  /\ \A m \in Launches \ {l} : launch'[m] = launch[m]
              /\ launch'[l].answered = TRUE
              /\ Working(l)
  BY <1>1, <1>10 DEF GraceExpires, LaunchCall
<1>6. ASSUME NEW signal, Fail(l, signal)
      PROVE  /\ \A m \in Launches \ {l} : launch'[m] = launch[m]
             /\ launch'[l].answered = launch[l].answered
  BY <1>1, <1>6 DEF Fail, LaunchCall
<1>7. ASSUME NEW signal, CreationThrows(l, signal) \/ Failed(l)
      PROVE  /\ \A m \in Launches \ {l} : launch'[m] = launch[m]
             /\ launch'[l].answered = launch[l].answered
             /\ Working(l)
  BY <1>6, <1>7 DEF CreationThrows, Failed, Working
<1>8. ASSUME NEW signal, PreparationThrows(l, signal)
      PROVE  /\ \A m \in Launches \ {l} : launch'[m] = launch[m]
             /\ launch'[l].answered = launch[l].answered
             /\ Working(l)
  <2>1. CASE Live(l)
    BY <1>1, <1>8, <2>1, ZenonT(60) DEF PreparationThrows, LaunchCall, Working
  <2>2. CASE ~Live(l)
    BY <1>6, <1>8, <2>2 DEF PreparationThrows, Working
  <2> QED
    BY <2>1, <2>2
<1> QED
  BY <1>2, <1>3, <1>4, <1>5, <1>7, <1>8, <1>9, <1>10 DEF LaunchStep

\* The steps that are not those of a launch.
LEMMA OtherMoves ==
  ASSUME \/ \E l \in Launches : BrowserCloses(l) \/ CountWithheldPage(l)
         \/ \E p \in Pages : PageStep(p)
         \/ CloseBrowser \/ EndRun \/ EndDispose \/ AllDone
  PROVE  UNCHANGED launch
  BY DEF BrowserCloses, CountWithheldPage, PageStep, OpenPage, PageLoads, PageFails, PageRefused,
         CloseBrowser, EndRun, BeginDispose, EndDispose, AllDone, vars

\* Calls stay one at a time.
LEMMA AloneKept == MaxParallel = 1 /\ IInv /\ Alone /\ [Next]_vars => Alone'
<1> SUFFICES ASSUME MaxParallel = 1, IInv, Alone, [Next]_vars PROVE Alone'
  OBVIOUS
<1>0. TypeOK /\ page \in [Pages -> [busy : BOOLEAN, on : Sessions, state : Sessions]]
  BY DEF IInv, TypeOK
<1>1. ASSUME NEW l \in Launches, LaunchStep(l) PROVE Alone'
  <2>1. /\ \A m \in Launches \ {l} : launch'[m] = launch[m]
        /\ UNCHANGED <<page, dispose, run>>
    BY <1>0, <1>1, LaunchMoves
  <2>2. \A m \in Launches \ {l} : Pending(m)' = Pending(m)
    BY <2>1 DEF Pending, Working
  <2>3. CASE \E t \in Targets, e \in Environments : Launch(l, t, e)
    <3>1. MayCall
      BY <2>3 DEF Launch
    <3>2. /\ \A m \in Launches : ~Pending(m)
          /\ \A p \in Pages : ~page[p].busy
          /\ ~dispose.busy /\ run = "open"
      BY <3>1, NobodyCalls DEF MayCall
    <3> QED
      BY <2>1, <2>2, <3>2 DEF Alone
  <2>4. CASE Working(l)
    <3>1. Pending(l)' => Pending(l)
      BY <1>0, <1>1, <2>4, LaunchMoves DEF Pending
    <3> QED
      BY <2>1, <2>2, <3>1 DEF Alone
  <2> QED
    BY <1>0, <1>1, <2>3, <2>4, LaunchMoves
<1>2. ASSUME UNCHANGED launch PROVE \A l \in Launches : Pending(l)' = Pending(l)
  BY <1>2 DEF Pending, Working
<1>3. ASSUME NEW p \in Pages, PageStep(p) PROVE Alone'
  <2>1. UNCHANGED <<launch, dispose, run>>
    BY <1>3 DEF PageStep, OpenPage, PageLoads, PageFails, PageRefused
  <2>2. CASE OpenPage(p)
    <3>1. /\ \A m \in Launches : ~Pending(m)
          /\ \A q \in Pages : ~page[q].busy
          /\ ~dispose.busy /\ run = "open"
      BY <2>2, NobodyCalls DEF OpenPage, MayCall
    <3>2. \A q \in Pages \ {p} : page'[q] = page[q]
      BY <1>0, <2>2 DEF OpenPage
    <3> QED
      BY <1>2, <2>1, <3>1, <3>2 DEF Alone
  <2>3. CASE Returned(p)
    <3>1. \A q \in Pages : page'[q].busy => page[q].busy
      BY <1>0, <2>3 DEF Returned
    <3> QED
      BY <1>2, <2>1, <3>1 DEF Alone
  <2> QED
    BY <1>3, <2>2, <2>3 DEF PageStep, PageLoads, PageFails, PageRefused
<1>4. ASSUME CloseBrowser \/ EndRun PROVE Alone'
  <2>1. /\ \A m \in Launches : ~Pending(m)
        /\ \A q \in Pages : ~page[q].busy
        /\ ~dispose.busy /\ run = "open"
    BY <1>4, NobodyCalls DEF CloseBrowser, EndRun, MayCall
  <2>2. UNCHANGED <<launch, page>> /\ (dispose'.busy <=> Live(active))
    BY <1>4, <2>1 DEF CloseBrowser, EndRun, BeginDispose
  <2>3. run' \in {"open", IF Live(active) THEN "disposing" ELSE "done"}
    BY <1>4, <2>1 DEF CloseBrowser, EndRun
  <2> QED
    BY <1>2, <2>1, <2>2, <2>3 DEF Alone
<1>5. CASE EndDispose
  <2>1. /\ dispose.busy /\ ~dispose'.busy /\ UNCHANGED <<launch, page>>
        /\ run' = IF run = "disposing" THEN "done" ELSE run
    BY <1>5 DEF EndDispose
  <2> QED
    BY <1>2, <2>1 DEF Alone
<1>6. ASSUME UNCHANGED <<launch, page, dispose, run>> PROVE Alone'
  BY <1>2, <1>6 DEF Alone
<1>7. CASE \E l \in Launches : BrowserCloses(l) \/ CountWithheldPage(l)
  BY <1>6, <1>7 DEF BrowserCloses, CountWithheldPage
<1>8. CASE AllDone \/ UNCHANGED vars
  BY <1>6, <1>8 DEF AllDone, vars
<1> QED
  BY <1>1, <1>3, <1>4, <1>5, <1>7, <1>8 DEF Next

\* What Attended comes to while launch l is the one call at work: it speaks of
\* nobody else.
AttendedBy(l) ==
  /\ \A s \in Launches : browser[s] = "live" => active = s
  /\ \A s \in Launches : browser[s] = "closing" =>
       \/ launch[l].at = "disposing" /\ launch[l].waits = s
       \/ launch[l].at \in {"discarding", "failing"} /\ l = s
  /\ launch[l].at = "preparing" => active = l
  /\ launch[l].at \in {"disposing", "creating", "discarding", "failing"} => NoneLive

\* The step of a launch at work, alone, attends to its own affairs.
LEMMA WorkerAttends ==
  ASSUME TypeOK, NEW l \in Launches, Working(l), AttendedBy(l), LaunchStep(l), ~GraceExpires(l)
  PROVE  AttendedBy(l)'
<1> USE AccessAssumption DEF AccessAssumption
<1>1. /\ launch \in [Launches -> LaunchCall] /\ launch[l] \in LaunchCall
      /\ browser \in [Launches -> {"none", "live", "closing", "closed"}]
      /\ active \in Sessions /\ NoSession \notin Launches
  BY DEF TypeOK
<1>2. \A at \in LaunchState :
        launch' = [launch EXCEPT ![l].at = at] => launch'[l].at = at
  BY <1>1 DEF LaunchCall
<1>3. /\ "ended" \in LaunchState /\ "creating" \in LaunchState /\ "preparing" \in LaunchState
      /\ "discarding" \in LaunchState
  BY DEF LaunchState
<1>4. ASSUME NEW s \in Launches, Close(s)
      PROVE  \A m \in Launches : browser'[m] = IF m = s THEN "closing" ELSE browser[m]
  BY <1>1, <1>4 DEF Close
<1>5. ASSUME launch[l].at \notin {"disposing", "discarding", "failing"}
      PROVE  \A s \in Launches : browser[s] # "closing"
  BY <1>5 DEF AttendedBy
<1>6. ASSUME ~Live(active) PROVE NoneLive
  BY <1>1, <1>6 DEF AttendedBy, Live, NoneLive
<1>7. CASE CheckRefuses(l)
  <2>1. launch[l].at = "checking" /\ launch'[l].at = "ended" /\ UNCHANGED <<browser, active>>
    BY <1>2, <1>3, <1>7 DEF CheckRefuses
  <2> QED
    BY <1>5, <2>1 DEF AttendedBy
<1>8. CASE CheckPasses(l) /\ Live(active)
  <2>1. active \in Launches
    BY <1>1, <1>8 DEF Live, Sessions
  <2>2. launch[l].at = "checking" /\ Close(active) /\ UNCHANGED active
    BY <1>8 DEF CheckPasses
  <2>3. launch' = [launch EXCEPT ![l] = [@ EXCEPT !.at = "disposing", !.waits = active]]
    BY <1>8 DEF CheckPasses
  <2>4. launch'[l].at = "disposing" /\ launch'[l].waits = active
    BY <1>1, <2>3 DEF LaunchCall
  <2>5. \A m \in Launches : browser'[m] = IF m = active THEN "closing" ELSE browser[m]
    BY <1>4, <2>1, <2>2
  <2>6. \A m \in Launches : browser'[m] # "live"
    BY <2>5 DEF AttendedBy
  <2>7. \A m \in Launches : browser'[m] = "closing" => m = active
    BY <1>5, <2>2, <2>5
  <2> QED
    BY <2>4, <2>6, <2>7 DEF AttendedBy, NoneLive
<1>9. CASE CheckPasses(l) /\ ~Live(active)
  <2>1. launch[l].at = "checking" /\ launch'[l].at = "creating" /\ UNCHANGED browser
    BY <1>2, <1>3, <1>9 DEF CheckPasses
  <2> QED
    BY <1>5, <1>6, <1>9, <2>1 DEF AttendedBy, NoneLive
<1>10. CASE Disposed(l)
  <2>1. /\ launch[l].at = "disposing" /\ browser[launch[l].waits] = "closed" /\ UNCHANGED browser
        /\ launch' = [launch EXCEPT ![l] = [@ EXCEPT !.at = "creating", !.waits = NoSession]]
    BY <1>10 DEF Disposed, CloseReturns
  <2>2. launch'[l].at = "creating"
    BY <1>1, <2>1 DEF LaunchCall
  <2>3. NoneLive /\ \A s \in Launches : browser[s] # "closing"
    BY <2>1 DEF AttendedBy
  <2> QED
    BY <2>1, <2>2, <2>3 DEF AttendedBy, NoneLive
<1>11. CASE SessionCreated(l)
  <2>1. /\ launch[l].at = "creating" /\ launch'[l].at = "preparing" /\ active' = l
        /\ \A m \in Launches : browser'[m] = IF m = l THEN "live" ELSE browser[m]
    BY <1>1, <1>2, <1>3, <1>11 DEF SessionCreated
  <2>2. NoneLive /\ \A s \in Launches : browser[s] # "closing"
    BY <1>5, <2>1 DEF AttendedBy
  <2> QED
    BY <2>1, <2>2 DEF AttendedBy, NoneLive
<1>25. CASE UnregisteredThrows(l)
  <2>1. launch[l].at = "creating" /\ launch'[l].at = "failing" /\ Close(l)
    BY <1>2, <1>25 DEF UnregisteredThrows, LaunchState
  <2>2. \A m \in Launches : browser'[m] = IF m = l THEN "closing" ELSE browser[m]
    BY <1>4, <2>1
  <2>3. NoneLive /\ \A s \in Launches : browser[s] # "closing"
    BY <1>5, <2>1 DEF AttendedBy
  <2> QED
    BY <2>1, <2>2, <2>3 DEF AttendedBy, NoneLive
\* The active session of a launch in preparation is its own, and it alone can
\* have a live browser.
<1>12. ASSUME launch[l].at = "preparing"
       PROVE  /\ active = l
              /\ \A s \in Launches : browser[s] = "live" => s = l
              /\ \A s \in Launches : browser[s] # "closing"
  BY <1>5, <1>12 DEF AttendedBy
<1>13. ASSUME launch[l].at = "preparing", Close(l), launch'[l].at \in {"discarding", "failing"}
       PROVE  AttendedBy(l)'
  <2>1. \A m \in Launches : browser'[m] = IF m = l THEN "closing" ELSE browser[m]
    BY <1>4, <1>13
  <2> QED
    BY <1>12, <1>13, <2>1 DEF AttendedBy, NoneLive
<1>14. ASSUME launch[l].at = "preparing", ~Live(l), launch'[l].at = "ended", UNCHANGED browser
       PROVE  AttendedBy(l)'
  BY <1>1, <1>12, <1>14 DEF AttendedBy, Live
<1>15. CASE Prepared(l)
  <2>1. launch[l].at = "preparing"
    BY <1>15 DEF Prepared
  <2>2. CASE Superseded(l) /\ Live(l)
    <3>1. launch'[l].at = "discarding" /\ Close(l)
      BY <1>2, <1>3, <1>15, <2>2 DEF Prepared
    <3> QED
      BY <1>13, <2>1, <3>1
  <2>3. CASE Superseded(l) /\ ~Live(l)
    <3>1. launch'[l].at = "ended" /\ UNCHANGED browser
      BY <1>2, <1>3, <1>15, <2>3 DEF Prepared, Discard
    <3> QED
      BY <1>14, <2>1, <2>3, <3>1
  <2>4. CASE ~Superseded(l)
    <3>1. launch'[l].at = "ended" /\ UNCHANGED <<active, browser>>
      BY <1>2, <1>3, <1>15, <2>4 DEF Prepared
    <3> QED
      BY <1>12, <2>1, <3>1 DEF AttendedBy
  <2> QED
    BY <2>2, <2>3, <2>4
\* Whoever failed or discarded its session with nothing left open has ended.
<1>16. ASSUME NoneLive, \A s \in Launches : browser[s] # "closing", UNCHANGED browser,
              launch'[l].at = "ended"
       PROVE  AttendedBy(l)'
  BY <1>16 DEF AttendedBy, NoneLive
<1>17. ASSUME launch[l].at \in {"discarding", "failing"}, CloseReturns(l)
       PROVE  NoneLive /\ \A s \in Launches : browser[s] # "closing"
  BY <1>17 DEF AttendedBy, CloseReturns
<1>18. CASE Discarded(l)
  <2>1. /\ launch[l].at = "discarding" /\ CloseReturns(l) /\ UNCHANGED browser
        /\ launch'[l].at = "ended"
    BY <1>2, <1>3, <1>18 DEF Discarded, Discard
  <2> QED
    BY <1>16, <1>17, <2>1
<1>19. ASSUME NEW signal, Fail(l, signal) PROVE launch'[l].at = "ended"
  <2>1. launch' = [launch EXCEPT ![l] = [@ EXCEPT !.at = "ended", !.signal = NoSignal]]
    BY <1>19 DEF Fail
  <2> QED
    BY <1>1, <2>1 DEF LaunchCall
<1>20. ASSUME NEW signal, CreationThrows(l, signal) PROVE AttendedBy(l)'
  <2>1. launch[l].at = "creating" /\ UNCHANGED browser /\ launch'[l].at = "ended"
    BY <1>19, <1>20 DEF CreationThrows
  <2>2. NoneLive /\ \A s \in Launches : browser[s] # "closing"
    BY <1>5, <2>1 DEF AttendedBy
  <2> QED
    BY <1>16, <2>1, <2>2
<1>21. ASSUME NEW signal, PreparationThrows(l, signal) PROVE AttendedBy(l)'
  <2>1. launch[l].at = "preparing"
    BY <1>21 DEF PreparationThrows
  <2>2. CASE Live(l)
    <3>1. /\ Close(l)
          /\ launch' = [launch EXCEPT ![l] = [@ EXCEPT !.at = "failing", !.signal = signal]]
      BY <1>21, <2>2 DEF PreparationThrows
    <3>2. launch'[l].at = "failing"
      BY <1>1, <3>1 DEF LaunchCall
    <3> QED
      BY <1>13, <2>1, <3>1, <3>2
  <2>3. CASE ~Live(l)
    <3>1. launch'[l].at = "ended" /\ UNCHANGED browser
      BY <1>19, <1>21, <2>3 DEF PreparationThrows
    <3> QED
      BY <1>14, <2>1, <2>3, <3>1
  <2> QED
    BY <2>2, <2>3
<1>22. CASE Failed(l)
  <2>1. /\ launch[l].at = "failing" /\ CloseReturns(l) /\ UNCHANGED browser
        /\ launch'[l].at = "ended"
    BY <1>19, <1>22 DEF Failed
  <2> QED
    BY <1>16, <1>17, <2>1
<1>23. CASE Expire(l)
  <2>1. launch' = [launch EXCEPT ![l].aborted = TRUE] /\ UNCHANGED <<browser, active>>
    BY <1>23 DEF Expire
  <2>2. launch'[l].at = launch[l].at /\ launch'[l].waits = launch[l].waits
    BY <1>1, <2>1 DEF LaunchCall
  <2> QED
    BY <2>1, <2>2 DEF AttendedBy, NoneLive
<1>24. ~ \E t \in Targets, e \in Environments : Launch(l, t, e)
  BY DEF Launch, Working
<1> QED
  BY <1>7, <1>8, <1>9, <1>10, <1>11, <1>15, <1>18, <1>20, <1>21, <1>22, <1>23, <1>24, <1>25
  DEF LaunchStep

\* As long as every launch settles in time, browsers stay attended to.
LEMMA AttendedKept ==
  MaxParallel = 1 /\ IInv /\ Alone /\ AllSettled /\ Attended /\ [Next]_vars /\ AllSettled'
    => Attended'
<1> SUFFICES ASSUME MaxParallel = 1, IInv, Alone, AllSettled, Attended, [Next]_vars, AllSettled'
             PROVE  Attended'
  OBVIOUS
<1> USE AccessAssumption DEF AccessAssumption
<1>0. TypeOK
  BY DEF IInv
<1>1. /\ launch \in [Launches -> LaunchCall]
      /\ browser \in [Launches -> {"none", "live", "closing", "closed"}]
      /\ active \in Sessions /\ NoSession \notin Launches
  BY <1>0 DEF TypeOK
<1>2. \A l \in Launches : Pending(l) <=> Working(l)
  BY DEF Pending, AllSettled
<1>3. \A l \in Launches : ~Working(l) => launch[l].at \in {"new", "ended"}
  BY DEF Working
\* With nobody at work and no dispose, no browser is closing.
<1>4. ASSUME \A l \in Launches : ~Working(l), ~dispose.busy
      PROVE  \A l \in Launches : browser[l] # "closing"
  BY <1>3, <1>4 DEF Attended, Awaited
<1>5. ASSUME NEW l \in Launches, LaunchStep(l) PROVE Attended'
  <2>1. /\ \A m \in Launches \ {l} : launch'[m] = launch[m]
        /\ UNCHANGED <<page, dispose, run>>
    BY <1>0, <1>5, LaunchMoves
  <2>2. CASE \E t \in Targets, e \in Environments : Launch(l, t, e)
    <3>1. MayCall /\ UNCHANGED <<browser, active>> /\ launch[l].at = "new"
      BY <2>2 DEF Launch
    <3>2. (\A m \in Launches : ~Working(m)) /\ ~dispose.busy /\ run = "open"
      BY <1>2, <3>1, NobodyCalls DEF MayCall
    <3>3. launch'[l].at = "checking"
      BY <1>1, <2>2 DEF Launch, LaunchCall
    <3>4. \A m \in Launches : browser[m] # "closing"
      BY <1>4, <3>2
    <3>5. \A m \in Launches : launch'[m].at \in {"new", "ended", "checking"}
      BY <1>3, <2>1, <3>2, <3>3
    <3> QED
      BY <2>1, <3>1, <3>2, <3>4, <3>5 DEF Attended
  <2>3. CASE Working(l)
    <3>1. /\ \A m \in Launches \ {l} : ~Working(m)
          /\ ~dispose.busy /\ run = "open"
      BY <1>0, <1>2, <2>3 DEF Alone, TypeOK
    <3>2. \A m \in Launches \ {l} : launch[m].at \in {"new", "ended"}
      BY <1>3, <3>1
    <3>3. AttendedBy(l)
      BY <3>1, <3>2 DEF Attended, AttendedBy, Awaited
    <3>4. ~GraceExpires(l)
      BY <1>0, <1>5, LaunchMoves DEF AllSettled
    <3>5. AttendedBy(l)'
      BY <1>0, <1>5, <2>3, <3>3, <3>4, WorkerAttends
    <3>6. \A m \in Launches \ {l} : launch'[m].at \in {"new", "ended"}
      BY <2>1, <3>2
    <3>7. ~dispose'.busy /\ run' = "open"
      BY <2>1, <3>1
    <3> QED
      BY <3>5, <3>6, <3>7 DEF Attended, AttendedBy, Awaited
  <2> QED
    BY <1>0, <1>5, <2>2, <2>3, LaunchMoves
<1>6. ASSUME CloseBrowser \/ EndRun PROVE Attended'
  <2>1. (\A m \in Launches : ~Working(m)) /\ ~dispose.busy
    BY <1>2, <1>6, NobodyCalls DEF CloseBrowser, EndRun
  <2>2. BeginDispose /\ UNCHANGED launch
    BY <1>6 DEF CloseBrowser, EndRun, BeginDispose
  <2>3. \A m \in Launches : browser[m] # "closing"
    BY <1>4, <2>1
  <2>4. \A m \in Launches : launch'[m].at \in {"new", "ended"}
    BY <1>3, <2>1, <2>2
  <2>5. CASE Live(active)
    <3>1. /\ Close(active) /\ dispose' = [busy |-> TRUE, waits |-> active]
      BY <2>2, <2>5 DEF BeginDispose
    <3>2. active \in Launches
      BY <1>1, <2>5 DEF Live, Sessions
    <3>3. \A m \in Launches : browser'[m] = IF m = active THEN "closing" ELSE browser[m]
      BY <1>1, <3>1, <3>2 DEF Close
    <3>4. \A m \in Launches : browser'[m] # "live"
      BY <3>3 DEF Attended
    <3>5. \A m \in Launches : browser'[m] = "closing" => m = active
      BY <2>3, <3>3
    <3>6. dispose'.busy /\ dispose'.waits = active
      BY <3>1
    <3> QED
      BY <2>4, <3>4, <3>5, <3>6 DEF Attended, Awaited, NoneLive
  <2>6. CASE ~Live(active)
    <3>1. NoneLive /\ UNCHANGED browser
      BY <1>1, <2>2, <2>6 DEF BeginDispose, Attended, NoneLive, Live
    <3> QED
      BY <2>3, <2>4, <3>1 DEF Attended, NoneLive
  <2> QED
    BY <2>5, <2>6
<1>7. CASE EndDispose
  <2>1. /\ dispose.busy /\ browser[dispose.waits] = "closed" /\ UNCHANGED <<launch, browser>>
    BY <1>7 DEF EndDispose, CloseReturns
  <2>2. \A m \in Launches : ~Working(m)
    BY <1>2, <2>1 DEF Alone
  <2>3. NoneLive
    BY <2>1 DEF Attended
  <2>4. \A m \in Launches : browser[m] # "closing"
    BY <1>3, <2>1, <2>2 DEF Attended, Awaited
  <2>5. \A m \in Launches : launch'[m].at \in {"new", "ended"}
    BY <1>3, <2>1, <2>2
  <2> QED
    BY <2>1, <2>3, <2>4, <2>5 DEF Attended, NoneLive
<1>8. ASSUME NEW s \in Launches, BrowserCloses(s) PROVE Attended'
  <2>1. /\ browser[s] = "closing" /\ UNCHANGED <<launch, dispose, active, run>>
        /\ browser' = [browser EXCEPT ![s] = "closed"]
    BY <1>8 DEF BrowserCloses
  <2>2. \A m \in Launches : browser'[m] = IF m = s THEN "closed" ELSE browser[m]
    BY <1>1, <2>1
  <2>3. NoneLive => NoneLive'
    BY <2>2 DEF NoneLive
  <2>4. \A m \in Launches : Awaited(m) => Awaited(m)'
    BY <2>1 DEF Awaited
  <2> QED
    BY <2>1, <2>2, <2>3, <2>4 DEF Attended
<1>9. ASSUME UNCHANGED <<launch, dispose, browser, active, run>> PROVE Attended'
  BY <1>9 DEF Attended, Awaited, NoneLive
<1>10. CASE \E s \in Launches : CountWithheldPage(s)
  BY <1>9, <1>10 DEF CountWithheldPage
<1>11. CASE \E p \in Pages : PageStep(p)
  BY <1>9, <1>11 DEF PageStep, OpenPage, PageLoads, PageFails, PageRefused
<1>12. CASE AllDone \/ UNCHANGED vars
  BY <1>9, <1>12 DEF AllDone, vars
<1> QED
  BY <1>5, <1>6, <1>7, <1>8, <1>10, <1>11, <1>12 DEF Next

\* A launch that was answered unfinished stays so.
LEMMA SettledBefore ==
  ASSUME TypeOK, [Next]_vars, AllSettled'
  PROVE  AllSettled
<1>1. ASSUME NEW l \in Launches, LaunchStep(l) PROVE AllSettled
  <2>1. /\ \A m \in Launches \ {l} : launch'[m] = launch[m]
        /\ GraceExpires(l) \/ launch'[l].answered = launch[l].answered
        /\ GraceExpires(l) => launch'[l].answered = TRUE
    BY <1>1, LaunchMoves
  <2> QED
    BY <2>1 DEF AllSettled
<1>2. CASE UNCHANGED launch
  BY <1>2 DEF AllSettled
<1> QED
  BY <1>1, <1>2, OtherMoves DEF Next, vars

\* With one call at a time and every launch settled in time, a finished run
\* leaves no browser of the agent behind: whoever closed one has waited for it,
\* and the one that was left was the active session's, which the end of the run
\* disposes of. With two launches at once the one that passed its check before
\* the other had created its session replaces it without closing it.
THEOREM NoBrowserIsLeft ==
  ASSUME MaxParallel = 1
  PROVE  Spec => []NoBrowserOutlivesRun
<1>1. Init => Kept
  BY DEF Init, Kept, Alone, Attended, Pending, Working, NoneLive
<1>2. IInv /\ Kept /\ [Next]_vars => Kept'
  <2>1. IInv /\ Alone /\ [Next]_vars => Alone'
    BY AloneKept
  <2>2. IInv /\ [Next]_vars /\ AllSettled' => AllSettled
    BY SettledBefore DEF IInv
  <2> QED
    BY <2>1, <2>2, AttendedKept DEF Kept
<1>3. IInv /\ Kept => NoBrowserOutlivesRun
  <2> SUFFICES ASSUME IInv, Kept, run = "done", AllSettled, NEW l \in Launches
               PROVE  browser[l] \in {"none", "closed"}
    BY DEF NoBrowserOutlivesRun
  <2>1. browser[l] \in {"none", "live", "closing", "closed"}
    BY DEF IInv, TypeOK
  <2>2. ~dispose.busy /\ (\A m \in Launches : ~Working(m))
    BY DEF Kept, Alone, Pending, AllSettled
  <2>3. ~Awaited(l)
    BY <2>2 DEF Awaited, Working
  <2>4. browser[l] # "live" /\ browser[l] # "closing"
    BY <2>3 DEF Kept, Attended, NoneLive
  <2> QED
    BY <2>1, <2>4
<1> QED
  BY <1>1, <1>2, <1>3, Inductive, PTL DEF Spec
==============================================================================
