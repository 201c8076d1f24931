--------------------------- MODULE ProxyEnvironment ---------------------------
(* The filtering environment over a blocker module: the evidence route that  *)
(* asks the module for the configuration the run wants, the adapter that     *)
(* opens the phases of an experiment on it, launch_browser calls that share  *)
(* the route, and the end of the run.  The module may answer late or never,  *)
(* fail any launch of the proxy, or die.                                     *)
EXTENDS Sequences, Naturals, BlockerProcess

CONSTANTS
  Rules,          \* candidates that add a rule
  Edits,          \* candidates that change a line of a published list
  MaxExperiments, \* bound on experiments of a run
  Deadlines       \* whether the deadline of apply_rule may end an experiment

ASSUME EnvironmentAssumption ==
  /\ MaxExperiments \in Nat
  /\ ListOf \in [Edits -> Lists]
  /\ NoEdit \notin Edits
  /\ \A lists \in SUBSET Lists : lists # Every
  /\ Rules \cap Edits = {}

VARIABLES
  blocker,  \* the module and its proxy
  want,     \* userRules and listReplacement of the route
  catalog,  \* lists the baseline host has enabled, Every before it exists
  pending,  \* requests of the module not yet answered to their caller
  routed,   \* whether the route knows an address of the proxy
  held,     \* who holds the address of the present proxy
  adapter,  \* the adapter's record of what it applied
  phase,    \* progress of the experiment or of the cleanup
  leases,   \* phase sessions not closed yet
  browser,  \* progress of launch_browser
  stage     \* progress of the run

vars == <<blocker, want, catalog, pending, routed, held, adapter, phase, leases, browser, stage>>

\* What a request of the module changes besides the route's own record.
served == <<blocker, pending, held, leases>>

Candidates == Rules \cup Edits

NoCandidate == "none"

Init ==
  /\ blocker = NewModule
  /\ want = [rules |-> {}, edit |-> NoEdit]
  /\ catalog = Every
  /\ pending = <<>>
  /\ routed = FALSE
  /\ held = {}
  /\ adapter = [ready |-> FALSE, limited |-> FALSE, added |-> FALSE, edited |-> FALSE,
                locked |-> {}, cleanup |-> "none"]
  /\ phase = [at |-> "idle", label |-> "A", candidate |-> NoCandidate, failed |-> FALSE,
              experiments |-> 0]
  /\ leases = {}
  /\ browser = "idle"
  /\ stage = "running"

-----------------------------------------------------------------------------
(* Requests.  The module takes them up in the order they are made, so what a *)
(* request does is settled when it is made and its answer comes later.       *)

Wanted(w, lists) == [lists |-> lists, rules |-> w.rules, edit |-> w.edit]

Cut(sessions) == {[s EXCEPT !.reaches = FALSE] : s \in sessions}

Outcomes == [1..3 -> Launches]

Answers(w, lists) ==
  IF blocker.module # "up" THEN {Thrown(blocker)}
  ELSE IF routed THEN {Apply(blocker, Wanted(w, lists), o) : o \in Outcomes}
  ELSE {Start(blocker, Wanted(w, lists), o, how, resets) :
          o \in Outcomes, how \in Preparations, resets \in BOOLEAN}

\* reconcile: ask for what the run wants, by a start while there is no route.
Reconcile(who, w, lists) ==
  \E r \in Answers(w, lists) :
    /\ blocker' = r.to
    /\ pending' = Append(pending, [by |-> who, ok |-> r.ok, restarted |-> r.restarted])
    /\ leases' = IF r.cut THEN Cut(leases) ELSE leases
    /\ held' = (IF r.cut THEN {} ELSE held) \cup
               (IF r.ok /\ r.to.addressed THEN {who} ELSE {})

\* The answer of the oldest request, or its timeout, or the module's end.
Answered(who, heard) ==
  /\ pending # <<>>
  /\ Head(pending).by = who
  /\ heard => Head(pending).ok
  /\ pending' = Tail(pending)
  /\ routed' = (routed \/ heard)
  /\ held' = (IF ~heard THEN held
              ELSE IF who \in held THEN held \cup {"route"} ELSE held \ {"route"}) \ {who}

\* state() is answered: the module runs and its proxy host exists.
Told == blocker.module = "up" /\ blocker.started

-----------------------------------------------------------------------------
(* launch_browser. *)

LaunchBrowser ==
  /\ browser = "idle"
  /\ stage \in {"running", "cleaning"}
  /\ browser' = "asking"
  /\ Reconcile("browser", want, catalog)
  /\ UNCHANGED <<want, catalog, routed, adapter, phase, stage>>

\* The session is opened on the route, or the launch fails.
BrowserAnswered ==
  /\ browser = "asking"
  /\ \E heard \in BOOLEAN : Answered("browser", heard)
  /\ browser' = "idle"
  /\ UNCHANGED <<blocker, want, catalog, adapter, phase, leases, stage>>

-----------------------------------------------------------------------------
(* The adapter's preparation and the phases of an experiment. *)

Limited(a) == [a EXCEPT !.limited = TRUE]

\* createAdapter: from here on the route executes what the catalog enables.
CreateAdapter ==
  /\ stage = "running"
  /\ catalog = Every
  /\ catalog' = {}
  /\ phase' = [phase EXCEPT !.at = "preparing"]
  /\ UNCHANGED <<served, want, routed, adapter, browser, stage>>

\* prepare: the requested lists are added one by one; a refused one limits.
PrepareAdapter ==
  /\ phase.at = "preparing"
  /\ phase' = [phase EXCEPT !.at = "idle"]
  /\ \/ catalog' = Lists /\ adapter' = [adapter EXCEPT !.ready = TRUE]
     \/ \E added \in SUBSET Lists : catalog' = added /\ adapter' = Limited(adapter)
  /\ UNCHANGED <<served, want, routed, browser, stage>>

BeginExperiment ==
  /\ stage = "running"
  /\ phase.at = "idle"
  /\ adapter.ready /\ ~adapter.limited
  /\ phase.experiments < MaxExperiments
  /\ \E c \in Candidates :
       phase' = [at |-> "next", label |-> "A", candidate |-> c, failed |-> FALSE,
                 experiments |-> phase.experiments + 1]
  /\ UNCHANGED <<served, want, catalog, routed, adapter, browser, stage>>

\* establishPhase: select the lists, then the session reconciles.
OpenPhase ==
  /\ phase.at = "next"
  /\ phase.label # "C"
  /\ catalog' = IF phase.label = "A" THEN {} ELSE Lists
  /\ Reconcile("phase", want, catalog')
  /\ phase' = [phase EXCEPT !.at = "launching"]
  /\ UNCHANGED <<want, routed, adapter, browser, stage>>

ApplyCandidate ==
  /\ phase.at = "next"
  /\ phase.label = "C"
  /\ phase.candidate \in Rules
  /\ adapter' = [adapter EXCEPT !.added = TRUE]
  /\ want' = [want EXCEPT !.rules = {phase.candidate}]
  /\ Reconcile("phase", want', catalog)
  /\ phase' = [phase EXCEPT !.at = "applying"]
  /\ UNCHANGED <<catalog, routed, browser, stage>>

ApplyEdit ==
  /\ phase.at = "next"
  /\ phase.label = "C"
  /\ phase.candidate \in Edits
  /\ adapter' = [adapter EXCEPT !.edited = TRUE]
  /\ want' = [want EXCEPT !.edit = phase.candidate]
  /\ Reconcile("phase", want', catalog)
  /\ phase' = [phase EXCEPT !.at = "applying"]
  /\ UNCHANGED <<catalog, routed, browser, stage>>

\* A candidate that failed is taken back, quietly.
TakeBack(p, failed) ==
  [p EXCEPT !.at = IF p.candidate \in Rules THEN "revokeRule" ELSE "revokeEdit",
            !.failed = failed]

\* The line is not found, or found twice: nothing is asked of the module.
EditRefused ==
  /\ phase.at = "next"
  /\ phase.label = "C"
  /\ phase.candidate \in Edits
  /\ adapter' = [adapter EXCEPT !.edited = TRUE]
  /\ phase' = TakeBack(phase, TRUE)
  /\ UNCHANGED <<served, want, catalog, routed, browser, stage>>

CandidateAnswered ==
  /\ phase.at = "applying"
  /\ \E heard \in BOOLEAN :
       /\ Answered("phase", heard)
       /\ phase' = IF heard THEN [phase EXCEPT !.at = "receipt"] ELSE TakeBack(phase, TRUE)
  /\ UNCHANGED <<blocker, want, catalog, adapter, leases, browser, stage>>

Target == ListOf[phase.candidate]

\* What state() reports is the candidate and nothing else of the agent's.
ReceiptHolds ==
  IF phase.candidate \in Rules THEN StateRules(blocker) = {phase.candidate}
  ELSE /\ Target \in StateLists(blocker)
       /\ StateEdit(blocker, Target) # NoEdit
       /\ StateRules(blocker) = {}

ReadReceipt ==
  /\ phase.at = "receipt"
  /\ Told
  /\ ReceiptHolds
  /\ adapter' = IF phase.candidate \in Rules THEN adapter
                ELSE [adapter EXCEPT !.locked = {Target}]
  /\ Reconcile("phase", want, catalog)
  /\ phase' = [phase EXCEPT !.at = "launching"]
  /\ UNCHANGED <<want, catalog, routed, browser, stage>>

\* Not so, or the request for the state times out.
ReceiptRejected ==
  /\ phase.at = "receipt"
  /\ phase' = TakeBack(phase, TRUE)
  /\ UNCHANGED <<served, want, catalog, routed, adapter, browser, stage>>

Unopened == IF phase.label = "C" THEN TakeBack(phase, TRUE)
            ELSE [phase EXCEPT !.at = "ended", !.failed = TRUE]

SessionAnswered ==
  /\ phase.at = "launching"
  /\ \E heard \in BOOLEAN :
       /\ Answered("phase", heard)
       /\ phase' = IF heard THEN [phase EXCEPT !.at = "creating"] ELSE Unopened
  /\ UNCHANGED <<blocker, want, catalog, adapter, leases, browser, stage>>

Lease(reaches) ==
  [of |-> phase.experiments, label |-> phase.label, candidate |-> phase.candidate,
   reaches |-> reaches]

\* The session takes the address the route holds by now.
CreateSession ==
  /\ phase.at = "creating"
  /\ Told
  /\ leases' = leases \cup {Lease("route" \in held)}
  /\ phase' = [phase EXCEPT !.at = "observing"]
  /\ UNCHANGED <<blocker, want, catalog, pending, routed, held, adapter, browser, stage>>

SessionFails ==
  /\ phase.at = "creating"
  /\ phase' = Unopened
  /\ UNCHANGED <<served, want, catalog, routed, adapter, browser, stage>>

-----------------------------------------------------------------------------
(* Closing a phase and taking back its candidate. *)

NextLabel == [A |-> "B", B |-> "C"]

\* After B the symptom may be absent, after either phase the deadline over.
Proceed(p) ==
  {[p EXCEPT !.at = "ended"], [p EXCEPT !.at = "next", !.label = NextLabel[@]]}

ClosePhase ==
  /\ phase.at = "observing"
  /\ leases' = leases \ {Lease(TRUE), Lease(FALSE)}
  /\ \E observed \in BOOLEAN :
       IF phase.label = "C" THEN phase' = TakeBack(phase, ~observed)
       ELSE IF observed THEN phase' \in Proceed(phase)
       ELSE phase' = [phase EXCEPT !.at = "ended", !.failed = TRUE]
  /\ UNCHANGED <<blocker, want, catalog, pending, routed, held, adapter, browser, stage>>

\* The close throws: the session stays open, its candidate in force.
CloseFails ==
  /\ phase.at = "observing"
  /\ phase' = [phase EXCEPT !.at = "ended", !.failed = TRUE]
  /\ UNCHANGED <<served, want, catalog, routed, adapter, browser, stage>>

\* Where a revocation leads: the end of its phase, or the next of cleanup.
Revoked(fails) ==
  phase' = [phase EXCEPT !.failed = @ \/ fails,
                         !.at = IF stage = "running" THEN "ended"
                                ELSE IF @ \in {"revokeRule", "revokingRule"} THEN "revokeEdit"
                                ELSE "cleaned"]

\* revokeCandidate of the adapter and of the route.
RevokeCandidate ==
  /\ phase.at = "revokeRule"
  /\ adapter.added
  /\ want' = [want EXCEPT !.rules = {}]
  /\ Reconcile("phase", want', catalog)
  /\ phase' = [phase EXCEPT !.at = "revokingRule"]
  /\ UNCHANGED <<catalog, routed, adapter, browser, stage>>

CandidateRevoked ==
  /\ phase.at = "revokingRule"
  /\ \E heard \in BOOLEAN :
       /\ Answered("phase", heard)
       /\ adapter' = [adapter EXCEPT !.added = ~heard]
       /\ Revoked(~heard)
  /\ UNCHANGED <<blocker, want, catalog, leases, browser, stage>>

\* revokeBaselineEdit of the adapter and of the route.
RevokeEdit ==
  /\ phase.at = "revokeEdit"
  /\ adapter.edited
  /\ want.edit # NoEdit
  /\ want' = [want EXCEPT !.edit = NoEdit]
  /\ Reconcile("phase", want', catalog)
  /\ phase' = [phase EXCEPT !.at = "revokingEdit", !.candidate = want.edit]
  /\ UNCHANGED <<catalog, routed, adapter, browser, stage>>

\* The digest of the restored list is the one the last receipt locked.
Restored ==
  /\ Target \in StateLists(blocker)
  /\ StateEdit(blocker, Target) = NoEdit
  /\ adapter.locked = {Target}

EditRevoked ==
  /\ phase.at = "revokingEdit"
  /\ \E heard, told \in BOOLEAN :
       LET restored == heard /\ told /\ Told /\ (adapter.locked = {} \/ Restored)
       IN /\ Answered("phase", heard)
          /\ adapter' = [adapter EXCEPT !.edited = ~restored]
          /\ Revoked(~restored)
  /\ UNCHANGED <<blocker, want, catalog, leases, browser, stage>>

\* With no replacement on record the route answers null.
NothingRestored ==
  /\ phase.at = "revokeEdit"
  /\ adapter.edited
  /\ want.edit = NoEdit
  /\ adapter' = [adapter EXCEPT !.edited = adapter.locked # {}]
  /\ Revoked(adapter.locked # {})
  /\ UNCHANGED <<served, want, catalog, routed, browser, stage>>

NothingToRevoke ==
  /\ \/ phase.at = "revokeRule" /\ ~adapter.added
     \/ phase.at = "revokeEdit" /\ ~adapter.edited
  /\ Revoked(FALSE)
  /\ UNCHANGED <<served, want, catalog, routed, adapter, browser, stage>>

\* A limitation is kept, unless the deadline answered the call before.
EndExperiment ==
  /\ phase.at = "ended"
  /\ \/ adapter' = IF phase.failed THEN Limited(adapter) ELSE adapter
     \/ Deadlines /\ adapter' = adapter
  /\ phase' = [phase EXCEPT !.at = "idle", !.label = "A", !.candidate = NoCandidate,
                            !.failed = FALSE]
  /\ UNCHANGED <<served, want, catalog, routed, browser, stage>>

-----------------------------------------------------------------------------
(* The end of the run: cleanup of the adapter, then the stop of the route. *)

\* drainOpenHandles, the first step of cleanup.
Cleanup ==
  /\ stage = "running"
  /\ phase.at = "idle"
  /\ stage' = "cleaning"
  /\ \E left \in SUBSET leases :
       /\ leases' = left
       /\ phase' = [phase EXCEPT !.at = "revokeRule", !.failed = left # {}]
  /\ UNCHANGED <<blocker, want, catalog, pending, routed, held, adapter, browser>>

EndCleanup ==
  /\ phase.at = "cleaned"
  /\ adapter' = [adapter EXCEPT !.cleanup = IF phase.failed THEN "failed" ELSE "completed"]
  /\ phase' = [phase EXCEPT !.at = "done"]
  /\ UNCHANGED <<served, want, catalog, routed, browser, stage>>

\* stop() of the route; a module that is gone is not asked.
StopRoute ==
  /\ phase.at = "done"
  /\ stage = "cleaning"
  /\ stage' = "stopping"
  /\ \E resets \in BOOLEAN :
       blocker' = IF blocker.module = "up" THEN Stop(blocker, resets) ELSE blocker
  /\ leases' = Cut(leases)
  /\ held' = {}
  /\ routed' = FALSE
  /\ UNCHANGED <<want, catalog, pending, adapter, phase, browser>>

\* A launch left behind asks again before the module's input is closed.
LaunchLate ==
  /\ browser = "idle"
  /\ stage = "stopping"
  /\ browser' = "asking"
  /\ Reconcile("browser", want, catalog)
  /\ UNCHANGED <<want, catalog, routed, adapter, phase, stage>>

\* Mutant: the end of the module's input stops nothing.
ServeEndsOnly(b, resets) == b

\* serveBlocker: all requests were served, stop once more.
ServeEnds(b, resets) == Stop(b, resets)

ModuleExits ==
  /\ stage = "stopping"
  /\ stage' = "over"
  /\ \E resets \in BOOLEAN :
       blocker' = IF blocker.module = "up"
                  THEN [ServeEnds(blocker, resets) EXCEPT !.module = "exited"] ELSE blocker
  /\ UNCHANGED <<want, catalog, pending, routed, held, adapter, phase, leases, browser>>

-----------------------------------------------------------------------------
(* Faults. *)

ProxyDies ==
  /\ blocker.child = "live"
  /\ blocker' = [blocker EXCEPT !.child = "dead"]
  /\ UNCHANGED <<want, catalog, pending, routed, held, adapter, phase, leases, browser, stage>>

\* It throws outside a request, or is killed (as the stop does after a grace).
ModuleDies ==
  /\ blocker.module = "up"
  /\ \E killed \in BOOLEAN : blocker' = Perish(blocker, killed)
  /\ UNCHANGED <<want, catalog, pending, routed, held, adapter, phase, leases, browser, stage>>

Next ==
  \/ LaunchBrowser \/ BrowserAnswered \/ CreateAdapter \/ PrepareAdapter \/ BeginExperiment
  \/ OpenPhase \/ ApplyCandidate \/ ApplyEdit \/ EditRefused \/ CandidateAnswered
  \/ ReadReceipt \/ ReceiptRejected \/ SessionAnswered \/ CreateSession \/ SessionFails
  \/ ClosePhase \/ CloseFails \/ RevokeCandidate \/ CandidateRevoked \/ RevokeEdit
  \/ EditRevoked \/ NothingRestored \/ NothingToRevoke \/ EndExperiment
  \/ Cleanup \/ EndCleanup \/ StopRoute \/ LaunchLate \/ ModuleExits
  \/ ProxyDies \/ ModuleDies

Spec == Init /\ [][Next]_vars

-----------------------------------------------------------------------------
(* Properties. *)

\* What the proof of a phase says the proxy executes for its session.
Proven(l) ==
  [lists |-> IF l.label = "A" THEN {} ELSE Lists,
   rules |-> IF l.label = "C" THEN {l.candidate} \cap Rules ELSE {},
   edit |-> IF l.label = "C" /\ l.candidate \in Edits THEN l.candidate ELSE NoEdit]

\* Whatever launch, answer or close failed before, the proxy a phase session
\* reaches executes exactly the lists, rules and bytes the proof of its phase
\* names: a failure that leaves more in force ends the experiments
\* (openPhase of the adapter over apply of the blocker).
PhaseRunsWhatItProves ==
  \A l \in leases : l.reaches => blocker.ran = Proven(l)

\* A cleanup that reports completion leaves the route on a proxy that executes
\* neither a candidate rule nor an edited list, whichever of the attempts to
\* take a candidate back failed on the way (cleanup, "must not be left quietly
\* executing an agent-authored baseline").
CompletedCleanupRestores ==
  adapter.cleanup = "completed" /\ "route" \in held /\ blocker.module = "up" =>
    blocker.ran.rules = {} /\ blocker.ran.edit = NoEdit

\* Once the run is over no proxy process of it is alive and no licence device
\* is held, also when a launch asked again during the stop; a module that
\* died has not returned the licence, one that was killed not even its proxy.
NoProxyOutlivesRun ==
  stage = "over" => /\ blocker.module # "killed" => blocker.child # "live"
                    /\ blocker.module = "exited" => blocker.licence # "held"

\* A launch_browser never cuts a phase session off its proxy, although it
\* reconciles the same blocker while the phase is open.
EvidenceSparesPhase ==
  [][(browser = "idle" /\ browser' = "asking") => leases' = leases]_vars
===============================================================================
