----------------------------- MODULE PageEvidence -----------------------------
(***************************************************************************)
(* What the agent's browser sessions prove: the settings each session was  *)
(* credited with, the pages it opened, the captures it took of them and    *)
(* what vision read in those captures (AgentRuntimeSessionState and the    *)
(* browser tools that change it).  A session is named by its launch order, *)
(* its index in sessionStates; a capture by its order in the session.      *)
(*                                                                         *)
(* One step is one tool call.  The calls of one turn that overlap are the  *)
(* subject of BrowserAccess, the experiment behind apply_rule is           *)
(* PhaseExperiment, and the limits on candidates are CandidateLedger.  All *)
(* sessions browse one target, and the run's route is an extension.        *)
(***************************************************************************)
EXTENDS TechnicalBudget, Sequences, FiniteSets

CONSTANTS
  Images,      \* images of a complete capture: its overview and its tiles
  Views,       \* what vision finds in place of the page: PageObstruction
  Walls,       \* those that withhold the page
  Clear,       \* no obstruction
  Blank,       \* an error page or an empty one
  Readings,    \* what vision can answer for one image
  Profiles,    \* browser profiles of a session
  Credits,     \* ways this blocker proves its settings
  HasImport,   \* the issue carries a settings import URL
  MaxSessions, \* bound: sessions of the run
  MaxCaptures  \* bound: captures of all sessions

ASSUME EvidenceAssumption ==
  /\ Images # {} /\ IsFiniteSet(Images)
  /\ Walls \subseteq Views /\ {Clear, Blank} \subseteq Views \ Walls
  /\ Credits \subseteq {"read back", "declared"}
  /\ Readings \subseteq [presence : {"present", "absent", "indeterminate"}, view : Views]
  /\ HasImport \in BOOLEAN
  /\ {MaxSessions, MaxCaptures} \subseteq Nat

VARIABLES
  fetched,     \* fetchedIssueNumber is the run's issue
  environment, \* state of the environment selection, "none" before it
  reported,    \* every issue screenshot has been analyzed
  sessions,    \* sessionStates, in launch order
  active,      \* activeSessionId, 0 for none
  counted,     \* withheldPageCountedSessions
  budget,      \* technicalBrowserFailures of the target
  unattainable,\* parityProvenImpossible
  candidate,   \* the latest validation: its session and its verdict
  disposition  \* of the filtering environment: status of its last experiment

intakeVars == <<fetched, environment, reported>>
evidenceVars ==
  <<intakeVars, sessions, active, counted, budget, unattainable, candidate, disposition>>

Kinds == {"reported", "exact", "selected", "defaults"}   \* SettingsProfileKind
Presences == {"present", "absent", "indeterminate"}
Unset == "unset"

Capture == [complete : BOOLEAN,                 \* coverageComplete
            read     : SUBSET Images,           \* required ids vision analyzed
            presence : Presences \cup {Unset},  \* reporterSymptomPresence
            view     : Views \cup {Unset}]      \* pageObstruction

Session == [mode      : {"none", "prepared"},   \* extensionMode
            kind      : Kinds \cup {Unset},     \* selectedSettingsProfileKind
            profile   : Profiles,
            credit    : Credits \cup {Unset},   \* how the baseline was proven
            navigated : BOOLEAN,                \* navigationVerified
            refused   : BOOLEAN,                \* main document's latest status
            failed    : BOOLEAN,                \* technicalNavigationFailed
            shot      : BOOLEAN,                \* screenshots outside its captures
            captures  : Seq(Capture),           \* pageCaptures
            full      : BOOLEAN]                \* fullVisionVerified

Ids == DOMAIN sessions

Init ==
  /\ fetched = FALSE /\ environment = "none" /\ reported = FALSE
  /\ sessions = <<>> /\ active = 0
  /\ counted = {} /\ budget = NewBudget
  /\ unattainable = FALSE
  /\ candidate = [session |-> 0, verdict |-> "none"]
  /\ disposition = "none"

-----------------------------------------------------------------------------
(* What one session proves. *)

Credited(s) == s.credit # Unset

CurrentPrepared(s) == s.mode = "prepared" /\ Credited(s)

\* The launch has already refused an import URL that is not the reporter's.
TerminalPrepared(s) ==
  /\ CurrentPrepared(s)
  /\ ~HasImport \/ unattainable \/ s.kind = "reported"

RequiresReporterSettings == HasImport /\ ~unattainable

\* An incomplete capture requires no image to be read, and proves nothing.
AnalyzedCount(c) == IF c.complete THEN Cardinality(c.read) ELSE 0
WhollyRead(c) == c.complete /\ c.read = Images

\* Mutant: only the newest capture is looked at.
LatestIsRead(captures) == captures # <<>> /\ WhollyRead(captures[Len(captures)])

FullyRead(captures) == \E k \in DOMAIN captures : WhollyRead(captures[k])

\* refreshFullVisionEvidence
Refreshed(s) == [s EXCEPT !.full = s.navigated /\ FullyRead(s.captures)]

-----------------------------------------------------------------------------
(* Intake. *)

FetchIssue ==
  /\ fetched' = TRUE
  /\ UNCHANGED <<environment, reported, sessions, active, counted, budget,
                 unattainable, candidate, disposition>>

SelectEnvironment(state) ==
  /\ environment = "none"
  /\ environment' = state
  /\ UNCHANGED <<fetched, reported, sessions, active, counted, budget,
                 unattainable, candidate, disposition>>

AnalyzeIssueScreenshots ==
  /\ reported' = TRUE
  /\ UNCHANGED <<fetched, environment, sessions, active, counted, budget,
                 unattainable, candidate, disposition>>

-----------------------------------------------------------------------------
(* The browser. *)

\* A launch disposes the session before it.
MayLaunch == ~Exhausted(budget) /\ (active # 0 => ~sessions[active].failed)

NewSession(mode, kind, profile) ==
  [mode |-> mode, kind |-> kind, profile |-> profile, credit |-> Unset,
   navigated |-> FALSE, refused |-> FALSE, failed |-> FALSE, shot |-> FALSE,
   captures |-> <<>>, full |-> FALSE]

LaunchRequest(mode, kind) ==
  IF mode = "none" THEN kind = Unset
  ELSE kind # Unset /\ (kind = "reported" => HasImport)

\* The baseline ends verified or declared, unverified, or unverified because
\* the set exceeds what Chrome allows: the reporter's own set, when it does,
\* is not asked for again.
Launch(mode, kind, profile, outcome) ==
  /\ MayLaunch /\ LaunchRequest(mode, kind)
  /\ mode = "none" => outcome = Unset
  /\ sessions' = Append(sessions,
       [NewSession(mode, kind, profile) EXCEPT
          !.credit = IF outcome \in Credits THEN outcome ELSE Unset])
  /\ active' = Len(sessions')
  /\ unattainable' = (unattainable \/ (kind = "reported" /\ outcome = "over limits"))
  /\ UNCHANGED <<intakeVars, counted, budget, candidate, disposition>>

\* The browser does not start, or fails once its session is on record. The
\* session before it is gone all the same.
LaunchFails(mode, kind, profile, created) ==
  /\ MayLaunch /\ LaunchRequest(mode, kind)
  /\ sessions' = IF created THEN Append(sessions, NewSession(mode, kind, profile))
                 ELSE sessions
  /\ active' = 0
  /\ budget' = ChargeLaunch(budget, NoSignal)
  /\ UNCHANGED <<intakeVars, counted, unattainable, candidate, disposition>>

CloseBrowser ==
  /\ active # 0
  /\ active' = 0
  /\ UNCHANGED <<intakeVars, sessions, counted, budget, unattainable, candidate,
                 disposition>>

\* The session's own tools are registered and still served.
Served == active # 0 /\ ~sessions[active].failed /\ ~Exhausted(budget)

\* A page of another site, where the target redirected to, is not the target.
OpenPage(onTarget, refused) ==
  /\ Served
  /\ sessions' = [sessions EXCEPT ![active].navigated = @ \/ onTarget,
                                  ![active].refused = refused]
  /\ UNCHANGED <<intakeVars, active, counted, budget, unattainable, candidate,
                 disposition>>

OpenPageFails ==
  /\ Served
  /\ sessions' = [sessions EXCEPT ![active].failed = TRUE]
  /\ budget' = ChargePage(budget)
  /\ UNCHANGED <<intakeVars, active, counted, unattainable, candidate, disposition>>

Screenshot(complete) ==
  /\ Served
  /\ LET s == sessions[active]
         c == [complete |-> complete, read |-> {}, presence |-> Unset, view |-> Unset]
     IN sessions' = [sessions EXCEPT ![active] =
                       IF s.navigated
                       THEN Refreshed([s EXCEPT !.captures = Append(@, c)])
                       ELSE [s EXCEPT !.shot = TRUE]]
  /\ UNCHANGED <<intakeVars, active, counted, budget, unattainable, candidate,
                 disposition>>

-----------------------------------------------------------------------------
(* Vision. *)

\* countWithheldPage: once for each session, whichever capture showed it.
CountWall(i, seen) ==
  IF seen /\ i \notin counted
  THEN counted' = counted \cup {i} /\ budget' = ChargeWall(budget)
  ELSE UNCHANGED <<counted, budget>>

\* analyze_screenshot on any image of any session, closed ones included.  An
\* image outside the required ones can only show a wall.
Analyze(i, k, image, wall) ==
  /\ k \in DOMAIN sessions[i].captures
  /\ sessions[i].captures[k].complete
  /\ LET s == sessions[i]
     IN sessions' = [sessions EXCEPT ![i] =
                       Refreshed([s EXCEPT !.captures[k].read = @ \cup {image}])]
  /\ CountWall(i, wall)
  /\ UNCHANGED <<intakeVars, active, unattainable, candidate, disposition>>

AnalyzeOther(i, wall) ==
  /\ sessions[i].shot \/ sessions[i].captures # <<>>
  /\ CountWall(i, wall)
  /\ UNCHANGED <<intakeVars, sessions, active, unattainable, candidate, disposition>>

\* Vision answers an image of the capture or fails on it.
Unanswered == [presence |-> Unset, view |-> Unset]
Answers == [Images -> Readings \cup {Unanswered}]

AggregatePresence(answer, covered) ==
  IF ~covered THEN "indeterminate"
  ELSE IF \E m \in Images : answer[m].presence = "present" THEN "present"
  ELSE IF \A m \in Images : answer[m].presence = "absent" THEN "absent"
  ELSE "indeterminate"

\* One wall anywhere withholds the page; a blank tile alone does not.
AggregateView(answer) ==
  LET views == {answer[m].view : m \in Images} \ {Unset}
  IN IF views \cap Walls # {} THEN CHOOSE w \in views \cap Walls : TRUE
     ELSE IF views = {Blank} THEN Blank
     ELSE Clear

\* More observations than the inventory holds leave it inconclusive, though
\* every image was read.
InspectLatestFullPageCapture(answer, fits) ==
  LET s     == sessions[active]
      k     == Len(s.captures)
      read  == {m \in Images : answer[m] # Unanswered}
      view  == AggregateView(answer)
  IN /\ active # 0 /\ s.navigated /\ reported
     /\ k > 0 /\ s.captures[k].complete
     /\ sessions' = [sessions EXCEPT ![active] = Refreshed(
          [s EXCEPT !.captures[k] =
             [complete |-> TRUE,
              read     |-> @.read \cup read,
              presence |-> AggregatePresence(answer, read = Images /\ fits),
              view     |-> view]])]
     /\ CountWall(active, view \in Walls)
     /\ UNCHANGED <<intakeVars, active, unattainable, candidate, disposition>>

-----------------------------------------------------------------------------
(* A candidate is tried beside the active session, whose settings it uses.  *)
(* Its verdict names that session; three observed phases count as a visit.  *)
(* An environment that cannot be prepared, or fails for a limit of its own, *)
(* is limited from then on and judges nothing; one that is not selected     *)
(* yet cannot be prepared, and nothing changes.                             *)

ApplyRule(verdict, observed) ==
  /\ Served /\ reported /\ environment # "none"
  /\ CurrentPrepared(sessions[active])
  /\ disposition = "limited" => verdict = "limited"
  /\ verdict = "verified" => observed
  /\ environment' = IF verdict = "limited" THEN "limited" ELSE environment
  /\ disposition' = CASE verdict = "verified" -> "verified"
                      [] verdict = "limited"  -> "limited"
                      [] OTHER                -> "inconclusive"
  /\ IF verdict \in {"limited", "none"}
     THEN UNCHANGED <<candidate, sessions>>
     ELSE /\ candidate' = [session |-> active, verdict |-> verdict]
          /\ sessions' = [sessions EXCEPT ![active].navigated = @ \/ observed]
  /\ UNCHANGED <<fetched, reported, active, counted, budget, unattainable>>
==============================================================================
