--------------------------- MODULE TerminalJudgement ---------------------------
(***************************************************************************)
(* finish_fix: what a submitted decision must be backed by, and the advice *)
(* a refusal gives (validateTerminalOutcome).  The judgement reads the     *)
(* evidence and never changes it.  A refusal is named by its errorKind;    *)
(* of its text only the next action is kept, the part a model acts on.     *)
(***************************************************************************)
EXTENDS PageEvidence, FiniteSetsExt

VARIABLES
  decision, \* the claim finish_fix accepted, Undecided before that
  advised   \* the agent has turned to doing what the refusals tell it

judgementVars == <<evidenceVars, decision, advised>>

Resolutions == {"not_reproduced", "already_fixed_current",
                "fixed_upstream_pending_extension", "configuration_specific"}
Closings    == {"close_not_reproduced", "close_policy"}
Claims      == Resolutions \cup Closings \cup {"analysis_only", "draft_pr"}
Undecided   == "undecided"

\* What is wrong with a draft's rule before any evidence is looked at.
Flaws == {"none", "out of scope", "not insertable"}

-----------------------------------------------------------------------------
(* The vision a claim needs, and the session closest to giving it.          *)

Proven(i) == sessions[i].navigated /\ sessions[i].full

Controls         == {i \in Ids : sessions[i].mode = "none"}
TerminalSessions == {i \in Ids : TerminalPrepared(sessions[i])}

\* The latest of those with the highest score.
Best(S, score(_)) ==
  LET top == Max({score(x) : x \in S})
  IN Max({x \in S : score(x) = top})

\* A visited session is ahead of every other; then its best capture decides.
Progress(i) ==
  LET s == sessions[i]
  IN (IF s.navigated THEN 1 + Cardinality(Images) ELSE 0)
     + Max({0} \cup {AnalyzedCount(s.captures[k]) : k \in DOMAIN s.captures})

\* Zero if there is none.
SessionFor(eligible) ==
  LET proven == {i \in eligible : Proven(i)}
  IN IF eligible = {} THEN 0
     ELSE IF proven # {} THEN Max(proven)
     ELSE Best(eligible, Progress)

CaptureFor(i) ==
  LET captures == sessions[i].captures
      read     == {k \in DOMAIN captures : WhollyRead(captures[k])}
  IN IF captures = <<>> THEN 0
     ELSE IF read # {} THEN Max(read)
     ELSE Best(DOMAIN captures, LAMBDA k : AnalyzedCount(captures[k]))

\* terminalVisionRequirement: the shortest step that advances it.
NextAction(eligible) ==
  LET i == SessionFor(eligible)
      k == CaptureFor(i)
      c == sessions[i].captures[k]
  IN IF i = 0 THEN "launch_browser_and_open_page"
     ELSE IF ~sessions[i].navigated THEN "open_page"
     ELSE IF k = 0 THEN "capture_complete_page"
     ELSE IF ~c.complete THEN "capture_complete_page"
     ELSE IF WhollyRead(c) THEN "refresh_terminal_evidence"
     ELSE IF /\ AnalyzedCount(c) = 0
             /\ i = active /\ k = Len(sessions[i].captures)
          THEN "inspect_full_page_capture"
     ELSE "analyze_missing_artifacts"

\* terminalVisionRequirements and hasCompleteTerminalVision
Requirements(claim) ==
  IF claim = "already_fixed_current" THEN {Controls, TerminalSessions}
  ELSE {TerminalSessions}

HasCompleteTerminalVision(claim) ==
  \A eligible \in Requirements(claim) : \E i \in eligible : Proven(i)

-----------------------------------------------------------------------------
(* The refusals, each the errorKind of one check.                           *)

Accepted == "accepted"

Require(condition, refusal) == IF condition THEN Accepted ELSE refusal

FirstRefusal(checks) ==
  LET refusals == {k \in DOMAIN checks : checks[k] # Accepted}
  IN IF refusals = {} THEN Accepted ELSE checks[Min(refusals)]

\* Mutant: also when a session has the reporter's settings.
DiagnosticOnlyIgnoringSettings == \E i \in Ids : CurrentPrepared(sessions[i])

\* Sessions on the current build, and none with the reporter's settings.
DiagnosticOnly ==
  /\ \E i \in Ids : CurrentPrepared(sessions[i])
  /\ TerminalSessions = {}

\* validateCurrentFirstTerminalVision
CurrentFirst(claim) ==
  IF claim = "analysis_only" /\ ReportAllowed(budget) THEN Accepted
  ELSE IF \E i \in TerminalSessions : Proven(i) THEN Accepted
  ELSE IF RequiresReporterSettings /\ DiagnosticOnly
       THEN "current_reporter_settings_required"
  ELSE "current_extension_full_vision_required"

\* latestTerminalSymptomPresence: what the latest classified capture of the
\* latest session that has one shows.
Classified(i) ==
  {k \in DOMAIN sessions[i].captures :
     /\ WhollyRead(sessions[i].captures[k])
     /\ sessions[i].captures[k].presence # Unset}

LatestClassified(eligible) ==
  LET classified == {i \in eligible : sessions[i].navigated /\ Classified(i) # {}}
  IN IF classified = {} THEN 0 ELSE Max(classified)

LatestCapture(i) == sessions[i].captures[Max(Classified(i))]

Observation(eligible) ==
  LET i == LatestClassified(eligible)
  IN IF i = 0 THEN [presence |-> "missing", accessible |-> TRUE]
     ELSE [presence   |-> LatestCapture(i).presence,
           accessible |-> ~sessions[i].refused /\ LatestCapture(i).view = Clear]

\* judgeNoPatchSymptomMatrix
SymptomMatrix(claim) ==
  LET control   == Observation(Controls)
      prepared  == Observation(TerminalSessions)
      presences == {control.presence, prepared.presence}
  IN IF claim \notin {"already_fixed_current", "not_reproduced", "close_not_reproduced"}
     THEN Accepted
     ELSE FirstRefusal(<<
       Require(control.accessible /\ prepared.accessible,
               "no_patch_target_not_observable"),
       Require(IF claim = "already_fixed_current"
               THEN control.presence = "present" /\ prepared.presence = "absent"
               ELSE "absent" \in presences /\ presences \subseteq {"absent", "missing"},
               "report_only_status_evidence_mismatch") >>)

\* validateConfigurationSpecificEvidence: the reporter's profile shows the
\* symptom, the defaults do not, and nothing else differs.
ReporterSessions ==
  {i \in TerminalSessions :
     sessions[i].kind = IF RequiresReporterSettings THEN "reported" ELSE "selected"}
ControlledSessions ==
  {i \in Ids : CurrentPrepared(sessions[i]) /\ sessions[i].kind = "defaults"}

\* A proven session stands in for a classified one that is missing.
Representative(eligible) ==
  IF LatestClassified(eligible) # 0 THEN LatestClassified(eligible)
  ELSE Max({0} \cup {i \in eligible : Proven(i)})

Shows(i, presence) == Classified(i) # {} /\ LatestCapture(i).presence = presence

ConfigurationEvidence ==
  LET reporter   == Representative(ReporterSessions)
      controlled == Representative(ControlledSessions)
  IN IF reporter = 0 \/ controlled = 0
     THEN "configuration_specific_evidence_required"
     ELSE FirstRefusal(<<
       Require(sessions[reporter].profile = sessions[controlled].profile,
               "configuration_specific_environment_mismatch"),
       Require(Shows(reporter, "present") /\ Shows(controlled, "absent"),
               "configuration_specific_evidence_mismatch") >>)

-----------------------------------------------------------------------------
(* validateTerminalOutcome.                                                 *)

JudgeReport(claim) ==
  IF ~\E i \in Ids : sessions[i].navigated
  THEN Require(ReportAllowed(budget), "browser_first_evidence_required")
  ELSE IF CurrentFirst(claim) # Accepted THEN CurrentFirst(claim)
  ELSE IF claim = "analysis_only" /\ ReportAllowed(budget) THEN Accepted
  ELSE FirstRefusal(<<
    Require(HasCompleteTerminalVision(claim), "report_only_full_vision_required"),
    SymptomMatrix(claim),
    IF claim = "configuration_specific" THEN ConfigurationEvidence ELSE Accepted >>)

JudgeDraft(flaw) ==
  FirstRefusal(<<
    CurrentFirst("draft_pr"),
    Require(flaw # "out of scope", "candidate_scope_invalid"),
    Require(flaw # "not insertable", "candidate_placement_not_insertable"),
    Require(candidate.verdict = "verified", "candidate_visual_confirmation_required"),
    Require(candidate.session \in TerminalSessions,
            IF RequiresReporterSettings THEN "candidate_reporter_settings_required"
            ELSE "candidate_environment_evidence_required") >>)

Judge(claim, flaw) ==
  IF ~fetched THEN "issue_fetch_required"
  ELSE IF environment = "none" THEN "environment_selection_required"
  ELSE IF environment = "limited"
       THEN Require(claim = "analysis_only", "environment_report_only_required")
  ELSE IF ~reported THEN "issue_screenshot_analysis_required"
  ELSE IF claim = "draft_pr" THEN JudgeDraft(flaw)
  ELSE JudgeReport(claim)

Acceptable(claim) == Judge(claim, "none") = Accepted

FinishFix(claim, flaw) ==
  /\ Judge(claim, flaw) = Accepted
  /\ decision' = claim
  /\ UNCHANGED <<evidenceVars, advised>>
==============================================================================
