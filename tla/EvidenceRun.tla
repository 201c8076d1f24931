------------------------------ MODULE EvidenceRun ------------------------------
(***************************************************************************)
(* A run of the agent over its evidence: any tool in any order, then, if   *)
(* it likes, the advice of finish_fix to the letter, then the record.      *)
(***************************************************************************)
EXTENDS NoPatchRecord

CONSTANT World   \* bound: what the agent may meet in this instance

ASSUME WorldAssumption ==
  World \in [mishaps  : SUBSET {"launch", "page", "wall"},  \* what fails or withholds
            launches : SUBSET ({"none", "prepared"} \X (Kinds \cup {Unset})), \* mode and kind
            onTarget : SUBSET BOOLEAN,   \* whether navigation ends at the target
            refused  : SUBSET BOOLEAN,   \* whether its server refuses the document
            complete : SUBSET BOOLEAN,   \* whether a capture covers the page
            fits     : SUBSET BOOLEAN,   \* whether an inventory holds what was seen
            verdicts : SUBSET {"limited", "none", "rejected", "verified"}]  \* of a candidate

vars == <<judgementVars, record>>

-----------------------------------------------------------------------------
(* Any call of any tool. *)

Outcomes == Credits \cup {Unset, "over limits"}

CaptureCount == FoldSet(LAMBDA i, n : n + Len(sessions[i].captures), 0, Ids)

Intake ==
  \/ FetchIssue
  \/ \E state \in {"ready", "limited"} : SelectEnvironment(state)
  \/ AnalyzeIssueScreenshots

Browse ==
  \/ /\ Len(sessions) < MaxSessions
     /\ \E asked \in World.launches, p \in Profiles :
          \/ \E outcome \in Outcomes : Launch(asked[1], asked[2], p, outcome)
          \/ /\ "launch" \in World.mishaps
             /\ \E created \in BOOLEAN : LaunchFails(asked[1], asked[2], p, created)
  \/ CloseBrowser
  \/ \E onTarget \in World.onTarget, refused \in World.refused : OpenPage(onTarget, refused)
  \/ "page" \in World.mishaps /\ OpenPageFails
  \/ CaptureCount < MaxCaptures /\ \E complete \in World.complete : Screenshot(complete)
  \/ \E verdict \in World.verdicts, observed \in BOOLEAN :
       ApplyRule(verdict, observed)

See ==
  \/ \E i \in Ids, image \in Images, wall \in {FALSE, "wall" \in World.mishaps} :
       \/ \E k \in 1..MaxCaptures : Analyze(i, k, image, wall)
       \/ AnalyzeOther(i, wall)
  \/ \E answer \in Answers, fits \in World.fits : InspectLatestFullPageCapture(answer, fits)

\* Bound: the agent takes in the issue before it browses.  finish_fix asks for
\* the intake first, and browsing does not change it.
IntakeDone == fetched /\ environment = "ready" /\ reported

AgentStep ==
  /\ decision = Undecided /\ ~advised
  /\ \/ /\ IF IntakeDone THEN Browse \/ See ELSE Intake
        /\ UNCHANGED <<decision, advised>>
     \/ \E claim \in Claims, flaw \in Flaws : FinishFix(claim, flaw)
  /\ UNCHANGED record

-----------------------------------------------------------------------------
(* Calls that do what the refusal of an analysis-only report asks for, and *)
(* that succeed: the launch proves its settings, or proves that they       *)
(* exceed the limits; the page opens; captures are complete; vision        *)
(* answers.  A closed session cannot be resumed, so advice to continue in  *)
(* one is followed in a new session.                                       *)

Advice == Judge("analysis_only", "none")

TakeAdvice ==
  /\ decision = Undecided /\ ~advised
  /\ advised' = TRUE
  /\ UNCHANGED <<evidenceVars, decision, record>>

\* Advised launches: one that proves the limits, one after it.
LaunchesLeft == Len(sessions) < MaxSessions + 3

LaunchAsAdvised ==
  IF active # 0 THEN CloseBrowser
  ELSE /\ LaunchesLeft
       /\ \E p \in Profiles :
            IF RequiresReporterSettings
            THEN \E outcome \in Credits \cup {"over limits"} :
                   Launch("prepared", "reported", p, outcome)
            ELSE \E outcome \in Credits : Launch("prepared", "selected", p, outcome)

Resumable == active \in TerminalSessions /\ ~sessions[active].failed

AdvanceVision ==
  LET next == NextAction(TerminalSessions)
      i    == SessionFor(TerminalSessions)
      k    == CaptureFor(i)
  IN CASE next = "inspect_full_page_capture" ->
            \E answer \in [Images -> Readings] : InspectLatestFullPageCapture(answer, TRUE)
       [] next = "analyze_missing_artifacts" ->
            \E image \in Images \ sessions[i].captures[k].read : Analyze(i, k, image, FALSE)
       [] OTHER ->
            IF ~Resumable THEN LaunchAsAdvised
            ELSE IF ~sessions[active].navigated THEN OpenPage(TRUE, FALSE)
            ELSE Screenshot(TRUE)

DoAsAdvised ==
  \/ Advice = "issue_fetch_required" /\ FetchIssue
  \/ Advice = "environment_selection_required" /\ SelectEnvironment("ready")
  \/ Advice = "issue_screenshot_analysis_required" /\ AnalyzeIssueScreenshots
  \/ Advice = "current_reporter_settings_required" /\ LaunchAsAdvised
  \/ /\ Advice \in {"browser_first_evidence_required",
                    "current_extension_full_vision_required"}
     /\ AdvanceVision

FollowAdvice ==
  /\ decision = Undecided /\ advised
  /\ \/ DoAsAdvised /\ UNCHANGED <<decision, advised>>
     \/ FinishFix("analysis_only", "none")
  /\ UNCHANGED record

-----------------------------------------------------------------------------

RunInit ==
  /\ Init
  /\ decision = Undecided /\ advised = FALSE /\ record = NoRecord

Next == AgentStep \/ TakeAdvice \/ FollowAdvice \/ Publish

Spec == RunInit /\ [][Next]_vars

\* The agent goes its own way to the end.
UnadvisedSpec == RunInit /\ [][AgentStep \/ Publish]_vars

\* Fairness of the agent, not of the code: once it follows the advice it does
\* not stop doing so.
FairSpec == Spec /\ WF_vars(FollowAdvice)
-----------------------------------------------------------------------------
(* Properties. *)

\* Every session is a record of AgentRuntimeSessionState, and its flags agree
\* with what they are computed from.
TypeOK ==
  /\ {fetched, reported, unattainable, advised} \subseteq BOOLEAN
  /\ environment \in {"none", "ready", "limited"}
  /\ Len(sessions) <= MaxSessions + 3
  /\ \A i \in Ids : sessions[i] \in Session /\ (sessions[i].full => sessions[i].navigated)
  /\ active \in {0, Len(sessions)}
  /\ counted \subseteq Ids
  /\ budget \in Budget
  /\ disposition \in {"none", "limited", "inconclusive", "verified"}
  /\ candidate \in [session : {0} \cup Ids, verdict : {"none", "rejected", "verified"}]
  /\ decision \in Claims \cup {Undecided}
  /\ record \in [status : Resolutions \cup {"none", "unavailable", "failed"},
                verification : {"unavailable", "partial", "verified"}, parses : BOOLEAN]

\* What the agent did later never takes away an answer finish_fix would have
\* accepted: a report stays acceptable whatever is launched, captured or walled
\* after it, and so does a draft until its candidate is judged again or the
\* environment turns out to be limited.
AcceptanceIsStable ==
  [][ decision' = Undecided =>
        /\ Acceptable("analysis_only") => Acceptable("analysis_only")'
        /\ /\ Acceptable("draft_pr")
           /\ candidate' = candidate /\ environment' = environment
           => Acceptable("draft_pr")' ]_vars

\* An agent that does what each refusal asks for ends with an accepted report,
\* from any evidence: no refusal sends it round in a circle (the loop that
\* validateCurrentFirstTerminalVision warns of).
AdviceConverges == advised ~> decision # Undecided

\* A claim finish_fix accepted on evidence is the claim of the record, as
\* verified as that evidence makes it, when no environment replaced it: the
\* core and the schema, each with predicates of its own, agree with the gate.
AcceptedClaimIsCarried ==
  record # NoRecord /\ Usable /\ disposition = "none" =>
    /\ record.parses
    /\ record.status = StatusOf(decision)
    /\ decision # "fixed_upstream_pending_extension" => record.verification = "verified"

\* The core's promise to lower a claim rather than fail the run: whatever
\* record an accepted claim leads to, the schema takes it.
RecordParses == record.parses
==============================================================================
