------------------------------ MODULE ReportRun ------------------------------
(* Runs of the agent that report on issues of one repository: a run on one   *)
(* issue, or a backlog run that selects issues and takes them in turn.  An   *)
(* action is the code between two requests to GitHub.  Meanwhile people open *)
(* issues, write, label, assign, close and fix them.                         *)
EXTENDS IssueHistory

CONSTANTS
  Issues,        \* numbers of issues, in the order they are opened
  Runs,
  MaxIssues,     \* maxIssuesPerRun
  PageSize,      \* LIST_PAGE_SIZE
  MaxAttempts,   \* MAX_BRANCH_UPDATE_ATTEMPTS
  Overlap,       \* whether two runs may work on the same issue at once
  NoCommit,
  NoRun,
  People,        \* logins that comment
  Bodies,        \* what people write: "words" or "solution"
  Labels,
  References,
  MaxTime,       \* bound on the clock
  MaxActs        \* bound on what people do

ASSUME IssuesAreNumbers == Issues \subseteq Nat /\ 0 \notin Issues /\ IsFiniteSet(Issues)
ASSUME OwnIsNoOneElse == Own \notin People
ASSUME LimitsAreNumbers ==
  /\ {MaxIssues, PageSize, MaxAttempts, MaxTime} \subseteq Nat \ {0}
  /\ MaxActs \in Nat
  /\ Overlap \in BOOLEAN

VARIABLES
  now,
  issues,    \* what GitHub holds
  branch,    \* commits of the screenshots branch, oldest first
  run,
  acts       \* number of things people did

vars == <<now, issues, branch, run, acts>>

Unopened == [opened |-> 0, updated |-> 0, open |-> FALSE, text |-> 0, labels |-> {},
             assigned |-> FALSE, references |-> {}, comments |-> <<>>]

\* welcome (history): the issue took a report at some moment since posting.
NewRun == [at |-> "idle", mode |-> "none", force |-> FALSE, captured |-> 0,
           page |-> 0, listed |-> <<>>, more |-> FALSE, taken |-> <<>>,
           issue |-> 0, facts |-> Unopened, revision |-> NoRevision,
           posting |-> FALSE, rule |-> FALSE, welcome |-> FALSE,
           head |-> 0, attempt |-> 0, commit |-> NoCommit, outcome |-> "none"]

Over(r) == [NewRun EXCEPT !.at = "over", !.mode = run[r].mode]

Comment(author, body) ==
  [author |-> author, body |-> body, edits |-> 0, at |-> now, edited |-> now,
   revision |-> NoRevision, commit |-> NoCommit, by |-> NoRun]

Opened == [Unopened EXCEPT !.opened = now, !.updated = now, !.open = TRUE]

\* Some issues are open; the reporter of the first one has added a comment.
Init ==
  /\ now = 1
  /\ \E n \in Issues : issues = [i \in Issues |->
       IF i > n THEN Unopened
       ELSE IF i = 1 THEN [Opened EXCEPT !.comments = <<Comment(Reporter, "words")>>]
       ELSE Opened]
  /\ branch = <<>>
  /\ run = [r \in Runs |-> NewRun]
  /\ acts = 0

-----------------------------------------------------------------------------
(* Starting a run.  Unless Overlap, a backlog run works alone and a run on   *)
(* one issue has it for itself.                                              *)

Active == {r \in Runs : run[r].at \notin {"idle", "over"}}

StartIssue(r, i) ==
  /\ run[r].at = "idle"
  /\ issues[i].opened > 0
  /\ Overlap \/ \A s \in Active : run[s].mode = "single" /\ run[s].issue # i
  /\ \E force \in BOOLEAN :
       run' = [run EXCEPT ![r] = [NewRun EXCEPT !.at = "fetching", !.mode = "single",
                                                !.force = force, !.issue = i]]
  /\ UNCHANGED <<now, issues, branch, acts>>

StartBacklog(r) ==
  /\ run[r].at = "idle"
  /\ Overlap \/ Active = {}
  /\ run' = [run EXCEPT ![r] = [NewRun EXCEPT !.at = "listing", !.mode = "backlog",
                                              !.captured = now, !.page = 1]]
  /\ UNCHANGED <<now, issues, branch, acts>>

-----------------------------------------------------------------------------
(* selectBacklogIssues. *)

\* Open issues newest first, as the listing pages them.
Listings ==
  LET numbers == {i \in Issues : issues[i].open}
  IN  {s \in [1 .. Cardinality(numbers) -> numbers] :
         \A j, k \in DOMAIN s : j < k => s[j] > s[k]}

PageOf(listing, page) ==
  LET first == (page - 1) * PageSize
      rest  == Len(listing) - first
  IN  [k \in 1 .. (IF rest > PageSize THEN PageSize ELSE IF rest > 0 THEN rest ELSE 0) |->
         listing[first + k]]

ReadOpenIssuePage(r) ==
  /\ run[r].at = "listing"
  /\ \E listing \in Listings :
       LET items == PageOf(listing, run[r].page)
       IN  run' = [run EXCEPT ![r].at = "visiting",
                              ![r].listed = [k \in DOMAIN items |->
                                               [number |-> items[k], issue |-> issues[items[k]]]],
                              ![r].more = Len(items) = PageSize]
  /\ UNCHANGED <<now, issues, branch, acts>>

\* The comments are read now, the rest of the issue when it was listed.
Visit(r) ==
  /\ run[r].at = "visiting"
  /\ run[r].listed # <<>>
  /\ Len(run[r].taken) < MaxIssues
  /\ LET summary == Head(run[r].listed).issue
         number  == Head(run[r].listed).number
         history == IF summary.comments = <<>> THEN <<>> ELSE issues[number].comments
         due     == Considered(summary, run[r].captured) /\ Due(summary, history, run[r].captured)
     IN  run' = [run EXCEPT ![r].listed = Tail(@),
                            ![r].taken = IF due THEN Append(@, number) ELSE @]
  /\ UNCHANGED <<now, issues, branch, acts>>

EndOfPage(r) ==
  /\ run[r].at = "visiting"
  /\ run[r].listed = <<>> \/ Len(run[r].taken) = MaxIssues
  /\ IF run[r].more /\ Len(run[r].taken) < MaxIssues
     THEN run' = [run EXCEPT ![r].at = "listing", ![r].page = @ + 1]
     ELSE run' = [run EXCEPT ![r].at = "next", ![r].listed = <<>>, ![r].page = 0,
                             ![r].captured = 0]
  /\ UNCHANGED <<now, issues, branch, acts>>

\* A read fails: the run seals as a failed prerequisite.
SelectionFails(r) ==
  /\ run[r].at \in {"listing", "visiting"}
  /\ run' = [run EXCEPT ![r] = Over(r)]
  /\ UNCHANGED <<now, issues, branch, acts>>

-----------------------------------------------------------------------------
(* The backlog loop. *)

TakeNext(r) ==
  /\ run[r].at = "next"
  /\ run[r].taken # <<>>
  /\ run' = [run EXCEPT ![r].at = "fetching", ![r].issue = Head(run[r].taken), ![r].taken = Tail(@)]
  /\ UNCHANGED <<now, issues, branch, acts>>

\* Every issue was taken, or the rest is left: an issue no longer fits into
\* what remains of the loop's budget.
SealBacklog(r) ==
  /\ run[r].at = "next"
  /\ run' = [run EXCEPT ![r] = Over(r)]
  /\ UNCHANGED <<now, issues, branch, acts>>

\* The run of one issue has an outcome; its checkout is still to be removed.
Conclude(r, outcome) ==
  run' = [run EXCEPT ![r] =
    [NewRun EXCEPT !.at = "removing", !.mode = run[r].mode, !.taken = run[r].taken,
                   !.issue = run[r].issue, !.revision = run[r].revision, !.outcome = outcome]]

RemoveCheckout(r) ==
  /\ run[r].at = "removing"
  /\ run' = [run EXCEPT ![r] =
       IF @.mode = "backlog"
       THEN [NewRun EXCEPT !.at = "next", !.mode = "backlog", !.taken = run[r].taken]
       ELSE Over(r)]
  /\ UNCHANGED <<now, issues, branch, acts>>

\* The job is cancelled, or an error no code maps to an outcome (the checkout
\* cannot be removed, an artifact cannot be written) ends the run and its loop.
Stop(r) ==
  /\ r \in Active
  /\ run' = [run EXCEPT ![r] = Over(r)]
  /\ UNCHANGED <<now, issues, branch, acts>>

-----------------------------------------------------------------------------
(* runDefaultSingleIssue up to the pre-run check. *)

\* An instruction that is missing or refused ends the run as an issue that
\* cannot be read does.
PreparationFails(r) ==
  /\ run[r].at = "fetching"
  /\ Conclude(r, "failed")
  /\ UNCHANGED <<now, issues, branch, acts>>

\* fetchIssue asks for the issue first and for its comments afterwards.
FetchIssue(r) ==
  /\ run[r].at = "fetching"
  /\ run' = [run EXCEPT ![r].at = "reading", ![r].facts = issues[run[r].issue]]
  /\ UNCHANGED <<now, issues, branch, acts>>

FetchComments(r) ==
  /\ run[r].at = "reading"
  /\ LET read == [run[r].facts EXCEPT !.comments = issues[run[r].issue].comments]
     IN  IF ExclusionSignals(read.labels) # {}
         THEN Conclude(r, "not reported")
         ELSE run' = [run EXCEPT ![r].at = "finding", ![r].facts = Unopened,
                                 ![r].revision = RevisionDigest(read)]
  /\ UNCHANGED <<now, issues, branch, acts>>

-----------------------------------------------------------------------------
(* What is asked before the run pays for anything, and again right before    *)
(* posting.  Before the run the own report is looked for first, then the     *)
(* guard decides; before posting the guard comes first.                      *)

FindReport(r) ==
  /\ run[r].at = "finding"
  /\ LET found == FindRevisionReport(issues[run[r].issue].comments, run[r].revision)
     IN  IF found
         THEN Conclude(r, "already reported")
         ELSE run' = [run EXCEPT ![r].at = IF ~run[r].posting THEN "guarding"
                                           ELSE IF run[r].rule THEN "hosting"
                                           ELSE "commenting"]
  /\ UNCHANGED <<now, issues, branch, acts>>

\* readIssuePublicationFacts: the issue first, then its timeline.
PublicationFacts(earlier, later) ==
  [earlier EXCEPT !.references = later.references, !.comments = later.comments]

ReadIssue(r) ==
  /\ run[r].at = "guarding"
  /\ run' = [run EXCEPT ![r].at = "watching", ![r].facts = issues[run[r].issue]]
  /\ UNCHANGED <<now, issues, branch, acts>>

ReadTimeline(r) ==
  /\ run[r].at = "watching"
  /\ LET facts == PublicationFacts(run[r].facts, issues[run[r].issue])
     IN  IF Silenced(facts, run[r].force)
         THEN Conclude(r, "not reported")
         ELSE run' = [run EXCEPT ![r].at = IF run[r].posting THEN "finding" ELSE "working",
                                 ![r].facts = Unopened]
  /\ UNCHANGED <<now, issues, branch, acts>>

\* A request fails, or the token's identity cannot be resolved.
RequestFails(r) ==
  /\ run[r].at \in {"reading", "finding", "guarding", "watching"}
  /\ Conclude(r, "failed")
  /\ UNCHANGED <<now, issues, branch, acts>>

-----------------------------------------------------------------------------
(* Intake and investigation, the longest part of a run: what it brings.      *)

\* An issue takes a report: it is open, may be worked on, nobody fixed it, and
\* nobody is at it or a maintainer asked for the run.
TakesReport(issue, force) ==
  /\ issue.open
  /\ issue.labels \cap ExcludedLabels = {}
  /\ issue.references \cap Fixes = {}
  /\ \/ force
     \/ /\ ~issue.assigned
        /\ issue.labels \cap InProgressLabels = {}
        /\ \A c \in Range(issue.comments) : c.author \in Trusted => c.author \in {Own} \cup Bots

Work(r) ==
  /\ run[r].at = "working"
  /\ \/ Conclude(r, "failed")
     \/ Conclude(r, "not reported")
     \/ \E rule \in BOOLEAN :
          run' = [run EXCEPT ![r].at = "guarding", ![r].posting = TRUE, ![r].rule = rule,
                             ![r].welcome = TakesReport(issues[run[r].issue], run[r].force)]
  /\ UNCHANGED <<now, issues, branch, acts>>

-----------------------------------------------------------------------------
(* publishReportOnce: the screenshots of a verified rule are committed to a  *)
(* branch, then the comment is posted.                                       *)

ReadBranchHead(r) ==
  /\ run[r].at = "hosting"
  /\ run' = [run EXCEPT ![r].at = "updating", ![r].head = Len(branch),
                         ![r].attempt = @ + 1]
  /\ UNCHANGED <<now, issues, branch, acts>>

\* Mutant: the reference is moved by force.
ForcedUpdate(r, commit) ==
  branch' = Append(SubSeq(branch, 1, run[r].head), commit)

\* The reference moves only forward from the head the commit was built on.
UpdateRef(r, commit) ==
  /\ run[r].head = Len(branch)
  /\ branch' = Append(branch, commit)

HostScreenshots(r) ==
  LET commit == <<r, run[r].issue>>
  IN  /\ run[r].at = "updating"
      /\ UpdateRef(r, commit)
      /\ run' = [run EXCEPT ![r].at = "commenting", ![r].commit = commit]
      /\ UNCHANGED <<now, issues, acts>>

\* Another run moved the branch: read its head again, up to MaxAttempts.
RefConflict(r) ==
  /\ run[r].at = "updating"
  /\ run[r].head # Len(branch)
  /\ IF run[r].attempt < MaxAttempts
     THEN run' = [run EXCEPT ![r].at = "hosting"]
     ELSE Conclude(r, "failed")
  /\ UNCHANGED <<now, issues, branch, acts>>

\* Without permission for the branch the report posts without screenshots.
HostingFails(r) ==
  /\ run[r].at \in {"hosting", "updating"}
  /\ \/ run' = [run EXCEPT ![r].at = "commenting"]
     \/ Conclude(r, "failed")
  /\ UNCHANGED <<now, issues, branch, acts>>

Report(r) ==
  [Comment(Own, IF run[r].rule THEN "solution" ELSE "words") EXCEPT
     !.revision = run[r].revision, !.commit = run[r].commit, !.by = r]

Posts(r) ==
  /\ run[r].at = "commenting"
  /\ issues' = [issues EXCEPT ![run[r].issue].comments = Append(@, Report(r)),
                              ![run[r].issue].updated = now]

CreateComment(r) ==
  /\ Posts(r)
  /\ Conclude(r, "posted")
  /\ UNCHANGED <<now, branch, acts>>

\* The comment is created and the answer is lost.
AnswerLost(r) ==
  /\ Posts(r)
  /\ Conclude(r, "failed")
  /\ UNCHANGED <<now, branch, acts>>

\* Mutant: a publication that fails is recorded as one.
CommentAssumed(r) ==
  /\ run[r].at = "commenting"
  /\ Conclude(r, "posted")
  /\ UNCHANGED <<now, issues, branch, acts>>

CommentRefused(r) ==
  /\ run[r].at = "commenting"
  /\ Conclude(r, "failed")
  /\ UNCHANGED <<now, issues, branch, acts>>

-----------------------------------------------------------------------------
(* People, and time.  Any change of an issue moves its updated_at.           *)

Act == acts < MaxActs /\ acts' = acts + 1

Touch(i, changed) ==
  /\ Act
  /\ issues[i].opened > 0
  /\ issues' = [issues EXCEPT ![i] = [changed EXCEPT !.updated = now]]
  /\ run' = [r \in Runs |->
               IF run[r].posting /\ run[r].issue = i
               THEN [run[r] EXCEPT !.welcome = @ \/ TakesReport(changed, run[r].force)]
               ELSE run[r]]
  /\ UNCHANGED <<now, branch>>

OpenIssue(i) ==
  /\ Act
  /\ issues[i].opened = 0
  /\ \A j \in Issues : j < i => issues[j].opened > 0
  /\ issues' = [issues EXCEPT ![i] = [@ EXCEPT !.opened = now, !.updated = now, !.open = TRUE]]
  /\ UNCHANGED <<now, branch, run>>

EditBody(i) == Touch(i, [issues[i] EXCEPT !.text = @ + 1])

Say(i) ==
  \E p \in People, body \in Bodies :
    Touch(i, [issues[i] EXCEPT !.comments = Append(@, Comment(p, body))])

EditComment(i) ==
  \E k \in DOMAIN issues[i].comments :
    /\ issues[i].comments[k].author # Own
    /\ Touch(i, [issues[i] EXCEPT !.comments[k].edits = @ + 1, !.comments[k].edited = now])

Label(i) ==
  \E l \in Labels :
    Touch(i, [issues[i] EXCEPT !.labels = IF l \in @ THEN @ \ {l} ELSE @ \cup {l}])

Assign(i) == Touch(i, [issues[i] EXCEPT !.assigned = ~@])

CloseOrReopen(i) == Touch(i, [issues[i] EXCEPT !.open = ~@])

Reference(i) ==
  \E f \in References \ issues[i].references :
    Touch(i, [issues[i] EXCEPT !.references = @ \cup {f}])

Tick ==
  /\ now < MaxTime
  /\ now' = now + 1
  /\ UNCHANGED <<issues, branch, run, acts>>

-----------------------------------------------------------------------------
RunStep(r) ==
  \/ ReadOpenIssuePage(r) \/ Visit(r) \/ EndOfPage(r) \/ SelectionFails(r)
  \/ TakeNext(r) \/ SealBacklog(r) \/ RemoveCheckout(r)
  \/ PreparationFails(r) \/ FetchIssue(r) \/ FetchComments(r)
  \/ FindReport(r) \/ ReadIssue(r) \/ ReadTimeline(r) \/ RequestFails(r)
  \/ Work(r)
  \/ ReadBranchHead(r) \/ HostScreenshots(r) \/ RefConflict(r) \/ HostingFails(r)
  \/ CreateComment(r) \/ AnswerLost(r) \/ CommentRefused(r)

PeopleStep(i) ==
  \/ OpenIssue(i) \/ EditBody(i) \/ Say(i) \/ EditComment(i)
  \/ Label(i) \/ Assign(i) \/ CloseOrReopen(i) \/ Reference(i)

Next ==
  \/ \E r \in Runs : StartBacklog(r) \/ Stop(r) \/ RunStep(r)
  \/ \E r \in Runs, i \in Issues : StartIssue(r, i)
  \/ \E i \in Issues : PeopleStep(i)
  \/ Tick

Spec == Init /\ [][Next]_vars

-----------------------------------------------------------------------------
(* Properties. *)

\* Every variable has its type.
TypeOK ==
  /\ now \in 1 .. MaxTime
  /\ \A i \in Issues : issues[i].opened <= issues[i].updated /\ issues[i].updated <= now
  /\ branch \in Seq(Runs \X Issues)
  /\ \A r \in Runs : run[r].issue \in Issues \cup {0}
  /\ acts \in 0 .. MaxActs

Reports(i) == {k \in DOMAIN issues[i].comments : IsOwnReport(issues[i].comments[k])}

\* One revision of an issue gets one report, however runs fail between the
\* creation of the comment and its record, are repeated, or select the issue
\* again (publishReportOnce, checkIssueBeforeRun).
ReportedOnce ==
  \A i \in Issues : \A j, k \in Reports(i) :
    issues[i].comments[j].revision = issues[i].comments[k].revision => j = k

\* The report a run posts changes nothing that the next run takes for the
\* revision of the issue (fetchedIssueRevisionDigest).
OwnReportKeepsRevision ==
  [][\A r \in Runs : Posts(r) =>
       LET i == run[r].issue IN RevisionDigest(issues'[i]) = RevisionDigest(issues[i])]_vars

\* A report is posted only if, at some moment since the investigation ended,
\* nothing on the issue stood in its way (publishGuardedReport).
PostedWasWelcome ==
  [][\A r \in Runs : Posts(r) => run[r].welcome]_vars

\* The reports of i up to the k-th that lie in the rolling window before it.
WindowOf(i, k) ==
  {j \in Reports(i) : j <= k /\ issues[i].comments[j].at >= issues[i].comments[k].at - Window}

\* A backlog run never adds a report to an issue on which the others have spent
\* the budget of the rolling window (selectBacklogIssues).
RevisionsAreBudgeted ==
  \A i \in Issues : \A k \in Reports(i) :
    LET by == issues[i].comments[k].by
    IN  run[by].mode = "backlog" =>
          Cardinality({j \in WindowOf(i, k) : issues[i].comments[j].by # by}) < MaxRevisions

\* The budget as action.yml states it. An issue that the paging of the list has
\* shown twice is taken twice, and both of its reports rest on one count.
BudgetIsKept ==
  \A i \in Issues : \A k \in Reports(i) :
    run[issues[i].comments[k].by].mode = "backlog" => Cardinality(WindowOf(i, k)) <= MaxRevisions

\* The screenshots a report shows stay on the branch, whatever other runs add
\* to it (hostReportScreenshots).
LinksResolve ==
  \A i \in Issues : \A k \in Reports(i) :
    issues[i].comments[k].commit \in {NoCommit} \cup Range(branch)

\* What a run records of an issue is what happened: a publication it records is
\* there, and without one it posted nothing, unless the answer to its own post
\* was lost (runDefaultSingleIssue).
OutcomesAreTrue ==
  \A r \in Runs : run[r].at = "removing" =>
    LET reports == {issues[run[r].issue].comments[k] : k \in Reports(run[r].issue)}
        mine    == {c \in reports : c.by = r /\ c.revision = run[r].revision}
    IN  CASE run[r].outcome = "posted" -> mine # {}
          [] run[r].outcome = "already reported" -> \E c \in reports : c.revision = run[r].revision
          [] run[r].outcome = "not reported" -> mine = {}
          [] OTHER -> TRUE
=============================================================================
