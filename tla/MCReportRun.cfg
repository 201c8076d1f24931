CONSTANTS
  own = own
  reporter = reporter
  member = member
  Own = own
  Reporter = reporter
  Trusted = {member}
  Bots = {own}
  ExcludedLabels = {"nsfw"}
  InProgressLabels = {}
  WantedLabels = {}
  Fixes = {"pull request"}
  NoCommit = NoCommit
  NoRun = NoRun
  MaxAge = 9
  MaxRevisions = 1
  Window = 1
  Issues = {1, 2}
  Runs = {r1, r2}
  MaxIssues = 2
  PageSize = 1
  MaxAttempts = 2
  Overlap = FALSE
  People = {reporter, member}
  Bodies = {"words"}
  Labels = {"nsfw"}
  References = {"pull request", "mirror"}
  MaxTime = 2
  MaxActs = 1
SPECIFICATION Spec
SYMMETRY Symmetric
CHECK_DEADLOCK FALSE
INVARIANTS
  ReportedOnce
  RevisionsAreBudgeted
  LinksResolve
  OutcomesAreTrue
PROPERTIES
  OwnReportKeepsRevision
  PostedWasWelcome
