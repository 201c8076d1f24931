---------------------------- MODULE IssueHistory ----------------------------
(* What the agent reads of an issue on GitHub and what it concludes: which   *)
(* comments belong to the revision it works on, whether that revision was    *)
(* reported, whether a report may still be posted, and whether the issue is  *)
(* due in a backlog run.  Pure operators: an issue is a record               *)
(*   [opened, updated, open, text, labels, assigned, references, comments]   *)
(* with times as numbers, and a comment is a record                          *)
(*   [author, body, edits, at, edited, revision, commit, by]                 *)
(* whose revision is that of its report marker, whose commit is the one its  *)
(* screenshots are linked at, and whose by (history) is the run that posted. *)
EXTENDS Integers, Sequences, FiniteSets, SequencesExt, FiniteSetsExt

CONSTANTS
  Own,                \* login the runs' reports post as
  Reporter,           \* login that opened the issues
  Trusted,            \* logins with one of the trusted associations
  Bots,               \* accounts recognised as automation
  ExcludedLabels,     \* labels the run never reports on
  InProgressLabels,   \* labels a maintainer applies on picking an issue up
  WantedLabels,       \* labels the instruction's selection requires
  Fixes,              \* references by a commit or a pull request of the repository
  MaxAge,             \* the instruction's maximum age of an issue
  MaxRevisions,       \* maxRevisionsPerWindow
  Window              \* revisionWindowMs

ASSUME QueueAssumption == MaxAge \in Nat /\ MaxRevisions \in Nat \ {0} /\ Window \in Nat

-----------------------------------------------------------------------------
(* The revision: fetchIssue keeps the words of the reporter and of trusted   *)
(* people, without automation and without comments that hold a solution.     *)

IsBot(author) == author \in Bots

PromptSafe(c) ==
  /\ ~IsBot(c.author)
  /\ c.author = Reporter \/ c.author \in Trusted
  /\ c.body # "solution"

\* A comment is named by its place, and comments only come after: two reads of
\* an issue keep the same words exactly if they keep them at the same places.
Kept(comments) ==
  [k \in {j \in DOMAIN comments : PromptSafe(comments[j])} |->
     [author |-> comments[k].author, edits |-> comments[k].edits, at |-> comments[k].at]]

\* Mutant: the first projection, which hashed the time of the last change.
UpdatedDigest(read) == <<read.text, read.updated>>

\* The digest is collision-free, so it is the content it hashes.
RevisionDigest(read) == <<read.text, Kept(read.comments)>>

-----------------------------------------------------------------------------
(* Own reports. *)

\* What a comment names as its revision that holds no report marker, or more
\* than one; the revision of an issue is its words, and never this.
NoRevision == <<>>

IsOwnReport(c) == c.author = Own /\ c.revision # NoRevision

\* Mutant: only the latest comment of the thread is looked at.
FindLastReport(comments, revision) ==
  /\ comments # <<>>
  /\ IsOwnReport(Last(comments)) /\ Last(comments).revision = revision

FindRevisionReport(comments, revision) ==
  \E c \in Range(comments) : IsOwnReport(c) /\ c.revision = revision

-----------------------------------------------------------------------------
(* The publication guard over a snapshot of the issue.  A run a maintainer   *)
(* triggered sets the maintainer's silence aside, never the others.          *)

ExclusionSignals(labels) == labels \cap ExcludedLabels

FixSignals(facts) == facts.references \cap Fixes

EngagementSignals(facts) ==
  \/ \E c \in Range(facts.comments) :
       ~IsBot(c.author) /\ c.author # Own /\ c.author \in Trusted
  \/ facts.assigned
  \/ facts.labels \cap InProgressLabels # {}

\* Mutant: the force of a maintainer lifts every silence.
ForceLiftsAll(facts, force) ==
  /\ ~force
  /\ \/ ExclusionSignals(facts.labels) # {}
     \/ ~facts.open
     \/ FixSignals(facts) # {}
     \/ EngagementSignals(facts)

Silenced(facts, force) ==
  \/ ExclusionSignals(facts.labels) # {}
  \/ ~facts.open
  \/ FixSignals(facts) # {}
  \/ ~force /\ EngagementSignals(facts)

-----------------------------------------------------------------------------
(* The backlog: summary is the issue as the listing showed it, comments is   *)
(* its history read later, captured the time the run began.                  *)

NarrowedOut(summary, captured) ==
  ~(WantedLabels \subseteq summary.labels) \/ summary.opened < captured - MaxAge

Considered(summary, captured) ==
  ExclusionSignals(summary.labels) = {} /\ ~NarrowedOut(summary, captured)

InWindow(comments, captured) ==
  {k \in DOMAIN comments : IsOwnReport(comments[k]) /\ comments[k].at >= captured - Window}

\* Mutant: the budget allows one report too many.
BudgetOverspent(comments, captured) == Cardinality(InWindow(comments, captured)) > MaxRevisions

\* Enough reports lie inside the rolling window before the run began.
BudgetSpent(comments, captured) == Cardinality(InWindow(comments, captured)) >= MaxRevisions

Changed(c) == IF c.edited > c.at THEN c.edited ELSE c.at

Reselected(summary, comments) ==
  LET reported == Max({c.at : c \in {d \in Range(comments) : IsOwnReport(d)}})
      last     == Max({Changed(c) : c \in Range(comments)})
  IN  \/ \E c \in Range(comments) :
           (c.author = Reporter \/ c.author \in Trusted) /\ Changed(c) > reported
      \/ summary.updated > reported /\ summary.updated > last

Due(summary, comments, captured) ==
  \/ ~\E c \in Range(comments) : IsOwnReport(c)
  \/ ~BudgetSpent(comments, captured) /\ Reselected(summary, comments)
=============================================================================
