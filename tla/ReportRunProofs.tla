--------------------------- MODULE ReportRunProofs ---------------------------
(***************************************************************************)
(* Proofs about ReportRun, for every set of issues, runs and people, every *)
(* limit and every bound on what people do.                                *)
(***************************************************************************)
EXTENDS ReportRun, FiniteSetTheorems, SequenceTheorems, TLAPS

Authors == People \cup {Own, Reporter}
Texts   == Bodies \cup {"words", "solution"}

\* The words a revision keeps, by the places of their comments.
Words     == [author : Authors, edits : Nat, at : Nat]
Revisions == (Nat \X UNION {[D -> Words] : D \in SUBSET Nat}) \cup {NoRevision}

Hosted  == Runs \X Issues
Commits == Hosted \cup {NoCommit}

CommentOf == [author : Authors, body : Texts, edits : Nat, at : Nat, edited : Nat,
              revision : Revisions, commit : Commits, by : Runs \cup {NoRun}]

IssueOf == [opened : Nat, updated : Nat, open : BOOLEAN, text : Nat, labels : SUBSET Labels,
            assigned : BOOLEAN, references : SUBSET References, comments : Seq(CommentOf)]

Stations == {"idle", "listing", "visiting", "next", "fetching", "reading", "finding",
             "guarding", "watching", "working", "hosting", "updating", "commenting",
             "removing", "over"}

Outcomes == {"none", "failed", "not reported", "already reported", "posted"}

RunOf == [at : Stations, mode : {"none", "single", "backlog"}, force : BOOLEAN,
          captured : Nat, page : Nat, listed : Seq([number : Issues, issue : IssueOf]),
          more : BOOLEAN, taken : Seq(Issues), issue : Issues \cup {0}, facts : IssueOf,
          revision : Revisions, posting : BOOLEAN, rule : BOOLEAN, welcome : BOOLEAN,
          head : Nat, attempt : Nat, commit : Commits, outcome : Outcomes]

Typed ==
  /\ now \in 1 .. MaxTime
  /\ issues \in [Issues -> IssueOf]
  /\ branch \in Seq(Hosted)
  /\ run \in [Runs -> RunOf]
  /\ acts \in 0 .. MaxActs

\* A run that works on something has an issue; one that lists issues, a page.
WorkStations == {"fetching", "reading", "finding", "guarding", "watching", "working",
                 "hosting", "updating", "commenting", "removing"}

Sane(x) ==
  /\ x.at \in WorkStations => x.issue \in Issues
  /\ x.at \in {"listing", "visiting"} => x.page >= 1

Placed == \A r \in Runs : Sane(run[r])
------------------------------------------------------------------------------
(* Types *)

\* The fields of a run.
LEMMA RunFields ==
  ASSUME NEW x \in RunOf
  PROVE  /\ x.at \in Stations /\ x.mode \in {"none", "single", "backlog"} /\ x.force \in BOOLEAN
         /\ x.captured \in Nat /\ x.page \in Nat
         /\ x.listed \in Seq([number : Issues, issue : IssueOf])
         /\ x.taken \in Seq(Issues) /\ x.issue \in Issues \cup {0} /\ x.facts \in IssueOf
         /\ x.revision \in Revisions /\ x.posting \in BOOLEAN /\ x.rule \in BOOLEAN
         /\ x.welcome \in BOOLEAN /\ x.head \in Nat /\ x.attempt \in Nat /\ x.commit \in Commits
         /\ x.outcome \in Outcomes
BY DEF RunOf

\* The fields of an issue, and of a comment.
LEMMA IssueFields ==
  ASSUME NEW x \in IssueOf
  PROVE  /\ x.opened \in Nat /\ x.updated \in Nat /\ x.open \in BOOLEAN /\ x.text \in Nat
         /\ x.labels \subseteq Labels /\ x.assigned \in BOOLEAN /\ x.references \subseteq References
         /\ x.comments \in Seq(CommentOf)
BY DEF IssueOf

\* A new comment is a comment.
LEMMA CommentTyped ==
  ASSUME now \in 1 .. MaxTime, NEW a \in Authors, NEW b \in Texts
  PROVE  Comment(a, b) \in CommentOf
BY DEF Comment, CommentOf, Revisions, Commits

\* An issue before it is opened, one just opened, and a run that has not begun.
LEMMA FreshTyped ==
  ASSUME now \in 1 .. MaxTime
  PROVE  Unopened \in IssueOf /\ Opened \in IssueOf /\ NewRun \in RunOf
<1>1. <<>> \in Seq(CommentOf) /\ <<>> \in Seq([number : Issues, issue : IssueOf]) /\ <<>> \in Seq(Issues)
  OBVIOUS
<1>2. Unopened \in IssueOf
  BY <1>1 DEF Unopened, IssueOf
<1>3. Opened \in IssueOf
  <2>1. now \in Nat
    BY LimitsAreNumbers
  <2> QED
    BY <1>2, <2>1 DEF Opened, IssueOf
<1>4. NewRun \in RunOf
  BY <1>1, <1>2 DEF NewRun, RunOf, Stations, Revisions, Commits, Outcomes
<1> QED
  BY <1>2, <1>3, <1>4

\* The digest of an issue is a revision, and never that of a comment without one.
LEMMA DigestTyped ==
  ASSUME NEW issue \in IssueOf
  PROVE  RevisionDigest(issue) \in Revisions /\ RevisionDigest(issue) # NoRevision
<1> DEFINE D == {j \in DOMAIN issue.comments : PromptSafe(issue.comments[j])}
<1>1. issue.text \in Nat /\ issue.comments \in Seq(CommentOf)
  BY DEF IssueOf
<1>2. \A j \in DOMAIN issue.comments : j \in Nat /\ issue.comments[j] \in CommentOf
  BY <1>1
<1>3. Kept(issue.comments) \in [D -> Words]
  BY <1>2 DEF Kept, Words, CommentOf
<1>4. D \in SUBSET Nat
  BY <1>2
<1>5. Kept(issue.comments) \in UNION {[E -> Words] : E \in SUBSET Nat}
  <2> HIDE DEF D
  <2> QED
    BY <1>3, <1>4
<1>6. RevisionDigest(issue) # NoRevision
  BY DEF RevisionDigest, NoRevision
<1> QED
  BY <1>1, <1>5, <1>6 DEF RevisionDigest, Revisions

\* The others stay where they are when one run goes on.
Moves(r, x) == run' = [run EXCEPT ![r] = x]

\* A run that goes on as a run keeps the type.
LEMMA MoveTyped ==
  ASSUME Typed, NEW r \in Runs, NEW x \in RunOf, Moves(r, x)
  PROVE  run' \in [Runs -> RunOf] /\ run'[r] = x /\ \A s \in Runs \ {r} : run'[s] = run[s]
BY DEF Typed, Moves

\* What a run concludes.
Concluded(r, outcome) ==
  [NewRun EXCEPT !.at = "removing", !.mode = run[r].mode, !.taken = run[r].taken,
                 !.issue = run[r].issue, !.revision = run[r].revision, !.outcome = outcome]

\* Ended, concluded and restarted runs are runs.
LEMMA EndsTyped ==
  ASSUME Typed, NEW r \in Runs, NEW outcome \in Outcomes
  PROVE  /\ Over(r) \in RunOf
         /\ Concluded(r, outcome) \in RunOf
         /\ Conclude(r, outcome) => Moves(r, Concluded(r, outcome))
<1>1. NewRun \in RunOf /\ run[r] \in RunOf
  BY FreshTyped DEF Typed
<1>2. Over(r) \in RunOf
  BY <1>1 DEF Over, RunOf, Stations
<1>3. Concluded(r, outcome) \in RunOf
  BY <1>1 DEF Concluded, RunOf, Stations
<1>4. Conclude(r, outcome) => Moves(r, Concluded(r, outcome))
  BY DEF Conclude, Moves, Concluded
<1> QED
  BY <1>2, <1>3, <1>4

\* A page of the listing is a sequence of open issues.
LEMMA PageTyped ==
  ASSUME Typed, NEW listing \in Listings, NEW page \in Nat \ {0}
  PROVE  PageOf(listing, page) \in Seq({i \in Issues : issues[i].open})
<1> DEFINE numbers == {i \in Issues : issues[i].open}
           total   == Cardinality(numbers)
<1>1. total \in Nat
  BY IssuesAreNumbers, FS_Subset, FS_CardinalityType
<1>2. listing \in [1 .. total -> numbers]
  BY DEF Listings
<1> HIDE DEF total, numbers
<1>3. Len(listing) = total
  BY <1>1, <1>2
<1> DEFINE first == (page - 1) * PageSize
           rest  == total - first
           size  == IF rest > PageSize THEN PageSize ELSE IF rest > 0 THEN rest ELSE 0
<1>4. PageSize \in Nat /\ page - 1 \in Nat
  BY LimitsAreNumbers
<1>5. first \in Nat
  <2> DEFINE before == page - 1
  <2> HIDE DEF before
  <2>1. before \in Nat /\ PageSize \in Nat => before * PageSize \in Nat
    OBVIOUS
  <2> QED
    BY <1>4, <2>1 DEF before
<1> HIDE DEF first
<1>6. (size \in Nat /\ size <= total - first) \/ size = 0
  BY <1>1, <1>4, <1>5
<1>7. \A k \in 1 .. size : first + k \in 1 .. total
  BY <1>1, <1>4, <1>5, <1>6
<1>8. PageOf(listing, page) = [k \in 1 .. size |-> listing[first + k]]
  BY <1>3 DEF PageOf, first
<1> HIDE DEF size
<1>9. [k \in 1 .. size |-> listing[first + k]] \in [1 .. size -> numbers]
  BY <1>2, <1>7
<1> QED
  BY <1>6, <1>8, <1>9 DEF numbers

\* What the steps between two issues make of a run: it posts nothing.
Selecting(r, y) ==
  /\ y \in RunOf /\ Moves(r, y) /\ Sane(y)
  /\ y.at \in {"listing", "visiting", "next", "fetching", "over"}
  /\ y.posting \in {FALSE, run[r].posting} /\ y.commit \in {NoCommit, run[r].commit}
  /\ \/ y.revision = NoRevision
     \/ run[r].at \in {"listing", "visiting", "next"} /\ y.revision = run[r].revision

\* The start of a run and the selection of the backlog.
LEMMA SelectionMoves ==
  ASSUME Typed, Placed, NEW r \in Runs
  PROVE  /\ \A i \in Issues : StartIssue(r, i) =>
              \E y : /\ Selecting(r, y) /\ y.at = "fetching" /\ y.mode = "single" /\ y.issue = i
         /\ StartBacklog(r) =>
              \E y : /\ Selecting(r, y) /\ y.at = "listing" /\ y.mode = "backlog"
                     /\ y.captured = now /\ y.taken = <<>> /\ y.listed = <<>>
         /\ SelectionFails(r) \/ SealBacklog(r) \/ Stop(r) =>
              \E y : Selecting(r, y) /\ y.at = "over" /\ y.mode = run[r].mode /\ y.posting = FALSE
         /\ TakeNext(r) =>
              \E y : /\ Selecting(r, y) /\ y.at = "fetching" /\ y.mode = run[r].mode
                     /\ run[r].taken # <<>> /\ y.issue = Head(run[r].taken)
                     /\ y.taken = Tail(run[r].taken)
         /\ RemoveCheckout(r) =>
              \E y : /\ Selecting(r, y) /\ y.mode = run[r].mode
                     /\ \/ run[r].mode = "backlog" /\ y.at = "next" /\ y.taken = run[r].taken
                        \/ y.at = "over"
         /\ EndOfPage(r) =>
              \E y : /\ Selecting(r, y) /\ y.at \in {"listing", "next"} /\ y.mode = run[r].mode
                     /\ y.taken = run[r].taken /\ y.captured \in {0, run[r].captured}
                     /\ y.at = "listing" => y.captured = run[r].captured
         /\ Visit(r) =>
              \E y : /\ Selecting(r, y) /\ y.at = "visiting" /\ y.mode = run[r].mode
                     /\ y.captured = run[r].captured
                     /\ run[r].listed # <<>> /\ y.listed = Tail(run[r].listed)
                     /\ y.taken = LET summary == Head(run[r].listed).issue
                                      number  == Head(run[r].listed).number
                                      history == IF summary.comments = <<>> THEN <<>>
                                                 ELSE issues[number].comments
                                      due     == /\ Considered(summary, run[r].captured)
                                                 /\ Due(summary, history, run[r].captured)
                                  IN  IF due THEN Append(run[r].taken, number) ELSE run[r].taken
         /\ ReadOpenIssuePage(r) =>
              \E y : /\ Selecting(r, y) /\ y.at = "visiting" /\ y.mode = run[r].mode
                     /\ y.captured = run[r].captured /\ y.taken = run[r].taken
                     /\ \A k \in DOMAIN y.listed :
                          /\ y.listed[k].issue = issues[y.listed[k].number]
                          /\ issues[y.listed[k].number].open
<1> USE DEF Selecting
<1>0. now \in 1 .. MaxTime /\ now \in Nat /\ run[r] \in RunOf /\ run \in [Runs -> RunOf]
  BY LimitsAreNumbers DEF Typed
<1>1. NewRun \in RunOf /\ Over(r) \in RunOf
  BY <1>0, FreshTyped, EndsTyped DEF Outcomes
<1>n. NewRun.posting = FALSE /\ NewRun.commit = NoCommit /\ NewRun.revision = NoRevision
      /\ NewRun.taken = <<>> /\ NewRun.listed = <<>>
  BY DEF NewRun
<1>2. ASSUME NEW i \in Issues, StartIssue(r, i)
      PROVE  \E y : Selecting(r, y) /\ y.at = "fetching" /\ y.mode = "single" /\ y.issue = i
  <2>1. PICK force \in BOOLEAN :
          run' = [run EXCEPT ![r] = [NewRun EXCEPT !.at = "fetching", !.mode = "single",
                                                   !.force = force, !.issue = i]]
    BY <1>2 DEF StartIssue
  <2> DEFINE y == [NewRun EXCEPT !.at = "fetching", !.mode = "single", !.force = force, !.issue = i]
  <2>2. y \in RunOf
    BY <1>1 DEF RunOf, Stations
  <2>3. /\ y.at = "fetching" /\ y.mode = "single" /\ y.issue = i /\ y.posting = NewRun.posting
        /\ y.commit = NewRun.commit
        /\ y.revision = NewRun.revision
    BY <1>1 DEF RunOf
  <2>4. Moves(r, y)
    BY <2>1 DEF Moves
  <2>5. Sane(y)
    BY <2>3 DEF Sane
  <2> HIDE DEF y
  <2> QED
    BY <1>n, <2>2, <2>3, <2>4, <2>5
<1>3. ASSUME StartBacklog(r)
      PROVE  \E y : /\ Selecting(r, y) /\ y.at = "listing" /\ y.mode = "backlog"
                    /\ y.captured = now /\ y.taken = <<>> /\ y.listed = <<>>
  <2> DEFINE y == [NewRun EXCEPT !.at = "listing", !.mode = "backlog", !.captured = now, !.page = 1]
  <2>1. y \in RunOf
    BY <1>0, <1>1 DEF RunOf, Stations
  <2>2. /\ y.at = "listing" /\ y.mode = "backlog" /\ y.captured = now /\ y.page = 1
        /\ y.posting = NewRun.posting /\ y.commit = NewRun.commit
        /\ y.revision = NewRun.revision
        /\ y.taken = NewRun.taken /\ y.listed = NewRun.listed
    BY <1>1 DEF RunOf
  <2>3. Moves(r, y)
    BY <1>3 DEF StartBacklog, Moves
  <2>4. Sane(y)
    BY <2>2 DEF Sane, WorkStations
  <2> HIDE DEF y
  <2> QED
    BY <1>n, <2>1, <2>2, <2>3, <2>4
<1>4. ASSUME SelectionFails(r) \/ SealBacklog(r) \/ Stop(r)
      PROVE  \E y : Selecting(r, y) /\ y.at = "over" /\ y.mode = run[r].mode /\ y.posting = FALSE
  <2> DEFINE y == Over(r)
  <2>1. y.at = "over" /\ y.mode = run[r].mode /\ y.posting = FALSE /\ y.commit = NoCommit
        /\ y.revision = NoRevision
    BY <1>1, <1>n DEF Over, RunOf
  <2>2. Moves(r, y)
    BY <1>4 DEF SelectionFails, SealBacklog, Stop, Moves
  <2>3. Sane(y)
    BY <2>1 DEF Sane, WorkStations
  <2> HIDE DEF y
  <2> QED
    BY <1>1, <2>1, <2>2, <2>3 DEF y
<1>5. ASSUME TakeNext(r)
      PROVE  \E y : /\ Selecting(r, y) /\ y.at = "fetching" /\ y.mode = run[r].mode
                    /\ run[r].taken # <<>> /\ y.issue = Head(run[r].taken)
                    /\ y.taken = Tail(run[r].taken)
  <2>1. run[r].taken \in Seq(Issues) /\ run[r].taken # <<>> /\ run[r].at = "next"
    BY <1>0, <1>5, RunFields DEF TakeNext
  <2>2. Head(run[r].taken) \in Issues /\ Tail(run[r].taken) \in Seq(Issues)
    BY <2>1, HeadTailProperties
  <2> DEFINE head == Head(run[r].taken)
             tail == Tail(run[r].taken)
             y    == [run[r] EXCEPT !.at = "fetching", !.issue = head, !.taken = tail]
  <2>3. Moves(r, y)
    BY <1>0, <1>5 DEF TakeNext, Moves
  <2> HIDE DEF head, tail
  <2>4. y \in RunOf
    BY <1>0, <2>2 DEF RunOf, Stations, head, tail
  <2>5. /\ y.at = "fetching" /\ y.mode = run[r].mode /\ y.issue = head /\ y.taken = tail
        /\ y.posting = run[r].posting /\ y.commit = run[r].commit
        /\ y.revision = run[r].revision
    BY <1>0 DEF RunOf
  <2>6. Sane(y)
    BY <2>2, <2>5 DEF Sane, head
  <2> HIDE DEF y
  <2> QED
    BY <2>1, <2>3, <2>4, <2>5, <2>6 DEF head, tail
<1>6. ASSUME RemoveCheckout(r)
      PROVE  \E y : /\ Selecting(r, y) /\ y.mode = run[r].mode
                    /\ \/ run[r].mode = "backlog" /\ y.at = "next" /\ y.taken = run[r].taken
                       \/ y.at = "over"
  <2>1. run[r].taken \in Seq(Issues)
    BY <1>0, RunFields
  <2>2. CASE run[r].mode = "backlog"
    <3> DEFINE y == [NewRun EXCEPT !.at = "next", !.mode = "backlog", !.taken = run[r].taken]
    <3>1. y \in RunOf
      BY <1>1, <2>1 DEF RunOf, Stations
    <3>2. /\ y.at = "next" /\ y.mode = "backlog" /\ y.taken = run[r].taken
          /\ y.posting = NewRun.posting /\ y.commit = NewRun.commit
          /\ y.revision = NewRun.revision
      BY <1>1 DEF RunOf
    <3>3. Moves(r, y)
      BY <1>0, <1>6, <2>2 DEF RemoveCheckout, Moves
    <3>4. Sane(y)
      BY <3>2 DEF Sane, WorkStations
    <3> HIDE DEF y
    <3> QED
      BY <1>n, <2>2, <3>1, <3>2, <3>3, <3>4
  <2>3. CASE run[r].mode # "backlog"
    <3> DEFINE y == Over(r)
    <3>1. y.at = "over" /\ y.mode = run[r].mode /\ y.posting = FALSE /\ y.commit = NoCommit
          /\ y.revision = NoRevision
      BY <1>1, <1>n DEF Over, RunOf
    <3>2. Moves(r, y)
      BY <1>0, <1>6, <2>3 DEF RemoveCheckout, Moves
    <3>3. Sane(y)
      BY <3>1 DEF Sane, WorkStations
    <3>4. y \in RunOf
      BY <1>1
    <3> HIDE DEF y
    <3> QED
      BY <3>1, <3>2, <3>3, <3>4
  <2> QED
    BY <2>2, <2>3
<1>7. ASSUME EndOfPage(r)
      PROVE  \E y : /\ Selecting(r, y) /\ y.at \in {"listing", "next"} /\ y.mode = run[r].mode
                    /\ y.taken = run[r].taken /\ y.captured \in {0, run[r].captured}
                    /\ y.at = "listing" => y.captured = run[r].captured
  <2>0. run[r].at = "visiting"
    BY <1>7 DEF EndOfPage
  <2>1. CASE run[r].more /\ Len(run[r].taken) < MaxIssues
    <3> DEFINE page == run[r].page + 1
               y    == [run[r] EXCEPT !.at = "listing", !.page = page]
    <3>1. page \in Nat /\ page >= 1
      BY <1>0, RunFields
    <3>2. Moves(r, y)
      BY <1>0, <1>7, <2>1 DEF EndOfPage, Moves
    <3> HIDE DEF page
    <3>3. y \in RunOf
      BY <1>0, <3>1 DEF RunOf, Stations
    <3>4. /\ y.at = "listing" /\ y.mode = run[r].mode /\ y.taken = run[r].taken /\ y.page = page
          /\ y.captured = run[r].captured /\ y.posting = run[r].posting /\ y.commit = run[r].commit
          /\ y.revision = run[r].revision
      BY <1>0 DEF RunOf
    <3>5. Sane(y)
      BY <3>1, <3>4 DEF Sane, WorkStations
    <3> HIDE DEF y
    <3> QED
      BY <2>0, <3>2, <3>3, <3>4, <3>5
  <2>2. CASE ~(run[r].more /\ Len(run[r].taken) < MaxIssues)
    <3> DEFINE y == [run[r] EXCEPT !.at = "next", !.listed = <<>>, !.page = 0, !.captured = 0]
    <3>1. <<>> \in Seq([number : Issues, issue : IssueOf])
      OBVIOUS
    <3>2. Moves(r, y)
      BY <1>0, <1>7, <2>2 DEF EndOfPage, Moves
    <3>3. y \in RunOf
      BY <1>0, <3>1 DEF RunOf, Stations
    <3>4. /\ y.at = "next" /\ y.mode = run[r].mode /\ y.taken = run[r].taken
          /\ y.captured = 0 /\ y.posting = run[r].posting /\ y.commit = run[r].commit
          /\ y.revision = run[r].revision
      BY <1>0 DEF RunOf
    <3>5. Sane(y)
      BY <3>4 DEF Sane, WorkStations
    <3> HIDE DEF y
    <3> QED
      BY <2>0, <3>2, <3>3, <3>4, <3>5
  <2> QED
    BY <2>1, <2>2
<1>8. ASSUME Visit(r)
      PROVE  \E y : /\ Selecting(r, y) /\ y.at = "visiting" /\ y.mode = run[r].mode
                    /\ y.captured = run[r].captured
                    /\ run[r].listed # <<>> /\ y.listed = Tail(run[r].listed)
                    /\ y.taken = LET summary == Head(run[r].listed).issue
                                     number  == Head(run[r].listed).number
                                     history == IF summary.comments = <<>> THEN <<>>
                                                ELSE issues[number].comments
                                     due     == /\ Considered(summary, run[r].captured)
                                                /\ Due(summary, history, run[r].captured)
                                 IN  IF due THEN Append(run[r].taken, number) ELSE run[r].taken
  <2> DEFINE summary == Head(run[r].listed).issue
             number  == Head(run[r].listed).number
             history == IF summary.comments = <<>> THEN <<>> ELSE issues[number].comments
             due     == /\ Considered(summary, run[r].captured)
                        /\ Due(summary, history, run[r].captured)
             taken   == IF due THEN Append(run[r].taken, number) ELSE run[r].taken
             listed  == Tail(run[r].listed)
             y       == [run[r] EXCEPT !.listed = listed, !.taken = taken]
  <2>1. run[r].listed \in Seq([number : Issues, issue : IssueOf]) /\ run[r].listed # <<>>
        /\ run[r].taken \in Seq(Issues) /\ run[r].at = "visiting"
    BY <1>0, <1>8, RunFields DEF Visit
  <2>2. Head(run[r].listed) \in [number : Issues, issue : IssueOf]
        /\ listed \in Seq([number : Issues, issue : IssueOf])
    BY <2>1, HeadTailProperties
  <2>3. number \in Issues
    BY <2>2
  <2>4. taken \in Seq(Issues)
    <3> HIDE DEF due, number
    <3> QED
      BY <2>1, <2>3, AppendProperties
  <2>5. run' = [run EXCEPT ![r].listed = listed, ![r].taken = taken]
    BY <1>8 DEF Visit
  <2> HIDE DEF taken, listed
  <2>6. y \in RunOf
    BY <1>0, <2>2, <2>4 DEF RunOf
  <2>7. Moves(r, y)
    BY <1>0, <2>5 DEF Moves
  <2>8. /\ y.at = "visiting" /\ y.mode = run[r].mode /\ y.taken = taken /\ y.listed = listed
        /\ y.captured = run[r].captured /\ y.posting = run[r].posting /\ y.commit = run[r].commit
        /\ y.revision = run[r].revision
        /\ y.page = run[r].page
    BY <1>0, <2>1 DEF RunOf
  <2>9. Sane(y)
    BY <2>1, <2>8 DEF Placed, Sane, WorkStations
  <2> HIDE DEF y
  <2>10. \E z : /\ Selecting(r, z) /\ z.at = "visiting" /\ z.mode = run[r].mode
                /\ z.captured = run[r].captured
                /\ run[r].listed # <<>> /\ z.listed = listed /\ z.taken = taken
    BY <2>1, <2>6, <2>7, <2>8, <2>9
  <2> QED
    BY <2>10 DEF taken, listed
<1>9. ASSUME ReadOpenIssuePage(r)
      PROVE  \E y : /\ Selecting(r, y) /\ y.at = "visiting" /\ y.mode = run[r].mode
                    /\ y.captured = run[r].captured /\ y.taken = run[r].taken
                    /\ \A k \in DOMAIN y.listed :
                         /\ y.listed[k].issue = issues[y.listed[k].number]
                         /\ issues[y.listed[k].number].open
  <2> DEFINE Listed(items) == [k \in DOMAIN items |-> [number |-> items[k], issue |-> issues[items[k]]]]
  <2>1. PICK listing \in Listings :
          run' = [run EXCEPT ![r].at = "visiting",
                             ![r].listed = Listed(PageOf(listing, run[r].page)),
                             ![r].more = Len(PageOf(listing, run[r].page)) = PageSize]
    BY <1>9 DEF ReadOpenIssuePage
  <2> DEFINE items == PageOf(listing, run[r].page)
  <2>2. run[r].page \in Nat \ {0} /\ run[r].at = "listing"
    <3>1. run[r].page \in Nat /\ run[r].at = "listing"
      BY <1>0, <1>9, RunFields DEF ReadOpenIssuePage
    <3>2. run[r].page >= 1
      BY <3>1 DEF Placed, Sane
    <3> QED
      BY <3>1, <3>2
  <2>3. items \in Seq(Issues) /\ \A k \in DOMAIN items : issues[items[k]].open
    <3>1. items \in Seq({i \in Issues : issues[i].open})
      BY <2>2, PageTyped
    <3> HIDE DEF items
    <3> QED
      BY <3>1
  <2> HIDE DEF items
  <2>4. Listed(items) \in Seq([number : Issues, issue : IssueOf])
    <3>1. DOMAIN items = 1 .. Len(items) /\ Len(items) \in Nat /\ \A k \in DOMAIN items : items[k] \in Issues
      BY <2>3
    <3>2. \A k \in DOMAIN items : issues[items[k]] \in IssueOf
      BY <3>1 DEF Typed
    <3>3. Listed(items) \in [1 .. Len(items) -> [number : Issues, issue : IssueOf]]
      BY <3>1, <3>2
    <3> QED
      BY <3>1, <3>3
  <2>5. \A k \in DOMAIN Listed(items) :
           /\ Listed(items)[k].issue = issues[Listed(items)[k].number]
           /\ issues[Listed(items)[k].number].open
    BY <2>3
  <2> DEFINE listed == Listed(items)
             more   == Len(items) = PageSize
             y      == [run[r] EXCEPT !.at = "visiting", !.listed = listed, !.more = more]
  <2>6. Moves(r, y)
    BY <1>0, <2>1 DEF Moves, items
  <2>7. more \in BOOLEAN
    OBVIOUS
  <2> HIDE DEF listed, more
  <2>8. y \in RunOf
    BY <1>0, <2>4, <2>7 DEF RunOf, Stations, listed
  <2>9. /\ y.at = "visiting" /\ y.mode = run[r].mode /\ y.taken = run[r].taken /\ y.listed = listed
        /\ y.captured = run[r].captured /\ y.posting = run[r].posting /\ y.commit = run[r].commit
        /\ y.revision = run[r].revision
        /\ y.page = run[r].page
    BY <1>0 DEF RunOf
  <2>10. Sane(y)
    BY <2>2, <2>9 DEF Placed, Sane, WorkStations
  <2>11. \A k \in DOMAIN y.listed :
            /\ y.listed[k].issue = issues[y.listed[k].number]
            /\ issues[y.listed[k].number].open
    BY <2>5, <2>9 DEF listed
  <2> HIDE DEF y
  <2> QED
    BY <2>2, <2>6, <2>8, <2>9, <2>10, <2>11
<1> QED
  BY <1>2, <1>3, <1>4, <1>5, <1>6, <1>7, <1>8, <1>9

\* The run goes on at a station with the work it has.
Continues(r, at, y) ==
  /\ y \in RunOf /\ Moves(r, y) /\ y.at = at
  /\ y.mode = run[r].mode /\ y.force = run[r].force /\ y.issue = run[r].issue
  /\ y.taken = run[r].taken /\ y.listed = run[r].listed /\ y.captured = run[r].captured

\* And with what it is about to post.
Keeps(r, y) ==
  /\ y.posting = run[r].posting /\ y.rule = run[r].rule /\ y.welcome = run[r].welcome
  /\ y.commit = run[r].commit

\* Where the steps of one issue's run lead.
LEMMA WorkMoves ==
  ASSUME Typed, Placed, NEW r \in Runs
  PROVE  /\ FetchIssue(r) =>
              \E y : Continues(r, "reading", y) /\ Keeps(r, y) /\ y.revision = run[r].revision
         /\ FetchComments(r) =>
              \/ Conclude(r, "not reported")
              \/ \E y : /\ Continues(r, "finding", y) /\ Keeps(r, y)
                        /\ y.revision # NoRevision
         /\ ReadIssue(r) =>
              \E y : /\ Continues(r, "watching", y) /\ Keeps(r, y)
                     /\ y.revision = run[r].revision /\ y.facts = issues[run[r].issue]
         /\ ReadTimeline(r) =>
              \/ Conclude(r, "not reported")
              \/ /\ ~Silenced(PublicationFacts(run[r].facts, issues[run[r].issue]), run[r].force)
                 /\ \E y : /\ Continues(r, IF run[r].posting THEN "finding" ELSE "working", y)
                           /\ Keeps(r, y) /\ y.revision = run[r].revision
<1>1. run[r] \in RunOf /\ run \in [Runs -> RunOf] /\ run[r].issue \in Issues \cup {0}
      /\ run[r].facts \in IssueOf
  BY RunFields DEF Typed
<1>2. ASSUME FetchIssue(r)
      PROVE  \E y : Continues(r, "reading", y) /\ Keeps(r, y) /\ y.revision = run[r].revision
  <2> DEFINE y == [run[r] EXCEPT !.at = "reading", !.facts = issues[run[r].issue]]
  <2>1. issues[run[r].issue] \in IssueOf
    BY <1>2 DEF FetchIssue, Typed, Placed, Sane, WorkStations
  <2>2. y \in RunOf
    BY <1>1, <2>1 DEF RunOf, Stations
  <2>3. Moves(r, y)
    BY <1>1, <1>2 DEF FetchIssue, Moves
  <2>4. Continues(r, "reading", y) /\ Keeps(r, y) /\ y.revision = run[r].revision
    BY <1>1, <2>2, <2>3 DEF Continues, Keeps, RunOf
  <2> QED
    BY <2>4
<1>3. ASSUME FetchComments(r), ~Conclude(r, "not reported")
      PROVE  \E y : Continues(r, "finding", y) /\ Keeps(r, y) /\ y.revision # NoRevision
  <2> DEFINE read == [run[r].facts EXCEPT !.comments = issues[run[r].issue].comments]
             v    == RevisionDigest(read)
             y    == [run[r] EXCEPT !.at = "finding", !.facts = Unopened, !.revision = v]
  <2>1. read \in IssueOf
    <3>1. issues[run[r].issue] \in IssueOf
      BY <1>3 DEF FetchComments, Typed, Placed, Sane, WorkStations
    <3>2. issues[run[r].issue].comments \in Seq(CommentOf)
      BY <3>1, IssueFields
    <3> QED
      BY <1>1, <3>2 DEF IssueOf
  <2>2. v \in Revisions /\ v # NoRevision
    BY <2>1, DigestTyped
  <2>3. run' = [run EXCEPT ![r].at = "finding", ![r].facts = Unopened, ![r].revision = v]
    BY <1>3 DEF FetchComments
  <2> HIDE DEF v
  <2>4. Unopened \in IssueOf
    BY FreshTyped DEF Typed
  <2>5. y \in RunOf
    BY <1>1, <2>2, <2>4 DEF RunOf, Stations
  <2>6. Moves(r, y)
    BY <1>1, <2>3 DEF Moves
  <2>7. Continues(r, "finding", y) /\ Keeps(r, y) /\ y.revision # NoRevision
    BY <1>1, <2>2, <2>5, <2>6 DEF Continues, Keeps, RunOf
  <2> QED
    BY <2>7
<1>4. ASSUME ReadIssue(r)
      PROVE  \E y : /\ Continues(r, "watching", y) /\ Keeps(r, y)
                    /\ y.revision = run[r].revision /\ y.facts = issues[run[r].issue]
  <2> DEFINE y == [run[r] EXCEPT !.at = "watching", !.facts = issues[run[r].issue]]
  <2>1. issues[run[r].issue] \in IssueOf
    BY <1>4 DEF ReadIssue, Typed, Placed, Sane, WorkStations
  <2>2. y \in RunOf
    BY <1>1, <2>1 DEF RunOf, Stations
  <2>3. Moves(r, y)
    BY <1>1, <1>4 DEF ReadIssue, Moves
  <2>4. Continues(r, "watching", y) /\ Keeps(r, y) /\ y.revision = run[r].revision
        /\ y.facts = issues[run[r].issue]
    BY <1>1, <2>2, <2>3 DEF Continues, Keeps, RunOf
  <2> QED
    BY <2>4
<1>5. ASSUME ReadTimeline(r), ~Conclude(r, "not reported")
      PROVE  /\ ~Silenced(PublicationFacts(run[r].facts, issues[run[r].issue]), run[r].force)
             /\ \E y : /\ Continues(r, IF run[r].posting THEN "finding" ELSE "working", y)
                       /\ Keeps(r, y) /\ y.revision = run[r].revision
  <2> DEFINE at == IF run[r].posting THEN "finding" ELSE "working"
             y  == [run[r] EXCEPT !.at = at, !.facts = Unopened]
  <2>1. /\ ~Silenced(PublicationFacts(run[r].facts, issues[run[r].issue]), run[r].force)
        /\ run' = [run EXCEPT ![r].at = at, ![r].facts = Unopened]
    BY <1>5 DEF ReadTimeline
  <2>2. at \in Stations
    BY DEF Stations
  <2> HIDE DEF at
  <2>3. Unopened \in IssueOf
    BY FreshTyped DEF Typed
  <2>4. y \in RunOf
    BY <1>1, <2>2, <2>3 DEF RunOf
  <2>5. Moves(r, y)
    BY <1>1, <2>1 DEF Moves
  <2>6. Continues(r, at, y) /\ Keeps(r, y) /\ y.revision = run[r].revision
    BY <1>1, <2>4, <2>5 DEF Continues, Keeps, RunOf
  <2> QED
    BY <2>1, <2>6 DEF at
<1> QED
  BY <1>2, <1>3, <1>4, <1>5

\* A run that keeps its fields but some goes on: the two steps below share it.
LEMMA GoesOn ==
  ASSUME Typed, NEW r \in Runs, NEW at \in Stations,
         run' = [run EXCEPT ![r].at = at]
  PROVE  \E y : Continues(r, at, y) /\ Keeps(r, y) /\ y.revision = run[r].revision
<1> DEFINE y == [run[r] EXCEPT !.at = at]
<1>1. run[r] \in RunOf /\ run \in [Runs -> RunOf]
  BY DEF Typed
<1>2. y \in RunOf
  BY <1>1 DEF RunOf
<1>3. Moves(r, y)
  BY <1>1 DEF Moves
<1>4. Continues(r, at, y) /\ Keeps(r, y) /\ y.revision = run[r].revision
  BY <1>1, <1>2, <1>3 DEF Continues, Keeps, RunOf
<1> QED
  BY <1>4

\* Where the steps from the look for a report to the comment lead.
LEMMA PostMoves ==
  ASSUME Typed, Placed, NEW r \in Runs
  PROVE  /\ FindReport(r) =>
              \/ /\ FindRevisionReport(issues[run[r].issue].comments, run[r].revision)
                 /\ Conclude(r, "already reported")
              \/ /\ ~FindRevisionReport(issues[run[r].issue].comments, run[r].revision)
                 /\ \E y : /\ Continues(r, IF ~run[r].posting THEN "guarding"
                                           ELSE IF run[r].rule THEN "hosting" ELSE "commenting", y)
                           /\ Keeps(r, y) /\ y.revision = run[r].revision
         /\ Work(r) =>
              \/ Conclude(r, "failed") \/ Conclude(r, "not reported")
              \/ \E y : /\ Continues(r, "guarding", y) /\ y.revision = run[r].revision
                        /\ y.posting = TRUE /\ y.commit = run[r].commit
                        /\ y.welcome = TakesReport(issues[run[r].issue], run[r].force)
         /\ ReadBranchHead(r) =>
              \E y : Continues(r, "updating", y) /\ Keeps(r, y) /\ y.revision = run[r].revision
         /\ HostScreenshots(r) =>
              \E y : /\ Continues(r, "commenting", y) /\ y.revision = run[r].revision
                     /\ y.posting = run[r].posting /\ y.rule = run[r].rule
                     /\ y.welcome = run[r].welcome /\ y.commit = <<r, run[r].issue>>
         /\ RefConflict(r) \/ HostingFails(r) =>
              \/ Conclude(r, "failed")
              \/ \E at \in {"hosting", "commenting"} : \E y :
                   Continues(r, at, y) /\ Keeps(r, y) /\ y.revision = run[r].revision
<1>1. run[r] \in RunOf /\ run \in [Runs -> RunOf]
  BY DEF Typed
<1>2. ASSUME FindReport(r),
             ~FindRevisionReport(issues[run[r].issue].comments, run[r].revision)
      PROVE  \E y : /\ Continues(r, IF ~run[r].posting THEN "guarding"
                                    ELSE IF run[r].rule THEN "hosting" ELSE "commenting", y)
                    /\ Keeps(r, y) /\ y.revision = run[r].revision
  <2> DEFINE at == IF ~run[r].posting THEN "guarding"
                   ELSE IF run[r].rule THEN "hosting" ELSE "commenting"
  <2>1. run' = [run EXCEPT ![r].at = at]
    BY <1>2 DEF FindReport
  <2>2. at \in Stations
    BY DEF Stations
  <2> HIDE DEF at
  <2>3. \E y : Continues(r, at, y) /\ Keeps(r, y) /\ y.revision = run[r].revision
    BY <2>1, <2>2, GoesOn
  <2> QED
    BY <2>3 DEF at
<1>3. ASSUME FindReport(r), FindRevisionReport(issues[run[r].issue].comments, run[r].revision)
      PROVE  Conclude(r, "already reported")
  BY <1>3 DEF FindReport
<1>4. ASSUME Work(r), ~Conclude(r, "failed"), ~Conclude(r, "not reported")
      PROVE  \E y : /\ Continues(r, "guarding", y) /\ y.revision = run[r].revision
                    /\ y.posting = TRUE /\ y.commit = run[r].commit
                    /\ y.welcome = TakesReport(issues[run[r].issue], run[r].force)
  <2> DEFINE w == TakesReport(issues[run[r].issue], run[r].force)
  <2>1. PICK rule \in BOOLEAN :
          run' = [run EXCEPT ![r].at = "guarding", ![r].posting = TRUE, ![r].rule = rule,
                             ![r].welcome = w]
    BY <1>4 DEF Work
  <2>2. w \in BOOLEAN
    BY DEF TakesReport
  <2> HIDE DEF w
  <2> DEFINE y == [run[r] EXCEPT !.at = "guarding", !.posting = TRUE, !.rule = rule, !.welcome = w]
  <2>3. y \in RunOf
    BY <1>1, <2>2 DEF RunOf, Stations
  <2>4. Moves(r, y)
    BY <1>1, <2>1 DEF Moves
  <2>5. /\ Continues(r, "guarding", y) /\ y.revision = run[r].revision
        /\ y.posting = TRUE /\ y.commit = run[r].commit /\ y.welcome = w
    BY <1>1, <2>3, <2>4 DEF Continues, RunOf
  <2> QED
    BY <2>5 DEF w
<1>5. ASSUME ReadBranchHead(r)
      PROVE  \E y : Continues(r, "updating", y) /\ Keeps(r, y) /\ y.revision = run[r].revision
  <2> DEFINE head    == Len(branch)
             attempt == run[r].attempt + 1
             y       == [run[r] EXCEPT !.at = "updating", !.head = head, !.attempt = attempt]
  <2>1. head \in Nat /\ attempt \in Nat /\ run[r].attempt \in Nat
    BY <1>1, RunFields DEF Typed
  <2>3. Moves(r, y)
    BY <1>1, <1>5, <2>1 DEF ReadBranchHead, Moves
  <2> HIDE DEF head, attempt
  <2>2. y \in RunOf
    BY <1>1, <2>1 DEF RunOf, Stations
  <2>4. Continues(r, "updating", y) /\ Keeps(r, y) /\ y.revision = run[r].revision
    BY <1>1, <2>2, <2>3 DEF Continues, Keeps, RunOf
  <2> QED
    BY <2>4
<1>6. ASSUME HostScreenshots(r)
      PROVE  \E y : /\ Continues(r, "commenting", y) /\ y.revision = run[r].revision
                    /\ y.posting = run[r].posting /\ y.rule = run[r].rule
                    /\ y.welcome = run[r].welcome /\ y.commit = <<r, run[r].issue>>
  <2> DEFINE commit == <<r, run[r].issue>>
  <2>1. run[r].issue \in Issues
    BY <1>6 DEF HostScreenshots, Placed, Sane, WorkStations
  <2>2. commit \in Commits
    BY <2>1 DEF Commits, Hosted
  <2>3. run' = [run EXCEPT ![r].at = "commenting", ![r].commit = commit]
    BY <1>6 DEF HostScreenshots
  <2> HIDE DEF commit
  <2> DEFINE y == [run[r] EXCEPT !.at = "commenting", !.commit = commit]
  <2>4. y \in RunOf
    BY <1>1, <2>2 DEF RunOf, Stations
  <2>5. Moves(r, y)
    BY <1>1, <2>3 DEF Moves
  <2>6. /\ Continues(r, "commenting", y) /\ y.revision = run[r].revision
        /\ y.posting = run[r].posting /\ y.rule = run[r].rule
        /\ y.welcome = run[r].welcome /\ y.commit = commit
    BY <1>1, <2>4, <2>5 DEF Continues, RunOf
  <2> QED
    BY <2>6 DEF commit
<1>7. ASSUME RefConflict(r) \/ HostingFails(r), ~Conclude(r, "failed")
      PROVE  \E at \in {"hosting", "commenting"} : \E y :
               Continues(r, at, y) /\ Keeps(r, y) /\ y.revision = run[r].revision
  <2>1. \E at \in {"hosting", "commenting"} : run' = [run EXCEPT ![r].at = at]
    BY <1>7 DEF RefConflict, HostingFails
  <2>2. {"hosting", "commenting"} \subseteq Stations
    BY DEF Stations
  <2> QED
    BY <2>1, <2>2, GoesOn
<1> QED
  BY <1>2, <1>3, <1>4, <1>5, <1>6, <1>7

\* The steps that only conclude.
LEMMA ConcludingMoves ==
  ASSUME NEW r \in Runs,
         \/ PreparationFails(r) \/ RequestFails(r)
         \/ CreateComment(r) \/ AnswerLost(r) \/ CommentRefused(r)
  PROVE  Conclude(r, "failed") \/ (CreateComment(r) /\ Conclude(r, "posted"))
BY DEF PreparationFails, RequestFails, CreateComment, AnswerLost, CommentRefused

------------------------------------------------------------------------------
(* What happens to the comments *)

\* What an edit leaves of a comment.
Same(c, d) ==
  /\ d.author = c.author /\ d.body = c.body /\ d.at = c.at
  /\ d.revision = c.revision /\ d.commit = c.commit /\ d.by = c.by

\* Comments stay at their places.
Extends(old, new) == \A k \in DOMAIN old : k \in DOMAIN new /\ Same(old[k], new[k])

\* A comment somebody else has written since is no report.
Foreign(old, new) ==
  \A k \in DOMAIN new \ DOMAIN old :
    new[k].author # Own /\ new[k].revision = NoRevision /\ new[k].commit = NoCommit

\* What people make of an issue.
Changes(issue, changed) ==
  /\ changed \in IssueOf
  /\ changed.opened = issue.opened
  /\ issue.references \subseteq changed.references
  /\ Extends(issue.comments, changed.comments)
  /\ Foreign(issue.comments, changed.comments)

\* Comments that do not change are kept, and none is new.
LEMMA UnchangedExtends ==
  ASSUME NEW s
  PROVE  Extends(s, s) /\ Foreign(s, s)
BY DEF Extends, Foreign, Same

\* One more comment at the end leaves the others where they are.
LEMMA AppendExtends ==
  ASSUME NEW s \in Seq(CommentOf), NEW c \in CommentOf
  PROVE  /\ Append(s, c) \in Seq(CommentOf)
         /\ Extends(s, Append(s, c))
         /\ DOMAIN Append(s, c) = 1 .. Len(s) + 1 /\ DOMAIN s = 1 .. Len(s) /\ Len(s) \in Nat
         /\ Append(s, c)[Len(s) + 1] = c
         /\ \A k \in DOMAIN s : Append(s, c)[k] = s[k]
<1>1. /\ Append(s, c) \in Seq(CommentOf) /\ Len(Append(s, c)) = Len(s) + 1
      /\ \A k \in 1 .. Len(s) : Append(s, c)[k] = s[k]
      /\ Append(s, c)[Len(s) + 1] = c
  BY AppendProperties
<1>2. DOMAIN s = 1 .. Len(s) /\ Len(s) \in Nat /\ DOMAIN Append(s, c) = 1 .. Len(s) + 1
  BY <1>1
<1> QED
  BY <1>1, <1>2 DEF Extends, Same

\* A person's comment, an edit of one, and everything else people do.
LEMMA PeopleChange ==
  ASSUME Typed, NEW i \in Issues, PeopleStep(i)
  PROVE  OpenIssue(i) \/ \E c : Touch(i, c) /\ Changes(issues[i], c)
<1> DEFINE x == issues[i]
<1>1. x \in IssueOf /\ now \in Nat /\ now \in 1 .. MaxTime
  BY LimitsAreNumbers DEF Typed
<1>2. x.comments \in Seq(CommentOf) /\ x.opened \in Nat /\ x.text \in Nat /\ x.labels \in SUBSET Labels
      /\ x.open \in BOOLEAN /\ x.assigned \in BOOLEAN /\ x.references \in SUBSET References
  BY <1>1, IssueFields
<1>3. ASSUME NEW c, c \in IssueOf, c.opened = x.opened, x.references \subseteq c.references,
             c.comments = x.comments
      PROVE  Changes(x, c)
  <2>1. Extends(x.comments, x.comments) /\ Foreign(x.comments, x.comments)
    BY UnchangedExtends
  <2> QED
    BY <1>3, <2>1 DEF Changes
<1> HIDE DEF x
<1>4. ASSUME EditBody(i) PROVE \E c : Touch(i, c) /\ Changes(x, c)
  <2> DEFINE text == x.text + 1
             c    == [x EXCEPT !.text = text]
  <2>1. Touch(i, c)
    BY <1>4 DEF EditBody, x
  <2>2. text \in Nat
    BY <1>2
  <2> HIDE DEF text
  <2>3. c \in IssueOf /\ c.opened = x.opened /\ c.references = x.references /\ c.comments = x.comments
    BY <1>1, <2>2 DEF IssueOf
  <2> QED
    BY <1>3, <2>1, <2>3
<1>5. ASSUME Label(i) PROVE \E c : Touch(i, c) /\ Changes(x, c)
  <2>1. PICK l \in Labels :
          Touch(i, [x EXCEPT !.labels = IF l \in @ THEN @ \ {l} ELSE @ \cup {l}])
    BY <1>5 DEF Label, x
  <2> DEFINE labels == IF l \in x.labels THEN x.labels \ {l} ELSE x.labels \cup {l}
             c      == [x EXCEPT !.labels = labels]
  <2>2. Touch(i, c)
    BY <2>1
  <2>3. labels \in SUBSET Labels
    BY <1>2
  <2> HIDE DEF labels
  <2>4. c \in IssueOf /\ c.opened = x.opened /\ c.references = x.references /\ c.comments = x.comments
    BY <1>1, <2>3 DEF IssueOf
  <2> QED
    BY <1>3, <2>2, <2>4
<1>6. ASSUME Assign(i) PROVE \E c : Touch(i, c) /\ Changes(x, c)
  <2> DEFINE assigned == ~x.assigned
             c        == [x EXCEPT !.assigned = assigned]
  <2>1. Touch(i, c)
    BY <1>6 DEF Assign, x
  <2>2. assigned \in BOOLEAN
    OBVIOUS
  <2> HIDE DEF assigned
  <2>3. c \in IssueOf /\ c.opened = x.opened /\ c.references = x.references /\ c.comments = x.comments
    BY <1>1, <2>2 DEF IssueOf
  <2> QED
    BY <1>3, <2>1, <2>3
<1>7. ASSUME CloseOrReopen(i) PROVE \E c : Touch(i, c) /\ Changes(x, c)
  <2> DEFINE open == ~x.open
             c    == [x EXCEPT !.open = open]
  <2>1. Touch(i, c)
    BY <1>7 DEF CloseOrReopen, x
  <2>2. open \in BOOLEAN
    OBVIOUS
  <2> HIDE DEF open
  <2>3. c \in IssueOf /\ c.opened = x.opened /\ c.references = x.references /\ c.comments = x.comments
    BY <1>1, <2>2 DEF IssueOf
  <2> QED
    BY <1>3, <2>1, <2>3
<1>8. ASSUME Reference(i) PROVE \E c : Touch(i, c) /\ Changes(x, c)
  <2>1. PICK f \in References : Touch(i, [x EXCEPT !.references = @ \cup {f}])
    BY <1>8 DEF Reference, x
  <2> DEFINE references == x.references \cup {f}
             c          == [x EXCEPT !.references = references]
  <2>2. Touch(i, c)
    BY <2>1
  <2>3. references \in SUBSET References /\ x.references \subseteq references
    BY <1>2
  <2> HIDE DEF references
  <2>4. c \in IssueOf /\ c.opened = x.opened /\ c.references = references /\ c.comments = x.comments
    BY <1>1, <2>3 DEF IssueOf
  <2> QED
    BY <1>3, <2>2, <2>3, <2>4
<1>9. ASSUME NEW comments \in Seq(CommentOf), Extends(x.comments, comments),
             Foreign(x.comments, comments)
      PROVE  Changes(x, [x EXCEPT !.comments = comments])
  <2> DEFINE c == [x EXCEPT !.comments = comments]
  <2>1. c \in IssueOf /\ c.opened = x.opened /\ c.references = x.references /\ c.comments = comments
    BY <1>1 DEF IssueOf
  <2> QED
    BY <1>9, <2>1 DEF Changes
<1>10. ASSUME Say(i) PROVE \E c : Touch(i, c) /\ Changes(x, c)
  <2>1. PICK p \in People, body \in Bodies :
          Touch(i, [x EXCEPT !.comments = Append(@, Comment(p, body))])
    BY <1>10 DEF Say, x
  <2> DEFINE comments == Append(x.comments, Comment(p, body))
  <2>2. Touch(i, [x EXCEPT !.comments = comments])
    BY <2>1
  <2>3. Comment(p, body) \in CommentOf
    BY <1>1, CommentTyped DEF Authors, Texts
  <2>4. comments \in Seq(CommentOf) /\ Extends(x.comments, comments)
    BY <1>2, <2>3, AppendExtends
  <2>5. p # Own
    BY OwnIsNoOneElse
  <2>6. Comment(p, body).author = p /\ Comment(p, body).revision = NoRevision
        /\ Comment(p, body).commit = NoCommit
    BY DEF Comment
  <2>7. Foreign(x.comments, comments)
    <3>1. \A k \in DOMAIN comments \ DOMAIN x.comments : comments[k] = Comment(p, body)
      BY <1>2, <2>3, AppendExtends
    <3> QED
      BY <2>5, <2>6, <3>1 DEF Foreign
  <2> QED
    BY <1>9, <2>2, <2>4, <2>7
<1>11. ASSUME EditComment(i) PROVE \E c : Touch(i, c) /\ Changes(x, c)
  <2>1. PICK k \in DOMAIN x.comments :
          Touch(i, [x EXCEPT !.comments[k].edits = @ + 1, !.comments[k].edited = now])
    BY <1>11 DEF EditComment, x
  <2> DEFINE old      == x.comments[k]
             edits    == old.edits + 1
             comment  == [old EXCEPT !.edits = edits, !.edited = now]
             comments == [x.comments EXCEPT ![k] = comment]
  <2>2. old \in CommentOf
    BY <1>2
  <2>3. edits \in Nat
    BY <2>2 DEF CommentOf
  <2>4. [x EXCEPT !.comments[k].edits = @ + 1, !.comments[k].edited = now]
          = [x EXCEPT !.comments = comments]
    BY <1>1, <1>2, <2>1, <2>2 DEF IssueOf, CommentOf
  <2> HIDE DEF edits
  <2>5. comment \in CommentOf /\ Same(old, comment)
    BY <1>1, <2>2, <2>3 DEF CommentOf, Same
  <2> HIDE DEF comment
  <2>6. comments \in Seq(CommentOf) /\ DOMAIN comments = DOMAIN x.comments
    BY <1>2, <2>5
  <2>7. \A j \in DOMAIN x.comments : comments[j] = IF j = k THEN comment ELSE x.comments[j]
    BY <1>2
  <2>8. Extends(x.comments, comments) /\ Foreign(x.comments, comments)
    BY <2>5, <2>6, <2>7 DEF Extends, Foreign, Same
  <2> HIDE DEF comments
  <2> QED
    BY <1>9, <2>1, <2>4, <2>6, <2>8
<1> QED
  BY <1>4, <1>5, <1>6, <1>7, <1>8, <1>10, <1>11 DEF PeopleStep, x

\* The report a run posts is a comment, and the rest of the issue stays.
LEMMA PostsGrow ==
  ASSUME Typed, Placed, NEW r \in Runs, Posts(r)
  PROVE  LET i == run[r].issue
         IN  /\ i \in Issues /\ Report(r) \in CommentOf
             /\ Report(r).author = Own /\ Report(r).revision = run[r].revision
             /\ Report(r).commit = run[r].commit /\ Report(r).by = r /\ Report(r).at = now
             /\ issues' \in [Issues -> IssueOf]
             /\ \A j \in Issues \ {i} : issues'[j] = issues[j]
             /\ issues'[i].comments = Append(issues[i].comments, Report(r))
             /\ issues'[i] = [issues[i] EXCEPT !.comments = Append(issues[i].comments, Report(r)),
                                               !.updated = now]
<1> DEFINE i == run[r].issue
           x == issues[i]
           comments == Append(x.comments, Report(r))
<1>1. i \in Issues /\ run[r] \in RunOf /\ now \in Nat /\ now \in 1 .. MaxTime
  BY LimitsAreNumbers DEF Typed, Placed, Sane, WorkStations, Posts
<1>2. x \in IssueOf /\ x.comments \in Seq(CommentOf)
  BY <1>1, IssueFields DEF Typed
<1> DEFINE body == IF run[r].rule THEN "solution" ELSE "words"
<1>3. body \in Texts /\ Own \in Authors
  BY DEF Texts, Authors
<1> HIDE DEF body
<1>4. Comment(Own, body) \in CommentOf
  BY <1>1, <1>3, CommentTyped
<1>5. Report(r) = [Comment(Own, body) EXCEPT !.revision = run[r].revision,
                                              !.commit = run[r].commit, !.by = r]
  BY DEF Report, body
<1>6. run[r].revision \in Revisions /\ run[r].commit \in Commits
  BY <1>1, RunFields
<1>7. Report(r) \in CommentOf
  BY <1>4, <1>5, <1>6 DEF CommentOf
<1>8. /\ Report(r).author = Own /\ Report(r).revision = run[r].revision
      /\ Report(r).commit = run[r].commit /\ Report(r).by = r /\ Report(r).at = now
  BY <1>5 DEF Comment
<1>9. comments \in Seq(CommentOf)
  BY <1>2, <1>7, AppendExtends
<1>10. issues' = [issues EXCEPT ![i].comments = comments, ![i].updated = now]
  BY DEF Posts
<1> HIDE DEF comments
<1>11. issues' = [issues EXCEPT ![i] = [x EXCEPT !.comments = comments, !.updated = now]]
  BY <1>1, <1>2, <1>10 DEF Typed
<1>12. [x EXCEPT !.comments = comments, !.updated = now] \in IssueOf
  BY <1>1, <1>2, <1>9 DEF IssueOf
<1>13. [x EXCEPT !.comments = comments, !.updated = now].comments = comments
  BY <1>2 DEF IssueOf
<1> HIDE DEF i, x
<1>14. /\ issues' \in [Issues -> IssueOf]
       /\ \A j \in Issues \ {i} : issues'[j] = issues[j]
       /\ issues'[i] = [x EXCEPT !.comments = comments, !.updated = now]
       /\ issues'[i].comments = comments
  BY <1>1, <1>11, <1>12, <1>13 DEF Typed
<1> QED
  BY <1>1, <1>7, <1>8, <1>14 DEF i, x, comments

\* What people do to an issue leaves runs and the other issues alone, but for
\* the history of the runs that are about to post.
LEMMA TouchMoves ==
  ASSUME Typed, NEW i \in Issues, NEW c, Touch(i, c), Changes(issues[i], c)
  PROVE  /\ issues' \in [Issues -> IssueOf] /\ run' \in [Runs -> RunOf]
         /\ \A j \in Issues \ {i} : issues'[j] = issues[j]
         /\ issues'[i] = [c EXCEPT !.updated = now]
         /\ issues'[i].comments = c.comments /\ issues'[i].references = c.references
         /\ issues'[i].opened = issues[i].opened /\ issues'[i].updated = now
         /\ \A r \in Runs : run'[r] =
              IF run[r].posting /\ run[r].issue = i
              THEN [run[r] EXCEPT !.welcome = @ \/ TakesReport(c, run[r].force)]
              ELSE run[r]
         /\ UNCHANGED <<now, branch>> /\ acts' \in 0 .. MaxActs
<1>1. c \in IssueOf /\ now \in Nat /\ now \in 1 .. MaxTime
  BY LimitsAreNumbers DEF Changes, Typed
<1>2. [c EXCEPT !.updated = now] \in IssueOf
  BY <1>1 DEF IssueOf
<1>3. /\ [c EXCEPT !.updated = now].comments = c.comments
      /\ [c EXCEPT !.updated = now].references = c.references
      /\ [c EXCEPT !.updated = now].opened = issues[i].opened
      /\ [c EXCEPT !.updated = now].updated = now
  BY <1>1 DEF IssueOf, Changes
<1>4. issues' = [issues EXCEPT ![i] = [c EXCEPT !.updated = now]]
  BY DEF Touch
<1>5. /\ issues' \in [Issues -> IssueOf]
      /\ \A j \in Issues \ {i} : issues'[j] = issues[j]
      /\ issues'[i] = [c EXCEPT !.updated = now]
  BY <1>2, <1>4 DEF Typed
<1>6. ASSUME NEW r \in Runs, NEW w \in BOOLEAN
      PROVE  [run[r] EXCEPT !.welcome = w] \in RunOf
  <2>1. run[r] \in RunOf
    BY DEF Typed
  <2> QED
    BY <1>6, <2>1 DEF RunOf
<1> DEFINE w(r) == run[r].welcome \/ TakesReport(c, run[r].force)
<1>7. \A r \in Runs : w(r) \in BOOLEAN
  OBVIOUS
<1>8. run' = [r \in Runs |-> IF run[r].posting /\ run[r].issue = i
                             THEN [run[r] EXCEPT !.welcome = w(r)] ELSE run[r]]
  BY DEF Touch
<1>9. \A r \in Runs : run[r] \in RunOf
  BY DEF Typed
<1> HIDE DEF w
<1>10. run' \in [Runs -> RunOf]
  BY <1>6, <1>7, <1>8, <1>9
<1>11. acts' \in 0 .. MaxActs
  BY LimitsAreNumbers DEF Touch, Act, Typed
<1>12. UNCHANGED <<now, branch>>
  BY DEF Touch
<1>13. \A r \in Runs : run'[r] =
              IF run[r].posting /\ run[r].issue = i
              THEN [run[r] EXCEPT !.welcome = @ \/ TakesReport(c, run[r].force)]
              ELSE run[r]
  BY <1>8 DEF w
<1> QED
  BY <1>3, <1>5, <1>10, <1>11, <1>12, <1>13

\* An issue that is opened.
LEMMA OpenMoves ==
  ASSUME Typed, NEW i \in Issues, OpenIssue(i)
  PROVE  /\ issues' \in [Issues -> IssueOf]
         /\ \A j \in Issues \ {i} : issues'[j] = issues[j]
         /\ issues'[i].comments = issues[i].comments /\ issues'[i].references = issues[i].references
         /\ issues'[i].opened = now /\ issues'[i].updated = now
         /\ issues[i].opened = 0
         /\ UNCHANGED <<now, branch, run>> /\ acts' \in 0 .. MaxActs
<1>1. issues[i] \in IssueOf /\ now \in Nat /\ now \in 1 .. MaxTime
  BY LimitsAreNumbers DEF Typed
<1> DEFINE c == [issues[i] EXCEPT !.opened = now, !.updated = now, !.open = TRUE]
<1>2. /\ c \in IssueOf /\ c.comments = issues[i].comments /\ c.references = issues[i].references
      /\ c.opened = now /\ c.updated = now
  BY <1>1 DEF IssueOf
<1>3. issues' = [issues EXCEPT ![i] = c]
  BY DEF OpenIssue
<1>4. acts' \in 0 .. MaxActs /\ UNCHANGED <<now, branch, run>> /\ issues[i].opened = 0
  BY LimitsAreNumbers DEF OpenIssue, Act, Typed
<1> HIDE DEF c
<1> QED
  BY <1>2, <1>3, <1>4 DEF Typed

------------------------------------------------------------------------------
(* Every step keeps the types *)

\* A run that has concluded remembers what it worked on.
Ended(r, outcome, y) ==
  /\ y \in RunOf /\ Moves(r, y) /\ y.at = "removing" /\ y.outcome = outcome
  /\ y.mode = run[r].mode /\ y.taken = run[r].taken /\ y.issue = run[r].issue
  /\ y.revision = run[r].revision /\ y.posting = FALSE /\ y.commit = NoCommit
  /\ y.listed = <<>> /\ y.captured = 0

\* To conclude is to end so.
LEMMA Concludes ==
  ASSUME Typed, NEW r \in Runs, NEW outcome \in Outcomes, Conclude(r, outcome)
  PROVE  \E y : Ended(r, outcome, y)
<1> DEFINE y == Concluded(r, outcome)
<1>1. y \in RunOf /\ Moves(r, y)
  BY EndsTyped
<1>2. NewRun \in RunOf /\ NewRun.posting = FALSE /\ NewRun.commit = NoCommit
      /\ NewRun.listed = <<>> /\ NewRun.captured = 0
  BY FreshTyped DEF Typed, NewRun
<1>3. /\ y.at = "removing" /\ y.outcome = outcome
      /\ y.mode = run[r].mode /\ y.taken = run[r].taken /\ y.issue = run[r].issue
      /\ y.revision = run[r].revision /\ y.posting = NewRun.posting /\ y.commit = NewRun.commit
      /\ y.listed = NewRun.listed /\ y.captured = NewRun.captured
  BY <1>2 DEF Concluded, RunOf
<1>4. Ended(r, outcome, y)
  BY <1>1, <1>2, <1>3 DEF Ended
<1> QED
  BY <1>4

\* The steps of a run.
RunsStep(r) ==
  StartBacklog(r) \/ Stop(r) \/ RunStep(r) \/ \E i \in Issues : StartIssue(r, i)

\* Those of its selection, from which no report comes.
Selects(r) ==
  \/ StartBacklog(r) \/ Stop(r) \/ \E i \in Issues : StartIssue(r, i)
  \/ ReadOpenIssuePage(r) \/ Visit(r) \/ EndOfPage(r) \/ SelectionFails(r)
  \/ TakeNext(r) \/ SealBacklog(r) \/ RemoveCheckout(r)

\* A step of a run leaves the other runs alone, writes a report or none, and
\* adds its screenshots to the branch or none.
LEMMA RunMoves ==
  ASSUME Typed, Placed, NEW r \in Runs, RunsStep(r)
  PROVE  /\ \E y \in RunOf : Moves(r, y) /\ Sane(y)
         /\ UNCHANGED <<now, acts>>
         /\ UNCHANGED issues \/ (Posts(r) /\ (CreateComment(r) \/ AnswerLost(r)))
         /\ \/ UNCHANGED branch
            \/ HostScreenshots(r) /\ branch' = Append(branch, <<r, run[r].issue>>)
<1>1. CASE Selects(r)
  <2>1. \E y : Selecting(r, y)
    BY <1>1, SelectionMoves DEF Selects
  <2>2. UNCHANGED <<now, issues, branch, acts>>
    BY <1>1 DEF Selects, StartBacklog, Stop, StartIssue, ReadOpenIssuePage, Visit, EndOfPage,
                SelectionFails, TakeNext, SealBacklog, RemoveCheckout
  <2> QED
    BY <2>1, <2>2 DEF Selecting
<1> DEFINE Working == run[r].at \in WorkStations /\ run[r].issue \in Issues
<1>2. ASSUME NEW outcome \in Outcomes, Conclude(r, outcome), Working
      PROVE  \E y \in RunOf : Moves(r, y) /\ Sane(y)
  <2>1. PICK y : Ended(r, outcome, y)
    BY <1>2, Concludes
  <2> QED
    BY <1>2, <2>1 DEF Ended, Sane
<1>3. ASSUME NEW at \in WorkStations, NEW y, Continues(r, at, y), Working
      PROVE  \E z \in RunOf : Moves(r, z) /\ Sane(z)
  BY <1>3 DEF Continues, Sane, WorkStations
<1>4. \A o \in {"failed", "not reported", "already reported", "posted"} : o \in Outcomes
  BY DEF Outcomes
<1>5. \A at \in {"reading", "finding", "watching", "working", "guarding", "hosting", "updating",
                 "commenting"} : at \in WorkStations
  BY DEF WorkStations
<1>6. CASE FetchIssue(r) \/ FetchComments(r) \/ ReadIssue(r) \/ ReadTimeline(r)
  <2>1. Working
    BY <1>6 DEF FetchIssue, FetchComments, ReadIssue, ReadTimeline, Placed, Sane, WorkStations
  <2>2. UNCHANGED <<now, issues, branch, acts>>
    BY <1>6 DEF FetchIssue, FetchComments, ReadIssue, ReadTimeline
  <2>3. \/ Conclude(r, "not reported")
        \/ \E at \in {"reading", "finding", "watching", "working"} : \E y : Continues(r, at, y)
    BY <1>6, WorkMoves
  <2> HIDE DEF Working
  <2> QED
    BY <1>2, <1>3, <1>4, <1>5, <2>1, <2>2, <2>3
<1>7. CASE FindReport(r) \/ Work(r) \/ ReadBranchHead(r) \/ RefConflict(r) \/ HostingFails(r)
  <2>1. Working
    BY <1>7 DEF FindReport, Work, ReadBranchHead, RefConflict, HostingFails, Placed, Sane, WorkStations
  <2>2. UNCHANGED <<now, issues, branch, acts>>
    BY <1>7 DEF FindReport, Work, ReadBranchHead, RefConflict, HostingFails
  <2>3. \/ \E o \in {"failed", "not reported", "already reported"} : Conclude(r, o)
        \/ \E at \in {"guarding", "hosting", "commenting", "updating"} : \E y : Continues(r, at, y)
    BY <1>7, PostMoves
  <2> HIDE DEF Working
  <2> QED
    BY <1>2, <1>3, <1>4, <1>5, <2>1, <2>2, <2>3
<1>8. CASE HostScreenshots(r)
  <2>1. Working
    BY <1>8 DEF HostScreenshots, Placed, Sane, WorkStations
  <2>2. UNCHANGED <<now, issues, acts>> /\ branch' = Append(branch, <<r, run[r].issue>>)
    BY <1>8 DEF HostScreenshots, UpdateRef
  <2>3. \E y : Continues(r, "commenting", y)
    BY <1>8, PostMoves
  <2> HIDE DEF Working
  <2> QED
    BY <1>3, <1>5, <1>8, <2>1, <2>2, <2>3
<1>9. CASE \/ PreparationFails(r) \/ RequestFails(r)
           \/ CreateComment(r) \/ AnswerLost(r) \/ CommentRefused(r)
  <2>1. Working
    BY <1>9 DEF PreparationFails, RequestFails, CreateComment, AnswerLost, CommentRefused, Posts,
                Placed, Sane, WorkStations
  <2>2. /\ UNCHANGED <<now, branch, acts>>
        /\ UNCHANGED issues \/ (Posts(r) /\ (CreateComment(r) \/ AnswerLost(r)))
    BY <1>9 DEF PreparationFails, RequestFails, CreateComment, AnswerLost, CommentRefused
  <2>3. Conclude(r, "failed") \/ Conclude(r, "posted")
    BY <1>9, ConcludingMoves
  <2> HIDE DEF Working
  <2> QED
    BY <1>2, <1>4, <2>1, <2>2, <2>3
<1> QED
  BY <1>1, <1>6, <1>7, <1>8, <1>9 DEF RunsStep, RunStep, Selects

\* A step is one of a run, of people, of the clock, or none.
LEMMA Steps ==
  ASSUME [Next]_vars
  PROVE  \/ \E r \in Runs : RunsStep(r)
         \/ \E i \in Issues : PeopleStep(i)
         \/ Tick
         \/ UNCHANGED vars
BY DEF Next, RunsStep

\* At first everything has its type, and no run works.
LEMMA InitTyped == Init => Typed /\ Placed
<1> SUFFICES ASSUME Init PROVE Typed /\ Placed
  OBVIOUS
<1>1. now \in 1 .. MaxTime /\ acts \in 0 .. MaxActs /\ branch \in Seq(Hosted)
  BY LimitsAreNumbers DEF Init
<1>2. Unopened \in IssueOf /\ Opened \in IssueOf /\ NewRun \in RunOf
  BY <1>1, FreshTyped
<1>3. [Opened EXCEPT !.comments = <<Comment(Reporter, "words")>>] \in IssueOf
  <2>1. Comment(Reporter, "words") \in CommentOf
    BY <1>1, CommentTyped DEF Authors, Texts
  <2>2. <<Comment(Reporter, "words")>> \in Seq(CommentOf)
    BY <2>1
  <2> QED
    BY <1>2, <2>2 DEF IssueOf
<1>4. issues \in [Issues -> IssueOf]
  BY <1>2, <1>3 DEF Init
<1>5. run \in [Runs -> RunOf] /\ \A r \in Runs : run[r] = NewRun
  BY <1>2 DEF Init
<1>6. NewRun.at = "idle"
  BY DEF NewRun
<1> QED
  BY <1>1, <1>4, <1>5, <1>6 DEF Typed, Placed, Sane, WorkStations

\* Every step keeps it so.
LEMMA NextTyped == Typed /\ Placed /\ [Next]_vars => (Typed /\ Placed)'
<1> SUFFICES ASSUME Typed, Placed, [Next]_vars PROVE (Typed /\ Placed)'
  OBVIOUS
<1>1. ASSUME NEW r \in Runs, RunsStep(r) PROVE (Typed /\ Placed)'
  <2>1. PICK y \in RunOf : Moves(r, y) /\ Sane(y)
    BY <1>1, RunMoves
  <2>2. run' \in [Runs -> RunOf] /\ run'[r] = y /\ \A s \in Runs \ {r} : run'[s] = run[s]
    BY <2>1, MoveTyped
  <2>3. Placed'
    BY <2>1, <2>2 DEF Placed, Sane
  <2>4. now' \in 1 .. MaxTime /\ acts' \in 0 .. MaxActs
    BY <1>1, RunMoves DEF Typed
  <2>5. issues' \in [Issues -> IssueOf]
    <3>1. CASE UNCHANGED issues
      BY <3>1 DEF Typed
    <3>2. CASE Posts(r)
      BY <3>2, PostsGrow
    <3> QED
      BY <1>1, <3>1, <3>2, RunMoves
  <2>6. branch' \in Seq(Hosted)
    <3>1. CASE UNCHANGED branch
      BY <3>1 DEF Typed
    <3>2. CASE HostScreenshots(r) /\ branch' = Append(branch, <<r, run[r].issue>>)
      <4>1. <<r, run[r].issue>> \in Hosted
        BY <3>2 DEF HostScreenshots, Placed, Sane, WorkStations, Hosted
      <4>2. branch \in Seq(Hosted)
        BY DEF Typed
      <4> QED
        BY <3>2, <4>1, <4>2, AppendProperties
    <3> QED
      BY <1>1, <3>1, <3>2, RunMoves
  <2> QED
    BY <2>2, <2>3, <2>4, <2>5, <2>6 DEF Typed
<1>2. ASSUME NEW i \in Issues, PeopleStep(i) PROVE (Typed /\ Placed)'
  <2>1. CASE OpenIssue(i)
    BY <2>1, OpenMoves DEF Typed, Placed, Sane
  <2>2. ASSUME NEW c, Touch(i, c), Changes(issues[i], c) PROVE (Typed /\ Placed)'
    <3>1. Typed'
      BY <2>2, TouchMoves DEF Typed
    <3>2. \A r \in Runs : run'[r].at = run[r].at /\ run'[r].issue = run[r].issue
                          /\ run'[r].page = run[r].page
      <4>1. \A r \in Runs : run[r] \in RunOf
        BY DEF Typed
      <4>2. \A r \in Runs : run'[r] = run[r] \/ \E w : run'[r] = [run[r] EXCEPT !.welcome = w]
        BY <2>2, TouchMoves
      <4> QED
        BY <4>1, <4>2, ZenonT(60) DEF RunOf
    <3>3. Placed'
      BY <3>2 DEF Placed, Sane
    <3> QED
      BY <3>1, <3>3
  <2> QED
    BY <1>2, <2>1, <2>2, PeopleChange
<1>3. CASE Tick
  BY <1>3, LimitsAreNumbers DEF Tick, Typed, Placed, Sane
<1>4. CASE UNCHANGED vars
  BY <1>4 DEF vars, Typed, Placed, Sane
<1> QED
  BY <1>1, <1>2, <1>3, <1>4, Steps

\* What people do changes nothing of a run but its history.
LEMMA PeopleRuns ==
  ASSUME Typed, NEW i \in Issues, PeopleStep(i), NEW r \in Runs
  PROVE  /\ run'[r].at = run[r].at /\ run'[r].mode = run[r].mode /\ run'[r].force = run[r].force
         /\ run'[r].issue = run[r].issue /\ run'[r].revision = run[r].revision
         /\ run'[r].posting = run[r].posting /\ run'[r].commit = run[r].commit
         /\ run'[r].facts = run[r].facts /\ run'[r].captured = run[r].captured
         /\ run'[r].listed = run[r].listed /\ run'[r].taken = run[r].taken
         /\ run'[r].outcome = run[r].outcome
<1>1. run[r] \in RunOf
  BY DEF Typed
<1>2. run'[r] = run[r] \/ \E w : run'[r] = [run[r] EXCEPT !.welcome = w]
  <2>1. CASE OpenIssue(i)
    BY <2>1, OpenMoves
  <2>2. ASSUME NEW c, Touch(i, c), Changes(issues[i], c)
        PROVE  run'[r] = run[r] \/ \E w : run'[r] = [run[r] EXCEPT !.welcome = w]
    BY <2>2, TouchMoves
  <2> QED
    BY <2>1, <2>2, PeopleChange
<1> QED
  BY <1>1, <1>2, ZenonT(60) DEF RunOf

\* A step keeps every comment at its place and adds none, words of people, or
\* the report of one run.
LEMMA CommentsGrow ==
  ASSUME Typed, Placed, [Next]_vars, NEW i \in Issues
  PROVE  /\ Extends(issues[i].comments, issues'[i].comments)
         /\ \/ Foreign(issues[i].comments, issues'[i].comments)
            \/ \E r \in Runs : /\ Posts(r) /\ run[r].issue = i
                               /\ CreateComment(r) \/ AnswerLost(r)
                               /\ Report(r) \in CommentOf
                               /\ issues'[i].comments = Append(issues[i].comments, Report(r))
<1> DEFINE old == issues[i].comments
<1>1. Extends(old, old) /\ Foreign(old, old)
  BY UnchangedExtends
<1>2. ASSUME issues'[i].comments = old
      PROVE  Extends(old, issues'[i].comments) /\ Foreign(old, issues'[i].comments)
  BY <1>1, <1>2
<1>3. ASSUME NEW r \in Runs, RunsStep(r), ~UNCHANGED issues, run[r].issue = i
      PROVE  /\ Extends(old, issues'[i].comments)
             /\ Posts(r) /\ Report(r) \in CommentOf /\ (CreateComment(r) \/ AnswerLost(r))
             /\ issues'[i].comments = Append(old, Report(r))
  <2>1. Posts(r) /\ (CreateComment(r) \/ AnswerLost(r))
    BY <1>3, RunMoves
  <2>2. Report(r) \in CommentOf /\ issues'[i].comments = Append(old, Report(r))
    BY <1>3, <2>1, PostsGrow
  <2>3. old \in Seq(CommentOf)
    BY IssueFields DEF Typed
  <2>4. Extends(old, Append(old, Report(r)))
    BY <2>2, <2>3, AppendExtends
  <2> QED
    BY <2>1, <2>2, <2>4
<1>4. ASSUME NEW r \in Runs, RunsStep(r), ~UNCHANGED issues, run[r].issue # i
      PROVE  issues'[i].comments = old
  <2>1. Posts(r)
    BY <1>4, RunMoves
  <2>2. \A j \in Issues \ {run[r].issue} : issues'[j] = issues[j]
    BY <2>1, PostsGrow
  <2> QED
    BY <1>4, <2>2
<1>5. ASSUME NEW j \in Issues, PeopleStep(j)
      PROVE  Extends(old, issues'[i].comments) /\ Foreign(old, issues'[i].comments)
  <2>1. CASE OpenIssue(j)
    BY <1>2, <2>1, OpenMoves
  <2>2. ASSUME NEW c, Touch(j, c), Changes(issues[j], c)
        PROVE  Extends(old, issues'[i].comments) /\ Foreign(old, issues'[i].comments)
    <3>1. CASE i = j
      BY <2>2, <3>1, TouchMoves, ZenonT(60) DEF Changes
    <3>2. CASE i # j
      BY <1>2, <2>2, <3>2, TouchMoves, ZenonT(60)
    <3> QED
      BY <3>1, <3>2
  <2> QED
    BY <1>5, <2>1, <2>2, PeopleChange
<1>6. CASE UNCHANGED issues
  BY <1>2, <1>6
<1>7. CASE Tick \/ UNCHANGED vars
  BY <1>6, <1>7 DEF Tick, vars
<1> QED
  BY <1>3, <1>4, <1>2, <1>5, <1>6, <1>7, Steps

\* An issue is opened before it is changed, and not in the future.
Dated == \A i \in Issues : issues[i].opened <= issues[i].updated /\ issues[i].updated <= now

\* Every step keeps the order of the times.
LEMMA NextDated == Typed /\ Placed /\ Dated /\ [Next]_vars => Dated'
<1> SUFFICES ASSUME Typed, Placed, Dated, [Next]_vars PROVE Dated'
  OBVIOUS
<1>0. now \in Nat /\ \A i \in Issues : issues[i] \in IssueOf /\ issues[i].opened \in Nat /\ issues[i].updated \in Nat
  BY LimitsAreNumbers, IssueFields DEF Typed
<1>1. ASSUME NEW r \in Runs, RunsStep(r) PROVE Dated'
  <2>1. UNCHANGED now
    BY <1>1, RunMoves
  <2>2. CASE UNCHANGED issues
    BY <2>1, <2>2 DEF Dated
  <2>3. CASE Posts(r)
    <3> DEFINE i == run[r].issue
    <3>1. i \in Issues /\ \A j \in Issues \ {i} : issues'[j] = issues[j]
      BY <2>3, PostsGrow
    <3>2. issues'[i].opened = issues[i].opened /\ issues'[i].updated = now
      <4>1. issues[i] \in IssueOf
        BY <3>1 DEF Typed
      <4>2. issues'[i] = [issues[i] EXCEPT !.comments = Append(issues[i].comments, Report(r)),
                                           !.updated = now]
        BY <2>3, PostsGrow
      <4> QED
        BY <4>1, <4>2 DEF IssueOf
    <3> HIDE DEF i
    <3> QED
      BY <1>0, <2>1, <3>1, <3>2 DEF Dated
  <2> QED
    BY <1>1, <2>2, <2>3, RunMoves
<1>2. ASSUME NEW i \in Issues, PeopleStep(i) PROVE Dated'
  <2>1. CASE OpenIssue(i)
    BY <1>0, <2>1, OpenMoves DEF Dated
  <2>2. ASSUME NEW c, Touch(i, c), Changes(issues[i], c) PROVE Dated'
    <3>1. /\ \A j \in Issues \ {i} : issues'[j] = issues[j]
          /\ issues'[i].opened = issues[i].opened /\ issues'[i].updated = now /\ UNCHANGED now
      BY <2>2, TouchMoves
    <3> QED
      BY <1>0, <3>1 DEF Dated
  <2> QED
    BY <1>2, <2>1, <2>2, PeopleChange
<1>3. CASE Tick
  BY <1>0, <1>3 DEF Tick, Dated
<1>4. CASE UNCHANGED vars
  BY <1>4 DEF vars, Dated
<1> QED
  BY <1>1, <1>2, <1>3, <1>4, Steps
------------------------------------------------------------------------------
(* What a run has committed, and what it is about to post *)

\* What a run is about to post it is about to post at the stations that lead
\* from the second guard to the comment.
Course ==
  \A r \in Runs :
    /\ run[r].posting => run[r].at \in {"guarding", "watching", "finding", "hosting",
                                        "updating", "commenting"}
    /\ run[r].at \in {"hosting", "updating", "commenting"} => run[r].posting

\* The reasons for which a run has an outcome.
Reason(r, outcome) ==
  LET comments == issues[run[r].issue].comments
  IN  /\ run[r].at \in WorkStations \ {"removing"}
      /\ outcome = "posted" => CreateComment(r)
      /\ outcome = "already reported" =>
           run[r].at = "finding" /\ FindRevisionReport(comments, run[r].revision)
      /\ outcome = "not reported" => run[r].at \in {"reading", "watching", "working"}

\* The run of one issue goes on from station to station.
Progress(r, y) ==
  LET now0     == issues[run[r].issue]
      at(a, b) == run[r].at = a /\ y.at = b
  IN  /\ Continues(r, y.at, y)
      /\ \/ at("fetching", "reading") /\ Keeps(r, y) /\ y.revision = run[r].revision
         \/ at("reading", "finding") /\ Keeps(r, y) /\ y.revision # NoRevision
         \/ /\ y.revision = run[r].revision
            /\ \/ /\ at("finding", IF ~run[r].posting THEN "guarding"
                                   ELSE IF run[r].rule THEN "hosting" ELSE "commenting")
                  /\ Keeps(r, y) /\ ~FindRevisionReport(now0.comments, run[r].revision)
               \/ at("guarding", "watching") /\ Keeps(r, y) /\ y.facts = now0
               \/ /\ at("watching", IF run[r].posting THEN "finding" ELSE "working")
                  /\ Keeps(r, y)
                  /\ ~Silenced(PublicationFacts(run[r].facts, now0), run[r].force)
               \/ /\ at("working", "guarding") /\ y.commit = run[r].commit
                  /\ y.posting = TRUE /\ y.welcome = TakesReport(now0, run[r].force)
               \/ /\ run[r].at \in {"hosting", "updating"}
                  /\ y.at \in {"hosting", "updating", "commenting"} /\ Keeps(r, y)
               \/ /\ HostScreenshots(r) /\ at("updating", "commenting")
                  /\ y.posting = run[r].posting /\ y.rule = run[r].rule
                  /\ y.welcome = run[r].welcome /\ y.commit = <<r, run[r].issue>>

\* A step of a run's work brings it to the next station or to an outcome.
Worked(r) ==
  \/ \E outcome \in Outcomes : Ended(r, outcome, run'[r]) /\ Reason(r, outcome)
  \/ Progress(r, run'[r])

\* A step of a run that is none of the selection is one of the work.
LEMMA Works ==
  ASSUME Typed, Placed, NEW r \in Runs, RunsStep(r), ~Selects(r)
  PROVE  Worked(r)
<1>1. ASSUME NEW outcome \in Outcomes, Conclude(r, outcome), Reason(r, outcome) PROVE Worked(r)
  <2>1. PICK y : Ended(r, outcome, y)
    BY <1>1, Concludes
  <2>2. run'[r] = y
    BY <2>1, MoveTyped DEF Ended
  <2> QED
    BY <1>1, <2>1, <2>2 DEF Worked
<1>2. \A o \in {"failed", "not reported", "already reported", "posted"} : o \in Outcomes
  BY DEF Outcomes
<1>3. ASSUME NEW at, NEW y, Continues(r, at, y) PROVE y.at = at /\ run'[r] = y
  BY <1>3, MoveTyped DEF Continues
<1>4. ASSUME NEW y, Progress(r, y), y = run'[r] PROVE Worked(r)
  BY <1>4 DEF Worked
<1>5. ASSUME FetchIssue(r) PROVE Worked(r)
  <2>1. PICK y : Continues(r, "reading", y) /\ Keeps(r, y) /\ y.revision = run[r].revision
    BY <1>5, WorkMoves
  <2>2. run[r].at = "fetching"
    BY <1>5 DEF FetchIssue
  <2> QED
    BY <1>3, <1>4, <2>1, <2>2 DEF Progress
<1>6. ASSUME FetchComments(r) PROVE Worked(r)
  <2>1. run[r].at = "reading"
    BY <1>6 DEF FetchComments
  <2>2. CASE Conclude(r, "not reported")
    BY <1>1, <1>2, <2>1, <2>2 DEF Reason, WorkStations
  <2>3. ASSUME NEW y, Continues(r, "finding", y), Keeps(r, y), y.revision # NoRevision
        PROVE  Worked(r)
    BY <1>3, <1>4, <2>1, <2>3 DEF Progress
  <2> QED
    BY <1>6, <2>2, <2>3, WorkMoves
<1>7. ASSUME FindReport(r) PROVE Worked(r)
  <2>1. run[r].at = "finding"
    BY <1>7 DEF FindReport
  <2> DEFINE found == FindRevisionReport(issues[run[r].issue].comments, run[r].revision)
             at    == IF ~run[r].posting THEN "guarding"
                      ELSE IF run[r].rule THEN "hosting" ELSE "commenting"
  <2>2. CASE found /\ Conclude(r, "already reported")
    BY <1>1, <1>2, <2>1, <2>2 DEF Reason, WorkStations
  <2>3. ASSUME ~found, NEW y, Continues(r, at, y), Keeps(r, y), y.revision = run[r].revision
        PROVE  Worked(r)
    <3>1. y.at = at /\ run'[r] = y
      BY <1>3, <2>3
    <3>2. Progress(r, y)
      BY <2>1, <2>3, <3>1 DEF Progress
    <3> QED
      BY <1>4, <3>1, <3>2
  <2> QED
    BY <1>7, <2>2, <2>3, PostMoves
<1>8. ASSUME ReadIssue(r) PROVE Worked(r)
  <2>1. PICK y : /\ Continues(r, "watching", y) /\ Keeps(r, y)
                 /\ y.revision = run[r].revision /\ y.facts = issues[run[r].issue]
    BY <1>8, WorkMoves
  <2>2. run[r].at = "guarding"
    BY <1>8 DEF ReadIssue
  <2> QED
    BY <1>3, <1>4, <2>1, <2>2 DEF Progress
<1>9. ASSUME ReadTimeline(r) PROVE Worked(r)
  <2>1. run[r].at = "watching"
    BY <1>9 DEF ReadTimeline
  <2> DEFINE at == IF run[r].posting THEN "finding" ELSE "working"
  <2>2. CASE Conclude(r, "not reported")
    BY <1>1, <1>2, <2>1, <2>2 DEF Reason, WorkStations
  <2>3. ASSUME ~Silenced(PublicationFacts(run[r].facts, issues[run[r].issue]), run[r].force),
               NEW y, Continues(r, at, y), Keeps(r, y), y.revision = run[r].revision
        PROVE  Worked(r)
    <3>1. y.at = at /\ run'[r] = y
      BY <1>3, <2>3
    <3>2. Progress(r, y)
      BY <2>1, <2>3, <3>1 DEF Progress
    <3> QED
      BY <1>4, <3>1, <3>2
  <2> QED
    BY <1>9, <2>2, <2>3, WorkMoves
<1>10. ASSUME Work(r) PROVE Worked(r)
  <2>1. run[r].at = "working"
    BY <1>10 DEF Work
  <2>2. CASE Conclude(r, "failed") \/ Conclude(r, "not reported")
    BY <1>1, <1>2, <2>1, <2>2 DEF Reason, WorkStations
  <2>3. ASSUME NEW y, Continues(r, "guarding", y), y.revision = run[r].revision,
               y.posting = TRUE, y.commit = run[r].commit,
               y.welcome = TakesReport(issues[run[r].issue], run[r].force)
        PROVE  Worked(r)
    BY <1>3, <1>4, <2>1, <2>3 DEF Progress
  <2> QED
    BY <1>10, <2>2, <2>3, PostMoves
<1>11. ASSUME ReadBranchHead(r) PROVE Worked(r)
  <2>1. PICK y : Continues(r, "updating", y) /\ Keeps(r, y) /\ y.revision = run[r].revision
    BY <1>11, PostMoves
  <2>2. run[r].at = "hosting"
    BY <1>11 DEF ReadBranchHead
  <2> QED
    BY <1>3, <1>4, <2>1, <2>2 DEF Progress
<1>12. ASSUME HostScreenshots(r) PROVE Worked(r)
  <2>1. PICK y : /\ Continues(r, "commenting", y) /\ y.revision = run[r].revision
                 /\ y.posting = run[r].posting /\ y.rule = run[r].rule
                 /\ y.welcome = run[r].welcome /\ y.commit = <<r, run[r].issue>>
    BY <1>12, PostMoves
  <2>2. run[r].at = "updating"
    BY <1>12 DEF HostScreenshots
  <2> QED
    BY <1>3, <1>4, <1>12, <2>1, <2>2 DEF Progress
<1>13. ASSUME RefConflict(r) \/ HostingFails(r) PROVE Worked(r)
  <2>1. run[r].at \in {"hosting", "updating"}
    BY <1>13 DEF RefConflict, HostingFails
  <2>2. CASE Conclude(r, "failed")
    BY <1>1, <1>2, <2>1, <2>2 DEF Reason, WorkStations
  <2>3. ASSUME NEW at \in {"hosting", "commenting"}, NEW y,
               Continues(r, at, y), Keeps(r, y), y.revision = run[r].revision
        PROVE  Worked(r)
    BY <1>3, <1>4, <2>1, <2>3 DEF Progress
  <2> QED
    BY <1>13, <2>2, <2>3, PostMoves
<1>14. ASSUME \/ PreparationFails(r) \/ RequestFails(r)
              \/ CreateComment(r) \/ AnswerLost(r) \/ CommentRefused(r)
       PROVE  Worked(r)
  <2>1. run[r].at \in WorkStations \ {"removing"}
    BY <1>14 DEF PreparationFails, RequestFails, CreateComment, AnswerLost, CommentRefused, Posts,
                 WorkStations
  <2>2. CASE Conclude(r, "failed")
    BY <1>1, <1>2, <2>1, <2>2 DEF Reason
  <2>3. CASE CreateComment(r) /\ Conclude(r, "posted")
    BY <1>1, <1>2, <2>1, <2>3 DEF Reason
  <2> QED
    BY <1>14, <2>2, <2>3, ConcludingMoves
<1> QED
  BY <1>5, <1>6, <1>7, <1>8, <1>9, <1>10, <1>11, <1>12, <1>13, <1>14
     DEF RunsStep, RunStep, Selects

\* A run that selects is about to post nothing.
LEMMA SelectsMove ==
  ASSUME Typed, Placed, Course, NEW r \in Runs, Selects(r)
  PROVE  Selecting(r, run'[r]) /\ run'[r].posting = FALSE
<1>1. PICK y : Selecting(r, y)
  BY SelectionMoves DEF Selects
<1>2. run'[r] = y
  BY <1>1, MoveTyped DEF Selecting
<1>3. CASE Stop(r)
  <2>1. SelectionFails(r) \/ SealBacklog(r) \/ Stop(r)
    BY <1>3
  <2>2. \E z : Selecting(r, z) /\ z.at = "over" /\ z.mode = run[r].mode /\ z.posting = FALSE
    BY <2>1, SelectionMoves
  <2>3. PICK z : Selecting(r, z) /\ z.posting = FALSE
    BY <2>2
  <2>4. run'[r] = z
    BY <2>3, MoveTyped DEF Selecting
  <2> QED
    BY <2>3, <2>4
<1>4. CASE ~Stop(r)
  <2>1. run[r].at \in {"idle", "listing", "visiting", "next", "removing"}
    BY <1>4 DEF Selects, StartBacklog, StartIssue, ReadOpenIssuePage, Visit, EndOfPage,
                SelectionFails, TakeNext, SealBacklog, RemoveCheckout
  <2>2. run[r].posting = FALSE
    BY <2>1, RunFields DEF Course, Typed
  <2> QED
    BY <1>1, <1>2, <2>2 DEF Selecting
<1> QED
  BY <1>3, <1>4

\* Every step keeps the course.
LEMMA CourseStep == Typed /\ Placed /\ Course /\ [Next]_vars => Course'
<1> SUFFICES ASSUME Typed, Placed, Course, [Next]_vars PROVE Course'
  OBVIOUS
<1> DEFINE Held(x) ==
      /\ x.posting => x.at \in {"guarding", "watching", "finding", "hosting", "updating",
                                "commenting"}
      /\ x.at \in {"hosting", "updating", "commenting"} => x.posting
<1>1. ASSUME NEW r \in Runs, RunsStep(r) PROVE Course'
  <2>1. \A s \in Runs \ {r} : run'[s] = run[s]
    BY <1>1, RunMoves, MoveTyped
  <2>2. Held(run'[r])
    <3>1. CASE Selects(r)
      BY <3>1, SelectsMove DEF Selecting
    <3>2. CASE ~Selects(r)
      <4>1. Worked(r)
        BY <1>1, <3>2, Works
      <4>2. ASSUME NEW o, Ended(r, o, run'[r]) PROVE Held(run'[r])
        BY <4>2 DEF Ended
      <4>3. CASE Progress(r, run'[r])
        <5>1. Held(run[r]) /\ run[r].posting \in BOOLEAN
          BY RunFields DEF Course, Typed
        <5> QED
          BY <4>3, <5>1 DEF Progress, Keeps
      <4> HIDE DEF Held
      <4> QED
        BY <4>1, <4>2, <4>3 DEF Worked
    <3> QED
      BY <3>1, <3>2
  <2> QED
    BY <2>1, <2>2 DEF Course
<1>2. ASSUME NEW i \in Issues, PeopleStep(i) PROVE Course'
  BY <1>2, PeopleRuns DEF Course
<1>3. CASE Tick \/ UNCHANGED vars
  BY <1>3 DEF Tick, vars, Course
<1> QED
  BY <1>1, <1>2, <1>3, Steps

------------------------------------------------------------------------------
(* Theorems that need no more than the types *)

\* At every moment things have their types and places, and reports their course.
Kind == Typed /\ Placed /\ Dated /\ Course

\* It is so at first, and every step keeps it so.
LEMMA KindStep == (Init => Kind) /\ (Kind /\ [Next]_vars => Kind')
<1>1. ASSUME Init PROVE Dated /\ Course
  <2>1. \A r \in Runs : run[r].posting = FALSE /\ run[r].at = "idle"
    BY <1>1 DEF Init, NewRun
  <2>2. \A i \in Issues : \/ issues[i].opened = 0 /\ issues[i].updated = 0
                          \/ issues[i].opened = now /\ issues[i].updated = now
    BY <1>1 DEF Init, Opened, Unopened
  <2>3. now = 1
    BY <1>1 DEF Init
  <2> QED
    BY <2>1, <2>2, <2>3 DEF Dated, Course
<1>2. Init => Kind
  BY <1>1, InitTyped DEF Kind
<1>3. Kind /\ [Next]_vars => Kind'
  BY NextTyped, NextDated, CourseStep DEF Kind
<1> QED
  BY <1>2, <1>3

\* It holds of every run of the specification.
LEMMA KindInvariance == Spec => []Kind
BY KindStep, PTL DEF Spec

\* Every variable has its type, and the times of an issue their order (TypeOK).
THEOREM TypeCorrect == Spec => []TypeOK
<1>1. Kind => TypeOK
  <2> SUFFICES ASSUME Kind PROVE TypeOK
    OBVIOUS
  <2>1. \A r \in Runs : run[r].issue \in Issues \cup {0}
    BY RunFields DEF Kind, Typed
  <2> QED
    BY <2>1 DEF Kind, Typed, Dated, TypeOK, Hosted
<1> QED
  BY <1>1, KindInvariance, PTL

\* The report a run posts is written by the reports' login, which no revision
\* keeps, so that the next run takes the issue for the same revision, unless
\* that login is the reporter's or a trusted one's and no automation
\* (OwnReportKeepsRevision).
THEOREM ReportKeepsRevision ==
  ASSUME Own \in Bots \/ (Own # Reporter /\ Own \notin Trusted)
  PROVE  Spec => OwnReportKeepsRevision
<1>1. ASSUME Kind, NEW r \in Runs, Posts(r)
      PROVE  LET i == run[r].issue IN RevisionDigest(issues'[i]) = RevisionDigest(issues[i])
  <2> DEFINE i   == run[r].issue
             old == issues[i].comments
             new == issues'[i].comments
             c   == Report(r)
  <2>1. Typed /\ Placed
    BY <1>1 DEF Kind
  <2>2. i \in Issues /\ c \in CommentOf /\ c.author = Own /\ new = Append(old, c)
        /\ issues'[i] = [issues[i] EXCEPT !.comments = Append(old, c), !.updated = now]
    BY <1>1, <2>1, PostsGrow
  <2>3. issues[i] \in IssueOf /\ old \in Seq(CommentOf)
    BY <2>1, <2>2, IssueFields DEF Typed
  <2>4. issues'[i].text = issues[i].text
    BY <2>2, <2>3 DEF IssueOf
  <2>5. /\ DOMAIN new = 1 .. Len(old) + 1 /\ DOMAIN old = 1 .. Len(old) /\ Len(old) \in Nat
        /\ new[Len(old) + 1] = c /\ \A k \in DOMAIN old : new[k] = old[k]
    BY <2>2, <2>3, AppendExtends, SMTT(60)
  <2>6. ~PromptSafe(c)
    BY <2>2 DEF PromptSafe, IsBot
  <2> DEFINE places(comments) == {k \in DOMAIN comments : PromptSafe(comments[k])}
  <2> HIDE DEF i, c, new, old
  <2>7. places(new) = places(old)
    BY <2>5, <2>6
  <2>8. \A k \in places(old) : new[k] = old[k]
    BY <2>5
  <2>9. Kept(new) = Kept(old)
    <3> HIDE DEF places
    <3>1. \A comments : Kept(comments) =
            [k \in places(comments) |->
               [author |-> comments[k].author, edits |-> comments[k].edits, at |-> comments[k].at]]
      BY DEF Kept, places
    <3> QED
      BY <2>7, <2>8, <3>1
  <2> QED
    BY <2>4, <2>9 DEF RevisionDigest, new, old, i
<1>2. Kind /\ [Next]_vars => [\A r \in Runs : Posts(r) =>
        LET i == run[r].issue IN RevisionDigest(issues'[i]) = RevisionDigest(issues[i])]_vars
  BY <1>1
<1> QED
  BY <1>2, KindInvariance, PTL DEF Spec, OwnReportKeepsRevision

\* The commits a run and its reports link are on the branch.
Hosting ==
  LET there == {NoCommit} \cup Range(branch)
  IN  /\ \A r \in Runs : run[r].commit \in there
      /\ \A i \in Issues : \A k \in DOMAIN issues[i].comments : issues[i].comments[k].commit \in there

\* The branch only grows.
LEMMA BranchGrows ==
  ASSUME Typed, Placed, [Next]_vars
  PROVE  Range(branch) \subseteq Range(branch')
<1>1. ASSUME NEW r \in Runs, RunsStep(r), ~UNCHANGED branch
      PROVE  Range(branch) \subseteq Range(branch')
  <2>1. HostScreenshots(r) /\ branch' = Append(branch, <<r, run[r].issue>>)
    BY <1>1, RunMoves
  <2>2. branch \in Seq(Hosted) /\ <<r, run[r].issue>> \in Hosted
    BY <2>1 DEF Typed, Placed, Sane, WorkStations, HostScreenshots, Hosted
  <2>3. /\ DOMAIN branch = 1 .. Len(branch) /\ DOMAIN branch' = 1 .. Len(branch) + 1
        /\ Len(branch) \in Nat
        /\ \A k \in 1 .. Len(branch) : branch'[k] = branch[k]
    BY <2>1, <2>2, AppendProperties
  <2> QED
    BY <2>3 DEF Range
<1>2. ASSUME NEW i \in Issues, PeopleStep(i) PROVE UNCHANGED branch
  BY <1>2, PeopleChange, OpenMoves, TouchMoves
<1>3. CASE Tick \/ UNCHANGED vars
  BY <1>3 DEF Tick, vars
<1> QED
  BY <1>1, <1>2, <1>3, Steps

\* Every step keeps what is linked on the branch.
LEMMA HostingStep == Kind /\ Hosting /\ [Next]_vars => Hosting'
<1> SUFFICES ASSUME Kind, Hosting, [Next]_vars PROVE Hosting'
  OBVIOUS
<1>0. Typed /\ Placed /\ Course
  BY DEF Kind
<1>1. Range(branch) \subseteq Range(branch')
  BY <1>0, BranchGrows
<1> DEFINE there == {NoCommit} \cup Range(branch)
<1>2. \A r \in Runs : run'[r].commit \in there'
  <2>1. ASSUME NEW r \in Runs, RunsStep(r), NEW s \in Runs PROVE run'[s].commit \in there'
    <3>1. CASE s # r
      <4>1. run'[s] = run[s]
        BY <1>0, <2>1, <3>1, RunMoves, MoveTyped
      <4> QED
        BY <1>1, <4>1 DEF Hosting
    <3>2. CASE s = r /\ Selects(r)
      <4>1. run'[r].commit \in {NoCommit, run[r].commit}
        BY <1>0, <3>2, SelectsMove DEF Selecting
      <4> QED
        BY <1>1, <3>2, <4>1 DEF Hosting
    <3>3. CASE s = r /\ ~Selects(r)
      <4>1. Worked(r)
        BY <1>0, <2>1, <3>3, Works
      <4>2. ASSUME NEW o, Ended(r, o, run'[r]) PROVE run'[r].commit = NoCommit
        BY <4>2 DEF Ended
      <4>3. CASE HostScreenshots(r) /\ run'[r].commit = <<r, run[r].issue>>
        <5>1. branch' = Append(branch, <<r, run[r].issue>>)
          BY <4>3 DEF HostScreenshots, UpdateRef
        <5>2. branch \in Seq(Hosted) /\ <<r, run[r].issue>> \in Hosted
          BY <1>0, <4>3 DEF Typed, Placed, Sane, WorkStations, HostScreenshots, Hosted
        <5>3. Len(branch) + 1 \in DOMAIN branch' /\ branch'[Len(branch) + 1] = <<r, run[r].issue>>
          BY <5>1, <5>2, AppendProperties
        <5> QED
          BY <3>3, <4>3, <5>3 DEF Range
      <4>4. \/ \E o : Ended(r, o, run'[r])
            \/ run'[r].commit = run[r].commit
            \/ HostScreenshots(r) /\ run'[r].commit = <<r, run[r].issue>>
        BY <4>1 DEF Worked, Progress, Keeps
      <4> QED
        BY <1>1, <3>3, <4>2, <4>3, <4>4 DEF Hosting
    <3> QED
      BY <3>1, <3>2, <3>3
  <2>2. ASSUME NEW i \in Issues, PeopleStep(i), NEW s \in Runs PROVE run'[s].commit \in there'
    <3>1. run'[s].commit = run[s].commit
      BY <1>0, <2>2, PeopleRuns
    <3> QED
      BY <1>1, <3>1 DEF Hosting
  <2>3. CASE Tick \/ UNCHANGED vars
    BY <2>3 DEF Tick, vars, Hosting
  <2> QED
    BY <2>1, <2>2, <2>3, Steps
<1>3. ASSUME NEW i \in Issues, NEW k \in DOMAIN issues'[i].comments
      PROVE  issues'[i].comments[k].commit \in there'
  <2> DEFINE old == issues[i].comments
             new == issues'[i].comments
  <2>1. CASE k \in DOMAIN old
    <3>1. new[k].commit = old[k].commit
      BY <1>0, <2>1, CommentsGrow DEF Extends, Same
    <3> QED
      BY <1>1, <2>1, <3>1 DEF Hosting
  <2>2. CASE k \notin DOMAIN old
    <3>1. CASE Foreign(old, new)
      BY <1>3, <2>2, <3>1 DEF Foreign
    <3>2. ASSUME NEW r \in Runs, Posts(r), Report(r) \in CommentOf, new = Append(old, Report(r))
          PROVE  new[k].commit \in there'
      <4>1. old \in Seq(CommentOf)
        BY <1>0, IssueFields DEF Typed
      <4>2. new[k] = Report(r)
        BY <1>3, <2>2, <3>2, <4>1, AppendExtends
      <4>3. Report(r).commit = run[r].commit
        BY <1>0, <3>2, PostsGrow
      <4> QED
        BY <1>1, <4>2, <4>3 DEF Hosting
    <3> QED
      BY <1>0, <3>1, <3>2, CommentsGrow
  <2> QED
    BY <2>1, <2>2
<1> QED
  BY <1>2, <1>3 DEF Hosting

\* The screenshots a report shows stay on the branch, because its reference
\* only moves forward (LinksResolve).
THEOREM LinksStayResolved == Spec => []LinksResolve
<1>1. Init => Hosting
  <2> SUFFICES ASSUME Init PROVE Hosting
    OBVIOUS
  <2>1. \A r \in Runs : run[r].commit = NoCommit
    BY DEF Init, NewRun
  <2>2. \A i \in Issues : \A k \in DOMAIN issues[i].comments :
          issues[i].comments[k].commit = NoCommit
    <3>1. \A i \in Issues : \/ issues[i].comments = <<>>
                            \/ issues[i].comments = <<Comment(Reporter, "words")>>
      BY DEF Init, Opened, Unopened
    <3>2. Comment(Reporter, "words").commit = NoCommit
      BY DEF Comment
    <3> QED
      BY <3>1, <3>2
  <2> QED
    BY <2>1, <2>2 DEF Hosting
<1>2. Kind /\ Hosting => LinksResolve
  BY DEF Hosting, LinksResolve, Reports
<1> QED
  BY <1>1, <1>2, HostingStep, KindInvariance, PTL DEF Spec

------------------------------------------------------------------------------
(* A report is posted only where it was welcome *)

\* A sequence over a set is one over every larger set.
LEMMA SequenceIn ==
  ASSUME NEW S, NEW T, S \subseteq T, NEW s \in Seq(S)
  PROVE  s \in Seq(T)
<1>1. s \in [1 .. Len(s) -> S] /\ Len(s) \in Nat
  OBVIOUS
<1>2. s \in [1 .. Len(s) -> T]
  BY <1>1
<1> QED
  BY <1>1, <1>2

\* What the selection makes of the list, of the issues taken, and of the issue.
LEMMA SelectionTakes ==
  ASSUME Typed, Placed, NEW r \in Runs, Selects(r)
  PROVE  LET x == run[r]
             y == run'[r]
         IN  /\ \/ y.listed = <<>> \/ y.listed = x.listed
                \/ x.listed # <<>> /\ y.listed = Tail(x.listed)
                \/ \A k \in DOMAIN y.listed : issues[y.listed[k].number].open
             /\ \/ y.taken = <<>> \/ y.taken = x.taken
                \/ x.taken # <<>> /\ y.taken = Tail(x.taken)
                \/ x.listed # <<>> /\ y.taken = Append(x.taken, Head(x.listed).number)
             /\ \/ y.issue = 0 \/ y.issue = x.issue
                \/ issues[y.issue].opened > 0
                \/ x.taken # <<>> /\ y.issue = Head(x.taken)
<1> DEFINE x == run[r]
           y == run'[r]
           Goal ==
             /\ \/ y.listed = <<>> \/ y.listed = x.listed
                \/ x.listed # <<>> /\ y.listed = Tail(x.listed)
                \/ \A k \in DOMAIN y.listed : issues[y.listed[k].number].open
             /\ \/ y.taken = <<>> \/ y.taken = x.taken
                \/ x.taken # <<>> /\ y.taken = Tail(x.taken)
                \/ x.listed # <<>> /\ y.taken = Append(x.taken, Head(x.listed).number)
             /\ \/ y.issue = 0 \/ y.issue = x.issue
                \/ issues[y.issue].opened > 0
                \/ x.taken # <<>> /\ y.issue = Head(x.taken)
<1>0. x \in RunOf /\ run \in [Runs -> RunOf]
  BY DEF Typed
<1>1. NewRun.listed = <<>> /\ NewRun.taken = <<>> /\ NewRun.issue = 0
  BY DEF NewRun
<1>2. ASSUME SelectionFails(r) \/ SealBacklog(r) \/ Stop(r) PROVE Goal
  <2>1. y = Over(r)
    BY <1>0, <1>2 DEF SelectionFails, SealBacklog, Stop
  <2> QED
    BY <2>1 DEF Over, NewRun
<1>3. ASSUME StartBacklog(r) PROVE Goal
  BY <1>0, <1>3 DEF StartBacklog, NewRun
<1>4. ASSUME NEW i \in Issues, StartIssue(r, i) PROVE Goal
  BY <1>0, <1>4 DEF StartIssue, NewRun
<1>5. ASSUME TakeNext(r) PROVE Goal
  BY <1>0, <1>5 DEF TakeNext, RunOf
<1>6. ASSUME RemoveCheckout(r) PROVE Goal
  BY <1>0, <1>6 DEF RemoveCheckout, NewRun, Over
<1>7. ASSUME EndOfPage(r) PROVE Goal
  BY <1>0, <1>7 DEF EndOfPage, RunOf
<1>8. ASSUME Visit(r) PROVE Goal
  <2> DEFINE summary == Head(x.listed).issue
             number  == Head(x.listed).number
             history == IF summary.comments = <<>> THEN <<>> ELSE issues[number].comments
             due     == Considered(summary, x.captured) /\ Due(summary, history, x.captured)
             taken   == IF due THEN Append(x.taken, number) ELSE x.taken
             listed  == Tail(x.listed)
  <2>1. run' = [run EXCEPT ![r].listed = listed, ![r].taken = taken] /\ x.listed # <<>>
    BY <1>8 DEF Visit
  <2>2. taken = x.taken \/ taken = Append(x.taken, Head(x.listed).number)
    OBVIOUS
  <2> HIDE DEF taken, listed
  <2>3. y.issue = x.issue /\ y.listed = listed /\ y.taken = taken
    BY <1>0, <2>1 DEF RunOf
  <2> QED
    BY <2>1, <2>2, <2>3 DEF listed
<1>9. ASSUME ReadOpenIssuePage(r) PROVE Goal
  <2>1. y.issue = x.issue
    <3>1. \E listed, more :
            run' = [run EXCEPT ![r].at = "visiting", ![r].listed = listed, ![r].more = more]
      BY <1>9 DEF ReadOpenIssuePage
    <3> QED
      BY <1>0, <3>1 DEF RunOf
  <2>2. PICK z : /\ Selecting(r, z) /\ z.taken = x.taken
                 /\ \A k \in DOMAIN z.listed : issues[z.listed[k].number].open
    BY <1>9, SelectionMoves
  <2>3. z = y
    BY <2>2, MoveTyped DEF Selecting
  <2> QED
    BY <2>1, <2>2, <2>3
<1> QED
  BY <1>2, <1>3, <1>4, <1>5, <1>6, <1>7, <1>8, <1>9 DEF Selects

\* The issues that have been opened.
Real == {i \in Issues : issues[i].opened > 0}

\* Runs work on issues that have been opened.
Existing ==
  /\ \A i \in Issues : issues[i].open => i \in Real
  /\ \A r \in Runs : /\ run[r].issue \in Real \cup {0}
                     /\ run[r].taken \in Seq(Real)
                     /\ run[r].listed \in Seq([number : Real, issue : IssueOf])

\* An opened issue stays one.
LEMMA RealGrows ==
  ASSUME Typed, Placed, [Next]_vars, \A i \in Issues : issues[i].open => i \in Real
  PROVE  Real \subseteq Real' /\ \A i \in Issues : issues'[i].open => i \in Real'
<1>0. now \in Nat \ {0} /\ \A i \in Issues : issues[i] \in IssueOf
  BY LimitsAreNumbers DEF Typed
<1>1. ASSUME NEW i \in Issues, issues'[i].opened = issues[i].opened,
             issues'[i].open = issues[i].open \/ i \in Real
      PROVE  (i \in Real => i \in Real') /\ (issues'[i].open => i \in Real')
  BY <1>1 DEF Real
<1>2. ASSUME NEW r \in Runs, Posts(r)
      PROVE  \A i \in Issues : issues'[i].opened = issues[i].opened /\ issues'[i].open = issues[i].open
  <2>1. /\ \A j \in Issues \ {run[r].issue} : issues'[j] = issues[j]
        /\ run[r].issue \in Issues
        /\ issues'[run[r].issue] = [issues[run[r].issue] EXCEPT
             !.comments = Append(issues[run[r].issue].comments, Report(r)), !.updated = now]
    BY <1>2, PostsGrow
  <2> QED
    BY <1>0, <2>1, ZenonT(60) DEF IssueOf
<1>3. ASSUME NEW r \in Runs, RunsStep(r)
      PROVE  \A i \in Issues : issues'[i].opened = issues[i].opened /\ issues'[i].open = issues[i].open
  BY <1>2, <1>3, RunMoves
<1>4. ASSUME NEW i \in Issues, PeopleStep(i)
      PROVE  Real \subseteq Real' /\ \A j \in Issues : issues'[j].open => j \in Real'
  <2>1. CASE OpenIssue(i)
    <3>1. /\ \A j \in Issues \ {i} : issues'[j] = issues[j]
          /\ issues'[i].opened = now
      BY <2>1, OpenMoves
    <3> QED
      BY <1>0, <3>1 DEF Real
  <2>2. ASSUME NEW c, Touch(i, c), Changes(issues[i], c)
        PROVE  Real \subseteq Real' /\ \A j \in Issues : issues'[j].open => j \in Real'
    <3>1. /\ \A j \in Issues \ {i} : issues'[j] = issues[j]
          /\ issues'[i].opened = issues[i].opened
      BY <2>2, TouchMoves
    <3>2. issues[i].opened > 0
      BY <2>2 DEF Touch
    <3> QED
      BY <3>1, <3>2 DEF Real
  <2> QED
    BY <1>4, <2>1, <2>2, PeopleChange
<1>5. CASE Tick \/ UNCHANGED vars
  BY <1>5 DEF Tick, vars, Real
<1>6. ASSUME NEW r \in Runs, RunsStep(r)
      PROVE  Real \subseteq Real' /\ \A j \in Issues : issues'[j].open => j \in Real'
  BY <1>3, <1>6 DEF Real
<1> QED
  BY <1>4, <1>5, <1>6, Steps

\* Every step keeps runs on opened issues.
LEMMA ExistingStep == Kind /\ Existing /\ [Next]_vars => Existing'
<1> SUFFICES ASSUME Kind, Existing, [Next]_vars PROVE Existing'
  OBVIOUS
<1>0. Typed /\ Placed /\ Course
  BY DEF Kind
<1>1. Real \subseteq Real' /\ \A i \in Issues : issues'[i].open => i \in Real'
  BY <1>0, RealGrows DEF Existing
<1> DEFINE Listable == [number : Real, issue : IssueOf]
           Fits(x) == /\ x.issue \in Real \cup {0}
                      /\ x.taken \in Seq(Real)
                      /\ x.listed \in Seq(Listable)
<1>2. ASSUME NEW x, Fits(x)
      PROVE  /\ x.issue \in Real' \cup {0}
             /\ x.taken \in Seq(Real')
             /\ x.listed \in Seq([number : Real', issue : IssueOf])
  <2>1. Listable \subseteq [number : Real', issue : IssueOf]
    BY <1>1
  <2>2. x.taken \in Seq(Real')
    BY <1>1, <1>2, SequenceIn
  <2>3. x.listed \in Seq([number : Real', issue : IssueOf])
    <3> HIDE DEF Listable
    <3> QED
      BY <1>2, <2>1, SequenceIn
  <2> QED
    BY <1>1, <1>2, <2>2, <2>3
<1>3. \A s \in Runs : Fits(run'[s])
  <2>0. \A s \in Runs : Fits(run[s])
    BY DEF Existing
  <2>1. ASSUME NEW r \in Runs, RunsStep(r) PROVE Fits(run'[r])
    <3> DEFINE x == run[r]
               y == run'[r]
    <3>0. x.issue \in Real \cup {0} /\ x.taken \in Seq(Real) /\ x.listed \in Seq(Listable)
      BY <2>0
    <3>1. CASE Selects(r)
      <4>1. y.issue \in Issues \cup {0} /\ y.listed \in Seq([number : Issues, issue : IssueOf])
        BY <1>0, <3>1, SelectsMove, RunFields DEF Selecting
      <4>2. y.issue \in Real \cup {0}
        <5>1. x.taken # <<>> => Head(x.taken) \in Real
          BY <3>0, HeadTailProperties
        <5>2. \/ y.issue = 0 \/ y.issue = x.issue \/ issues[y.issue].opened > 0
              \/ x.taken # <<>> /\ y.issue = Head(x.taken)
          BY <1>0, <3>1, SelectionTakes
        <5> HIDE DEF x, y
        <5> QED
          BY <3>0, <4>1, <5>1, <5>2 DEF Real
      <4>3. y.taken \in Seq(Real)
        <5>1. x.taken # <<>> => Tail(x.taken) \in Seq(Real)
          BY <3>0, HeadTailProperties
        <5>2. x.listed # <<>> => Append(x.taken, Head(x.listed).number) \in Seq(Real)
          <6>1. x.listed # <<>> => Head(x.listed) \in Listable
            BY <3>0, HeadTailProperties
          <6>2. x.listed # <<>> => Head(x.listed).number \in Real
            BY <6>1
          <6> HIDE DEF x
          <6> QED
            BY <3>0, <6>2, AppendProperties
        <5>3. \/ y.taken = <<>> \/ y.taken = x.taken
              \/ x.taken # <<>> /\ y.taken = Tail(x.taken)
              \/ x.listed # <<>> /\ y.taken = Append(x.taken, Head(x.listed).number)
          BY <1>0, <3>1, SelectionTakes
        <5>4. <<>> \in Seq(Real)
          OBVIOUS
        <5> HIDE DEF x, y
        <5> QED
          BY <3>0, <5>1, <5>2, <5>3, <5>4
      <4>4. y.listed \in Seq(Listable)
        <5>1. x.listed # <<>> => Tail(x.listed) \in Seq(Listable)
          BY <3>0, HeadTailProperties
        <5>2. ASSUME \A k \in DOMAIN y.listed : issues[y.listed[k].number].open
              PROVE  y.listed \in Seq(Listable)
          <6> DEFINE All == [number : Issues, issue : IssueOf]
          <6> HIDE DEF x, y
          <6>0. y.listed \in Seq(All)
            BY <4>1
          <6> HIDE DEF All
          <6>1. y.listed \in [1 .. Len(y.listed) -> All] /\ Len(y.listed) \in Nat
            BY <6>0
          <6>2. \A k \in 1 .. Len(y.listed) : y.listed[k] \in Listable
            BY <5>2, <6>1 DEF Existing, All
          <6> HIDE DEF Listable
          <6>3. y.listed \in [1 .. Len(y.listed) -> Listable]
            BY <6>1, <6>2
          <6> QED
            BY <6>1, <6>3
        <5>3. \/ y.listed = <<>> \/ y.listed = x.listed
              \/ x.listed # <<>> /\ y.listed = Tail(x.listed)
              \/ \A k \in DOMAIN y.listed : issues[y.listed[k].number].open
          BY <1>0, <3>1, SelectionTakes
        <5>4. <<>> \in Seq(Listable)
          OBVIOUS
        <5> HIDE DEF x, y, Listable
        <5> QED
          BY <3>0, <5>1, <5>2, <5>3, <5>4
      <4> QED
        BY <4>2, <4>3, <4>4
    <3>2. CASE ~Selects(r)
      <4>1. Worked(r)
        BY <1>0, <2>1, <3>2, Works
      <4>2. ASSUME NEW o, Ended(r, o, y) PROVE y.issue = x.issue /\ y.taken = x.taken /\ y.listed = <<>>
        BY <4>2, <1>0 DEF Ended, Worked
      <4>3. CASE Progress(r, y)
        BY <3>0, <4>3 DEF Progress, Continues
      <4>4. <<>> \in Seq(Listable)
        OBVIOUS
      <4> QED
        BY <3>0, <4>1, <4>2, <4>3, <4>4 DEF Worked
    <3> QED
      BY <3>1, <3>2
  <2>2. ASSUME NEW r \in Runs, RunsStep(r), NEW s \in Runs PROVE Fits(run'[s])
    <3>1. s # r => run'[s] = run[s]
      BY <1>0, <2>2, RunMoves, MoveTyped
    <3> HIDE DEF Fits
    <3> QED
      BY <2>0, <2>1, <2>2, <3>1
  <2>3. ASSUME NEW i \in Issues, PeopleStep(i), NEW s \in Runs PROVE Fits(run'[s])
    BY <1>0, <2>0, <2>3, PeopleRuns
  <2>4. CASE Tick \/ UNCHANGED vars
    BY <2>0, <2>4 DEF Tick, vars
  <2> HIDE DEF Fits
  <2> QED
    BY <2>2, <2>3, <2>4, Steps
<1> HIDE DEF Fits
<1> QED
  BY <1>1, <1>2, <1>3 DEF Existing

\* An issue that takes a report took one before anybody referred to it or wrote.
LEMMA TookReport ==
  ASSUME NEW old \in IssueOf, NEW new \in IssueOf, NEW force \in BOOLEAN,
         new.open = old.open, new.labels = old.labels, new.assigned = old.assigned,
         old.references \subseteq new.references, Extends(old.comments, new.comments),
         TakesReport(new, force)
  PROVE  TakesReport(old, force)
<1>1. \A c \in Range(old.comments) : \E d \in Range(new.comments) : d.author = c.author
  BY DEF Extends, Same, Range
<1> QED
  BY <1>1 DEF TakesReport

\* The publication guard, which reads an issue before its timeline, lets a
\* report through only if the issue took one when it was read.
LEMMA GuardIsRight ==
  ASSUME NEW facts \in IssueOf, NEW later \in IssueOf, NEW force \in BOOLEAN,
         facts.references \subseteq later.references, Extends(facts.comments, later.comments),
         ~Silenced(PublicationFacts(facts, later), force)
  PROVE  TakesReport(facts, force)
<1> DEFINE read == PublicationFacts(facts, later)
<1>1. later.references \in SUBSET References /\ later.comments \in Seq(CommentOf)
  BY IssueFields
<1>2. /\ read \in IssueOf /\ read.open = facts.open /\ read.labels = facts.labels
      /\ read.assigned = facts.assigned /\ read.references = later.references
      /\ read.comments = later.comments
  BY <1>1 DEF PublicationFacts, IssueOf
<1> HIDE DEF read
<1>3. ~Silenced(read, force)
  BY DEF read
<1>4. TakesReport(read, force)
  BY <1>3 DEF Silenced, ExclusionSignals, FixSignals, EngagementSignals, TakesReport, IsBot
<1> QED
  BY <1>2, <1>4, TookReport

\* Comments that stay at their places twice stay there.
LEMMA ExtendsOn ==
  ASSUME NEW a, NEW b, NEW c, Extends(a, b), Extends(b, c)
  PROVE  Extends(a, c)
BY DEF Extends, Same

\* References to an issue only become more.
LEMMA ReferencesGrow ==
  ASSUME Typed, Placed, [Next]_vars, NEW i \in Issues
  PROVE  issues[i].references \subseteq issues'[i].references
<1>1. ASSUME NEW r \in Runs, Posts(r) PROVE issues'[i].references = issues[i].references
  <2>1. /\ \A j \in Issues \ {run[r].issue} : issues'[j] = issues[j]
        /\ issues'[run[r].issue] = [issues[run[r].issue] EXCEPT
             !.comments = Append(issues[run[r].issue].comments, Report(r)), !.updated = now]
    BY <1>1, PostsGrow
  <2>2. issues[i] \in IssueOf
    BY DEF Typed
  <2> QED
    BY <2>1, <2>2 DEF IssueOf
<1>2. ASSUME NEW r \in Runs, RunsStep(r)
      PROVE  issues[i].references \subseteq issues'[i].references
  BY <1>1, <1>2, RunMoves
<1>3. ASSUME NEW j \in Issues, PeopleStep(j)
      PROVE  issues[i].references \subseteq issues'[i].references
  <2>1. CASE OpenIssue(j)
    <3>1. /\ \A k \in Issues \ {j} : issues'[k] = issues[k]
          /\ issues'[j].references = issues[j].references
      BY <2>1, OpenMoves
    <3> QED
      BY <3>1
  <2>2. ASSUME NEW c, Touch(j, c), Changes(issues[j], c)
        PROVE  issues[i].references \subseteq issues'[i].references
    <3>1. /\ \A k \in Issues \ {j} : issues'[k] = issues[k]
          /\ issues'[j].references = c.references /\ issues[j].references \subseteq c.references
      BY <2>2, TouchMoves, ZenonT(60) DEF Changes
    <3> QED
      BY <3>1
  <2> QED
    BY <1>3, <2>1, <2>2, PeopleChange
<1>4. CASE Tick \/ UNCHANGED vars
  BY <1>4 DEF Tick, vars
<1> QED
  BY <1>2, <1>3, <1>4, Steps

\* A run that is about to post has seen the issue take a report, or it takes
\* none now; what the guard has read is what the issue was since.
Welcome(x, issue) ==
  x.posting =>
    /\ TakesReport(issue, x.force) => x.welcome
    /\ x.at = "watching" =>
         /\ x.facts.references \subseteq issue.references
         /\ Extends(x.facts.comments, issue.comments)
         /\ TakesReport(x.facts, x.force) => x.welcome
    /\ x.at \in {"finding", "hosting", "updating", "commenting"} => x.welcome

Welcomed == \A r \in Runs : Welcome(run[r], issues[run[r].issue])

\* A run that does not move stays welcome when another one posts.
LEMMA OthersStayWelcome ==
  ASSUME Kind, Welcomed, [Next]_vars, NEW r \in Runs, RunsStep(r), NEW s \in Runs \ {r}
  PROVE  Welcome(run'[s], issues'[run'[s].issue])
<1> DEFINE x == run[s]
           i == x.issue
<1>0. Typed /\ Placed /\ Course
  BY DEF Kind
<1>1. run'[s] = x
  BY <1>0, RunMoves, MoveTyped
<1>2. x \in RunOf /\ x.force \in BOOLEAN
  BY <1>0, RunFields DEF Typed
<1>3. CASE ~x.posting
  BY <1>1, <1>3 DEF Welcome
<1>4. CASE x.posting
  <2>1. i \in Issues
    BY <1>0, <1>4 DEF Course, Placed, Sane, WorkStations
  <2>2. issues[i] \in IssueOf /\ issues'[i] \in IssueOf
    BY <1>0, <2>1, NextTyped DEF Typed
  <2>3. /\ issues'[i].open = issues[i].open /\ issues'[i].labels = issues[i].labels
        /\ issues'[i].assigned = issues[i].assigned
    <3>1. ASSUME Posts(r)
          PROVE  \/ issues'[i] = issues[i]
                 \/ issues'[i] = [issues[i] EXCEPT
                      !.comments = Append(issues[i].comments, Report(r)), !.updated = now]
      BY <1>0, <2>1, <3>1, PostsGrow
    <3>2. \/ issues'[i] = issues[i]
          \/ issues'[i] = [issues[i] EXCEPT
               !.comments = Append(issues[i].comments, Report(r)), !.updated = now]
      BY <1>0, <3>1, RunMoves
    <3> QED
      BY <2>2, <3>2 DEF IssueOf
  <2>4. issues[i].references \subseteq issues'[i].references
        /\ Extends(issues[i].comments, issues'[i].comments)
    BY <1>0, <2>1, ReferencesGrow, CommentsGrow
  <2>5. TakesReport(issues'[i], x.force) => TakesReport(issues[i], x.force)
    BY <1>2, <2>2, <2>3, <2>4, TookReport
  <2>6. Welcome(x, issues[i])
    BY DEF Welcomed
  <2>7. Extends(x.facts.comments, issues[i].comments) =>
          Extends(x.facts.comments, issues'[i].comments)
    BY <2>4, ExtendsOn
  <2>8. Welcome(x, issues'[i])
    <3> HIDE DEF x, i
    <3> QED
      BY <2>4, <2>5, <2>6, <2>7 DEF Welcome
  <2> QED
    BY <1>1, <2>8
<1> QED
  BY <1>3, <1>4

\* A run that goes on stays welcome: its guard let it through.
LEMMA OwnStepStaysWelcome ==
  ASSUME Kind, Welcomed, [Next]_vars, NEW r \in Runs, RunsStep(r)
  PROVE  Welcome(run'[r], issues'[run'[r].issue])
<1> DEFINE x == run[r]
           y == run'[r]
           i == x.issue
<1>0. Typed /\ Placed /\ Course
  BY DEF Kind
<1>1. x \in RunOf /\ x.force \in BOOLEAN /\ x.posting \in BOOLEAN /\ x.facts \in IssueOf
  BY <1>0, RunFields DEF Typed
<1>2. CASE Selects(r)
  BY <1>0, <1>2, SelectsMove DEF Welcome
<1>3. CASE ~Selects(r)
  <2>1. Worked(r)
    BY <1>0, <1>3, Works
  <2>2. ASSUME NEW o, Ended(r, o, y) PROVE Welcome(y, issues'[y.issue])
    BY <2>2 DEF Ended, Welcome
  <2>3. ASSUME Progress(r, y), y.posting PROVE Welcome(y, issues'[y.issue])
    <3>1. y.issue = i /\ y.force = x.force
      BY <2>3 DEF Progress, Continues
    <3>2. x.at \in WorkStations /\ x.at # "commenting"
      BY <2>3 DEF Progress, WorkStations
    <3>3. i \in Issues
      BY <1>0, <3>2 DEF Placed, Sane
    <3>4. issues' = issues
      BY <1>0, <3>2, RunMoves DEF Posts
    <3>5. issues[i] \in IssueOf
      BY <1>0, <3>3 DEF Typed
    <3>6. Welcome(x, issues[i])
      BY DEF Welcomed
    <3>7. CASE x.at = "working"
      <4>1. y.at = "guarding" /\ y.welcome = TakesReport(issues[i], x.force)
        BY <2>3, <3>7 DEF Progress
      <4> QED
        BY <3>1, <3>4, <4>1 DEF Welcome
    <3>8. CASE x.at # "working"
      <4>1. x.posting /\ y.welcome = x.welcome
        BY <2>3, <3>8 DEF Progress, Keeps
      <4>2. CASE x.at = "guarding"
        <5>1. y.at = "watching" /\ y.facts = issues[i]
          BY <2>3, <4>2 DEF Progress
        <5>2. Extends(issues[i].comments, issues[i].comments)
          BY UnchangedExtends
        <5> HIDE DEF x, y, i
        <5> QED
          BY <3>1, <3>4, <3>6, <4>1, <5>1, <5>2 DEF Welcome
      <4>3. CASE x.at = "watching"
        <5>1. y.at = "finding" /\ ~Silenced(PublicationFacts(x.facts, issues[i]), x.force)
          BY <2>3, <4>1, <4>3 DEF Progress
        <5>2. /\ x.facts.references \subseteq issues[i].references
              /\ Extends(x.facts.comments, issues[i].comments)
              /\ TakesReport(x.facts, x.force) => x.welcome
          BY <3>6, <4>1, <4>3 DEF Welcome
        <5>3. TakesReport(x.facts, x.force)
          BY <1>1, <3>5, <5>1, <5>2, GuardIsRight
        <5> HIDE DEF x, y, i
        <5> QED
          BY <3>1, <3>4, <4>1, <5>1, <5>2, <5>3 DEF Welcome
      <4>4. CASE x.at \in {"finding", "hosting", "updating"}
        <5>1. y.at \in {"hosting", "updating", "commenting"}
          BY <2>3, <4>1, <4>4 DEF Progress
        <5>2. x.welcome
          BY <3>6, <4>1, <4>4 DEF Welcome
        <5> HIDE DEF x, y, i
        <5> QED
          BY <3>1, <3>4, <4>1, <5>1, <5>2 DEF Welcome
      <4>5. x.at \in {"guarding", "watching", "finding", "hosting", "updating"}
        BY <1>0, <3>2, <4>1 DEF Course
      <4> QED
        BY <4>2, <4>3, <4>4, <4>5
    <3> QED
      BY <3>7, <3>8
  <2>4. ASSUME ~y.posting PROVE Welcome(y, issues'[y.issue])
    BY <2>4 DEF Welcome
  <2> QED
    BY <2>1, <2>2, <2>3, <2>4 DEF Worked
<1> QED
  BY <1>2, <1>3

\* What people do to an issue is remembered by the runs that are about to post.
LEMMA PeopleLeaveWelcome ==
  ASSUME Kind, Existing, Welcomed, [Next]_vars, NEW i \in Issues, PeopleStep(i), NEW r \in Runs
  PROVE  Welcome(run'[r], issues'[run'[r].issue])
<1> DEFINE x == run[r]
           y == run'[r]
<1>0. Typed /\ Placed /\ Course
  BY DEF Kind
<1>1. /\ y.at = x.at /\ y.force = x.force /\ y.issue = x.issue /\ y.posting = x.posting
      /\ y.facts = x.facts
  BY <1>0, PeopleRuns
<1>2. x \in RunOf /\ Welcome(x, issues[x.issue])
  BY <1>0 DEF Typed, Welcomed
<1>3. CASE ~x.posting
  BY <1>1, <1>3 DEF Welcome
<1>4. CASE x.posting
  <2>1. x.issue \in Issues /\ x.issue \in Real
    <3>1. x.issue \in Issues
      BY <1>0, <1>4 DEF Course, Placed, Sane, WorkStations
    <3> QED
      BY <3>1, IssuesAreNumbers DEF Existing
  <2>2. CASE OpenIssue(i)
    <3>1. /\ \A j \in Issues \ {i} : issues'[j] = issues[j]
          /\ issues[i].opened = 0 /\ run' = run
      BY <1>0, <2>2, OpenMoves
    <3>2. x.issue # i
      BY <2>1, <3>1 DEF Real
    <3> QED
      BY <1>2, <2>1, <3>1, <3>2
  <2>3. ASSUME NEW c, Touch(i, c), Changes(issues[i], c) PROVE Welcome(y, issues'[y.issue])
    <3>1. CASE x.issue # i
      <4>1. issues'[x.issue] = issues[x.issue] /\ y = x
        BY <1>0, <2>1, <2>3, <3>1, TouchMoves, ZenonT(60)
      <4> QED
        BY <1>2, <4>1
    <3>2. CASE x.issue = i
      <4>1. /\ issues'[i] = [c EXCEPT !.updated = now]
            /\ y = [x EXCEPT !.welcome = @ \/ TakesReport(c, x.force)]
        BY <1>0, <1>4, <2>3, <3>2, TouchMoves
      <4>2. y.welcome = (x.welcome \/ TakesReport(c, x.force))
        BY <1>2, <4>1 DEF RunOf
      <4>3. c \in IssueOf
        BY <2>3 DEF Changes
      <4>4. TakesReport(issues'[i], x.force) => TakesReport(c, x.force)
        <5>1. /\ issues'[i].open = c.open /\ issues'[i].labels = c.labels
              /\ issues'[i].assigned = c.assigned /\ issues'[i].references = c.references
              /\ issues'[i].comments = c.comments
          BY <4>1, <4>3 DEF IssueOf
        <5> QED
          BY <5>1 DEF TakesReport
      <4>5. /\ issues[i].references \subseteq issues'[i].references
            /\ Extends(issues[i].comments, issues'[i].comments)
        BY <1>0, ReferencesGrow, CommentsGrow
      <4>6. Extends(x.facts.comments, issues[i].comments) =>
              Extends(x.facts.comments, issues'[i].comments)
        BY <4>5, ExtendsOn
      <4> HIDE DEF x, y
      <4> QED
        BY <1>1, <1>2, <3>2, <4>2, <4>4, <4>5, <4>6 DEF Welcome
    <3> QED
      BY <3>1, <3>2
  <2> QED
    BY <1>0, <2>2, <2>3, PeopleChange
<1> QED
  BY <1>3, <1>4

\* Existing and Welcomed hold at first, and every step keeps them.
LEMMA WelcomedStep ==
  /\ Init => Existing /\ Welcomed
  /\ Kind /\ Existing /\ Welcomed /\ [Next]_vars => Welcomed'
<1>1. ASSUME Init PROVE Existing /\ Welcomed
  <2>1. \A r \in Runs : run[r].posting = FALSE /\ run[r].issue = 0
                        /\ run[r].taken = <<>> /\ run[r].listed = <<>>
    BY <1>1 DEF Init, NewRun
  <2>2. \A i \in Issues : issues[i].open => issues[i].opened = now
    BY <1>1 DEF Init, Opened, Unopened
  <2>3. now = 1
    BY <1>1 DEF Init
  <2>4. <<>> \in Seq(Real) /\ <<>> \in Seq([number : Real, issue : IssueOf])
    OBVIOUS
  <2>5. Existing
    <3>1. \A i \in Issues : issues[i].open => i \in Real
      BY <2>2, <2>3 DEF Real
    <3> QED
      BY <2>1, <2>4, <3>1 DEF Existing
  <2> QED
    BY <2>1, <2>5 DEF Welcomed, Welcome
<1>2. ASSUME Kind, Existing, Welcomed, [Next]_vars PROVE Welcomed'
  <2>1. ASSUME NEW r \in Runs, RunsStep(r) PROVE Welcomed'
    BY <1>2, <2>1, OthersStayWelcome, OwnStepStaysWelcome DEF Welcomed
  <2>2. ASSUME NEW i \in Issues, PeopleStep(i) PROVE Welcomed'
    BY <1>2, <2>2, PeopleLeaveWelcome DEF Welcomed
  <2>3. CASE Tick \/ UNCHANGED vars
    BY <1>2, <2>3 DEF Tick, vars, Welcomed
  <2> QED
    BY <1>2, <2>1, <2>2, <2>3, Steps
<1> QED
  BY <1>1, <1>2

\* A report is posted only if, at some moment since the investigation ended,
\* nothing on the issue stood in its way: at the moment the guard before posting
\* read the issue (PostedWasWelcome).
THEOREM WelcomeReports == Spec => PostedWasWelcome
<1>1. Kind /\ Welcomed => \A r \in Runs : Posts(r) => run[r].welcome
  <2> SUFFICES ASSUME Kind, Welcomed, NEW r \in Runs, Posts(r) PROVE run[r].welcome
    OBVIOUS
  <2>1. run[r].at = "commenting"
    BY DEF Posts
  <2>2. run[r].posting
    BY <2>1 DEF Kind, Course
  <2> QED
    BY <2>1, <2>2 DEF Welcomed, Welcome
<1>2. Kind /\ Welcomed /\ [Next]_vars => [\A r \in Runs : Posts(r) => run[r].welcome]_vars
  BY <1>1
<1> QED
  BY <1>2, WelcomedStep, ExistingStep, KindInvariance, PTL DEF Spec, PostedWasWelcome

------------------------------------------------------------------------------
(* What a run records is what happened *)

\* A report of a revision lies on the issue, and it is one of this run.
Reported(i, v) == \E k \in Reports(i) : issues[i].comments[k].revision = v

ReportedBy(r, i, v) ==
  \E k \in Reports(i) : issues[i].comments[k].revision = v /\ issues[i].comments[k].by = r

\* A run has no revision before it has read the issue's words, and has one while
\* it works on them.  Between the look for a report and the comment it has none
\* on the issue; and what it records afterwards is so.
TruthOf(x, r, i, v) ==
  /\ x.at \in {"idle", "listing", "visiting", "next", "fetching", "reading"} => v = NoRevision
  /\ x.at \in {"finding", "guarding", "watching", "working", "hosting", "updating",
               "commenting"} => v # NoRevision
  /\ \/ x.at \in {"guarding", "watching", "working", "hosting", "updating", "commenting"}
     \/ x.at = "finding" /\ x.posting
     => ~ReportedBy(r, i, v)
  /\ x.at = "removing" =>
       /\ x.outcome = "posted" => ReportedBy(r, i, v)
       /\ x.outcome = "already reported" => Reported(i, v)
       /\ x.outcome = "not reported" => ~ReportedBy(r, i, v)

Truthful == \A r \in Runs : TruthOf(run[r], r, run[r].issue, run[r].revision)

\* Only a run that posts adds a report, at the end and in its own name.
LEMMA ReportAdded ==
  ASSUME Typed, Placed, [Next]_vars, NEW i \in Issues, NEW k \in Reports(i)', k \notin Reports(i)
  PROVE  \E s \in Runs :
           /\ Posts(s) /\ (CreateComment(s) \/ AnswerLost(s)) /\ run[s].issue = i
           /\ issues[i].comments \in Seq(CommentOf) /\ k = Len(issues[i].comments) + 1
           /\ issues'[i].comments[k].by = s /\ issues'[i].comments[k].at = now
           /\ issues'[i].comments[k].revision = run[s].revision
<1> DEFINE old == issues[i].comments
           new == issues'[i].comments
<1>1. k \in DOMAIN new /\ new[k].author = Own /\ new[k].revision # NoRevision
  BY DEF Reports, IsOwnReport
<1>2. k \notin DOMAIN old
  <2> SUFFICES ASSUME k \in DOMAIN old PROVE FALSE
    OBVIOUS
  <2>1. Same(old[k], new[k])
    BY CommentsGrow DEF Extends
  <2> QED
    BY <1>1, <2>1 DEF Same, Reports, IsOwnReport
<1>3. ~Foreign(old, new)
  BY <1>1, <1>2 DEF Foreign
<1>4. PICK s \in Runs : /\ Posts(s) /\ run[s].issue = i /\ Report(s) \in CommentOf
                        /\ CreateComment(s) \/ AnswerLost(s)
                        /\ new = Append(old, Report(s))
  BY <1>3, CommentsGrow
<1>5. old \in Seq(CommentOf)
  BY IssueFields DEF Typed
<1>6. k = Len(old) + 1 /\ new[k] = Report(s)
  BY <1>1, <1>2, <1>4, <1>5, AppendExtends
<1>7. Report(s).by = s /\ Report(s).revision = run[s].revision /\ Report(s).at = now
  BY <1>4, PostsGrow
<1> QED
  BY <1>4, <1>5, <1>6, <1>7

\* Reports stay, and only a run that posts adds one, in its own name.
LEMMA ReportsGrow ==
  ASSUME Typed, Placed, [Next]_vars, NEW i \in Issues, NEW v, NEW r
  PROVE  /\ Reports(i) \subseteq Reports(i)'
         /\ \A k \in Reports(i) : Same(issues[i].comments[k], issues'[i].comments[k])
         /\ Reported(i, v) => Reported(i, v)'
         /\ ReportedBy(r, i, v) => ReportedBy(r, i, v)'
         /\ ReportedBy(r, i, v)' /\ ~ReportedBy(r, i, v) =>
              /\ r \in Runs /\ Posts(r) /\ (CreateComment(r) \/ AnswerLost(r))
              /\ run[r].issue = i /\ run[r].revision = v
         /\ Reported(i, v)' /\ ~Reported(i, v) =>
              \E s \in Runs : /\ Posts(s) /\ (CreateComment(s) \/ AnswerLost(s))
                              /\ run[s].issue = i /\ run[s].revision = v
<1> DEFINE old == issues[i].comments
           new == issues'[i].comments
<1>1. Extends(old, new)
  BY CommentsGrow
<1>2. \A k \in Reports(i) : k \in DOMAIN new /\ Same(old[k], new[k])
  BY <1>1 DEF Reports, Extends
<1>3. Reports(i)' = {k \in DOMAIN new : IsOwnReport(new[k])}
  BY DEF Reports
<1>4. Reports(i) \subseteq Reports(i)'
  BY <1>2, <1>3 DEF Reports, Same, IsOwnReport
<1>5. /\ Reported(i, v) => Reported(i, v)'
      /\ ReportedBy(r, i, v) => ReportedBy(r, i, v)'
  BY <1>2, <1>4 DEF Reported, ReportedBy, Same
<1>6. ASSUME NEW k \in Reports(i)', new[k].revision = v, ~Reported(i, v) \/ ~ReportedBy(new[k].by, i, v)
      PROVE  \E s \in Runs : /\ Posts(s) /\ (CreateComment(s) \/ AnswerLost(s)) /\ new[k].by = s
                             /\ run[s].issue = i /\ run[s].revision = v
  <2>1. k \notin Reports(i)
    <3> SUFFICES ASSUME k \in Reports(i) PROVE FALSE
      OBVIOUS
    <3>1. old[k].revision = v /\ old[k].by = new[k].by
      BY <1>2, <1>6 DEF Same
    <3> QED
      BY <1>6, <3>1 DEF Reported, ReportedBy
  <2> QED
    BY <1>6, <2>1, ReportAdded
<1>7. ReportedBy(r, i, v)' => \E k \in Reports(i)' : new[k].revision = v /\ new[k].by = r
  BY DEF ReportedBy
<1>8. Reported(i, v)' => \E k \in Reports(i)' : new[k].revision = v
  BY DEF Reported
<1>9. ASSUME ReportedBy(r, i, v)', ~ReportedBy(r, i, v)
      PROVE  /\ r \in Runs /\ Posts(r) /\ (CreateComment(r) \/ AnswerLost(r))
             /\ run[r].issue = i /\ run[r].revision = v
  BY <1>6, <1>7, <1>9
<1>10. ASSUME Reported(i, v)', ~Reported(i, v)
       PROVE  \E s \in Runs : /\ Posts(s) /\ (CreateComment(s) \/ AnswerLost(s))
                              /\ run[s].issue = i /\ run[s].revision = v
  BY <1>6, <1>8, <1>10
<1> QED
  BY <1>2, <1>4, <1>5, <1>9, <1>10

\* A run that posts has posted.
LEMMA PostsReport ==
  ASSUME Typed, Placed, NEW r \in Runs, Posts(r), NEW i, i = run[r].issue,
         NEW v, v = run[r].revision, v # NoRevision
  PROVE  ReportedBy(r, i, v)'
<1> DEFINE old == issues[i].comments
           new == issues'[i].comments
           k   == Len(old) + 1
<1>1. /\ i \in Issues /\ Report(r) \in CommentOf /\ new = Append(old, Report(r))
      /\ Report(r).by = r /\ Report(r).revision = v /\ Report(r).author = Own
  BY PostsGrow
<1>2. old \in Seq(CommentOf)
  BY <1>1, IssueFields DEF Typed
<1>3. k \in DOMAIN new /\ new[k] = Report(r)
  BY <1>1, <1>2, AppendExtends
<1>4. k \in Reports(i)'
  BY <1>1, <1>3 DEF Reports, IsOwnReport
<1> HIDE DEF k
<1>5. \E j \in Reports(i)' : new[j].revision = v /\ new[j].by = r
  BY <1>1, <1>3, <1>4
<1> QED
  BY <1>5 DEF ReportedBy

\* A run that creates its comment does not stay where it is.
LEMMA PostersMove ==
  ASSUME Typed, NEW r \in Runs, CreateComment(r) \/ AnswerLost(r)
  PROVE  run'[r].at # run[r].at
<1>1. \E outcome \in Outcomes : Conclude(r, outcome)
  BY DEF CreateComment, AnswerLost, Outcomes
<1>2. PICK outcome \in Outcomes : Conclude(r, outcome)
  BY <1>1
<1>3. PICK y : Ended(r, outcome, y)
  BY <1>2, Concludes
<1>4. run'[r].at = "removing"
  BY <1>3, MoveTyped DEF Ended
<1> QED
  BY <1>4 DEF CreateComment, AnswerLost, Posts

\* A run that does not move keeps its truth, because nobody posts in its name.
LEMMA OthersStayTrue ==
  ASSUME Typed, Placed, [Next]_vars, NEW s \in Runs, NEW x, NEW i \in Issues, NEW v,
         run'[s].at = run[s].at, TruthOf(x, s, i, v)
  PROVE  TruthOf(x, s, i, v)'
<1>1. x' = x
  OBVIOUS
<1>2. /\ Reported(i, v) => Reported(i, v)'
      /\ ReportedBy(s, i, v) <=> ReportedBy(s, i, v)'
  BY ReportsGrow, PostersMove
<1> QED
  BY <1>2 DEF TruthOf

\* A run that goes on stays true.
LEMMA OwnStepStaysTrue ==
  ASSUME Kind, Truthful, [Next]_vars, NEW r \in Runs, RunsStep(r),
         NEW x, x = run[r], NEW i, i = x.issue, NEW v, v = x.revision,
         NEW y, y = run'[r], NEW j, j = y.issue, NEW w, w = y.revision
  PROVE  TruthOf(y, r, j, w)'
<1>0. Typed /\ Placed /\ Course
  BY DEF Kind
<1>1. TruthOf(x, r, i, v)
  BY DEF Truthful
<1>2. CASE Selects(r)
  <2>1. Selecting(r, y)
    BY <1>0, <1>2, SelectsMove
  <2>2. y.at \in {"listing", "visiting", "next", "fetching", "over"}
    BY <2>1 DEF Selecting
  <2>3. w = NoRevision
    BY <1>1, <2>1 DEF Selecting, TruthOf
  <2> QED
    BY <2>2, <2>3 DEF TruthOf
<1>3. CASE ~Selects(r)
  <2>1. Worked(r)
    BY <1>0, <1>3, Works
  <2>2. ASSUME NEW outcome, Ended(r, outcome, y), Reason(r, outcome) PROVE TruthOf(y, r, j, w)'
    <3>1. y.at = "removing" /\ y.outcome = outcome /\ j = i /\ w = v
      BY <2>2 DEF Ended
    <3>2. i \in Issues
      BY <1>0, <2>2 DEF Reason, Placed, Sane
    <3>3. ASSUME outcome = "posted" PROVE ReportedBy(r, i, v)'
      <4>1. Posts(r) /\ x.at = "commenting"
        BY <2>2, <3>3 DEF Reason, CreateComment, Posts
      <4>2. v # NoRevision
        BY <1>1, <4>1 DEF TruthOf
      <4> QED
        BY <1>0, <4>1, <4>2, PostsReport
    <3>4. ASSUME outcome = "already reported" PROVE Reported(i, v)'
      <4>1. FindRevisionReport(issues[i].comments, v)
        BY <2>2, <3>4 DEF Reason
      <4>2. Reported(i, v)
        BY <4>1 DEF FindRevisionReport, Reported, Reports, Range
      <4> QED
        BY <1>0, <3>2, <4>2, ReportsGrow
    <3>5. ASSUME outcome = "not reported" PROVE ~ReportedBy(r, i, v)'
      <4>1. x.at \in {"reading", "watching", "working"}
        BY <2>2, <3>5 DEF Reason
      <4>2. ~ReportedBy(r, i, v)
        <5>1. CASE x.at = "reading"
          BY <1>1, <5>1 DEF TruthOf, ReportedBy, Reports, IsOwnReport
        <5>2. CASE x.at \in {"watching", "working"}
          BY <1>1, <5>2 DEF TruthOf
        <5> QED
          BY <4>1, <5>1, <5>2
      <4>3. ~Posts(r)
        BY <4>1 DEF Posts
      <4> QED
        BY <1>0, <3>2, <4>2, <4>3, ReportsGrow
    <3> QED
      BY <3>1, <3>3, <3>4, <3>5 DEF TruthOf
  <2>3. CASE Progress(r, y)
    <3>1. /\ j = i /\ x.at \in WorkStations \ {"removing", "commenting"}
          /\ y.at \in WorkStations \ {"removing", "fetching"}
      BY <2>3 DEF Progress, Continues, WorkStations
    <3>2. i \in Issues
      BY <1>0, <3>1 DEF Placed, Sane
    <3>3. ~Posts(r)
      BY <3>1 DEF Posts
    <3>4. ReportedBy(r, i, w)' => ReportedBy(r, i, w)
      BY <1>0, <3>2, <3>3, ReportsGrow
    <3>5. CASE x.at = "fetching"
      <4>1. y.at = "reading" /\ w = v
        BY <2>3, <3>5 DEF Progress
      <4> QED
        BY <1>1, <3>5, <4>1 DEF TruthOf
    <3>6. CASE x.at = "reading"
      <4>1. y.at = "finding" /\ w # NoRevision /\ y.posting = x.posting
        BY <2>3, <3>6 DEF Progress, Keeps
      <4>2. ~x.posting
        BY <1>0, <3>6 DEF Course
      <4> QED
        BY <4>1, <4>2 DEF TruthOf
    <3>7. CASE x.at = "finding"
      <4>1. /\ y.at \in {"guarding", "hosting", "commenting"} /\ w = v
            /\ ~FindRevisionReport(issues[i].comments, v)
        BY <2>3, <3>7 DEF Progress
      <4>2. ~ReportedBy(r, i, v)
        BY <4>1 DEF FindRevisionReport, ReportedBy, Reports, Range
      <4>3. v # NoRevision
        BY <1>1, <3>7 DEF TruthOf
      <4> QED
        BY <3>1, <3>4, <4>1, <4>2, <4>3 DEF TruthOf
    <3>8. CASE x.at \in {"guarding", "watching", "working", "hosting", "updating"}
      <4>1. /\ y.at \in {"watching", "finding", "working", "guarding", "hosting", "updating",
                         "commenting"}
            /\ w = v
        BY <2>3, <3>8 DEF Progress
      <4>2. v # NoRevision /\ ~ReportedBy(r, i, v)
        BY <1>1, <3>8 DEF TruthOf
      <4> QED
        BY <3>1, <3>4, <4>1, <4>2 DEF TruthOf
    <3> QED
      BY <3>1, <3>5, <3>6, <3>7, <3>8 DEF WorkStations
  <2> QED
    BY <2>1, <2>2, <2>3 DEF Worked
<1> QED
  BY <1>2, <1>3

\* Truthful holds at first, and every step keeps it.
LEMMA TruthfulStep ==
  (Init => Truthful) /\ (Kind /\ Truthful /\ [Next]_vars => Truthful')
<1>1. ASSUME Init PROVE Truthful
  <2>1. \A r \in Runs : run[r].at = "idle" /\ run[r].revision = NoRevision
    BY <1>1 DEF Init, NewRun
  <2> QED
    BY <2>1 DEF Truthful, TruthOf
<1>2. ASSUME Kind, Truthful, [Next]_vars PROVE Truthful'
  <2>0. Typed /\ Placed
    BY <1>2 DEF Kind
  <2>1. ASSUME NEW s \in Runs,
               /\ run'[s].at = run[s].at /\ run'[s].issue = run[s].issue
               /\ run'[s].revision = run[s].revision /\ run'[s].posting = run[s].posting
               /\ run'[s].outcome = run[s].outcome
        PROVE  TruthOf(run[s], s, run[s].issue, run[s].revision)'
    <3>1. TruthOf(run[s], s, run[s].issue, run[s].revision)
      BY <1>2 DEF Truthful
    <3>2. CASE run[s].issue \in Issues
      <4>1. ASSUME NEW z, z = run[s], NEW i, i = run[s].issue, NEW v, v = run[s].revision
            PROVE  TruthOf(z, s, i, v)'
        BY <1>2, <2>0, <2>1, <3>1, <3>2, <4>1, OthersStayTrue
      <4>2. \A z, i, v : z = run[s] /\ i = run[s].issue /\ v = run[s].revision =>
                           TruthOf(z, s, i, v)'
        BY <4>1
      <4> QED
        BY <2>1, <4>2 DEF TruthOf
    <3>3. CASE run[s].issue \notin Issues
      <4>1. run[s].at \notin WorkStations
        BY <2>0, <3>3 DEF Placed, Sane
      <4> QED
        BY <2>1, <3>1, <4>1 DEF TruthOf, WorkStations
    <3> QED
      BY <3>2, <3>3
  <2>2. ASSUME NEW r \in Runs, RunsStep(r) PROVE Truthful'
    <3>1. TruthOf(run[r], r, run[r].issue, run[r].revision)'
      <4>1. \A x, i, v, y, j, w : /\ x = run[r] /\ i = x.issue /\ v = x.revision
                                  /\ y = run'[r] /\ j = y.issue /\ w = y.revision
                                  => TruthOf(y, r, j, w)'
        BY <1>2, <2>2, OwnStepStaysTrue
      <4> QED
        BY <4>1
    <3>2. \A s \in Runs \ {r} : run'[s] = run[s]
      BY <2>0, <2>2, RunMoves, MoveTyped
    <3>3. \A s \in Runs \ {r} : TruthOf(run[s], s, run[s].issue, run[s].revision)'
      BY <2>1, <3>2
    <3> QED
      BY <3>1, <3>3 DEF Truthful
  <2>3. ASSUME NEW i \in Issues, PeopleStep(i) PROVE Truthful'
    BY <2>0, <2>1, <2>3, PeopleRuns DEF Truthful
  <2>4. CASE Tick \/ UNCHANGED vars
    BY <2>1, <2>4 DEF Tick, vars, Truthful
  <2> QED
    BY <1>2, <2>2, <2>3, <2>4, Steps
<1> QED
  BY <1>1, <1>2

\* What a run records of an issue is what happened: only the answer that was lost
\* leaves a report behind that nobody recorded (OutcomesAreTrue).
THEOREM OutcomesStayTrue == Spec => []OutcomesAreTrue
<1>1. Truthful => OutcomesAreTrue
  <2> SUFFICES ASSUME Truthful, NEW r \in Runs, run[r].at = "removing"
               PROVE  LET i       == run[r].issue
                          reports == {issues[i].comments[k] : k \in Reports(i)}
                          mine    == {c \in reports : c.by = r /\ c.revision = run[r].revision}
                      IN  CASE run[r].outcome = "posted" -> mine # {}
                            [] run[r].outcome = "already reported" ->
                                 \E c \in reports : c.revision = run[r].revision
                            [] run[r].outcome = "not reported" -> mine = {}
                            [] OTHER -> TRUE
    BY DEF OutcomesAreTrue
  <2> DEFINE i       == run[r].issue
             v       == run[r].revision
             reports == {issues[i].comments[k] : k \in Reports(i)}
             mine    == {c \in reports : c.by = r /\ c.revision = v}
  <2>1. TruthOf(run[r], r, i, v)
    BY DEF Truthful
  <2>2. ReportedBy(r, i, v) <=> mine # {}
    BY DEF ReportedBy
  <2>3. Reported(i, v) <=> \E c \in reports : c.revision = v
    BY DEF Reported
  <2> HIDE DEF mine, reports
  <2>4. /\ run[r].outcome = "posted" => mine # {}
        /\ run[r].outcome = "already reported" => \E c \in reports : c.revision = v
        /\ run[r].outcome = "not reported" => mine = {}
    BY <2>1, <2>2, <2>3 DEF TruthOf
  <2> QED
    BY <2>4 DEF mine, reports
<1> QED
  BY <1>1, TruthfulStep, KindInvariance, PTL DEF Spec

------------------------------------------------------------------------------
(* Runs that do not overlap *)

\* The backlog runs alone, and two runs on single issues never share one.
Exclusive ==
  /\ \A r \in Runs : run[r].at \in {"listing", "visiting", "next"} => run[r].mode = "backlog"
  /\ \A r, s \in Active : r # s => /\ run[r].mode = "single" /\ run[s].mode = "single"
                                   /\ run[r].issue # run[s].issue

\* A run that has begun keeps its mode, and is active until it is over; on a
\* single issue it stays with that issue.
LEMMA ModeKept ==
  ASSUME Kind, Exclusive, NEW r \in Runs, RunsStep(r), run[r].at # "idle"
  PROVE  /\ r \in Active
         /\ run'[r].at # "idle" /\ run'[r].mode = run[r].mode
         /\ run'[r].at \in {"listing", "visiting", "next"} => run[r].mode = "backlog"
         /\ run[r].mode = "single" => run'[r].at = "over" \/ run'[r].issue = run[r].issue
<1> DEFINE x == run[r]
           y == run'[r]
<1>0. Typed /\ Placed /\ Course /\ x \in RunOf /\ run \in [Runs -> RunOf]
  BY DEF Kind, Typed
<1>1. Over(r).at = "over" /\ Over(r).mode = x.mode
  BY DEF Over, NewRun
<1>2. CASE SelectionFails(r) \/ SealBacklog(r) \/ Stop(r)
  <2>1. x.at \notin {"idle", "over"}
    BY <1>2 DEF SelectionFails, SealBacklog, Stop, Active
  <2>2. y = Over(r)
    BY <1>0, <1>2 DEF SelectionFails, SealBacklog, Stop
  <2> QED
    BY <1>1, <2>1, <2>2 DEF Active
<1>3. CASE TakeNext(r)
  <2>1. x.at = "next" /\ x.mode = "backlog"
    BY <1>3 DEF TakeNext, Exclusive
  <2>2. y.at = "fetching" /\ y.mode = x.mode
    BY <1>0, <1>3 DEF TakeNext, RunOf
  <2> QED
    BY <2>1, <2>2 DEF Active
<1>4. CASE RemoveCheckout(r)
  <2>1. x.at = "removing"
    BY <1>4 DEF RemoveCheckout
  <2>2. y.mode = x.mode /\ ((x.mode = "backlog" /\ y.at = "next") \/ y.at = "over")
    BY <1>0, <1>1, <1>4 DEF RemoveCheckout, NewRun
  <2> QED
    BY <2>1, <2>2 DEF Active
<1>5. CASE EndOfPage(r) \/ Visit(r) \/ ReadOpenIssuePage(r)
  <2>1. x.at \in {"listing", "visiting"} /\ x.mode = "backlog"
    BY <1>5 DEF EndOfPage, Visit, ReadOpenIssuePage, Exclusive
  <2>2. y.at \in {"listing", "next", "visiting"} /\ y.mode = x.mode
    <3>1. CASE EndOfPage(r)
      BY <1>0, <3>1 DEF EndOfPage, RunOf
    <3>2. CASE Visit(r)
      <4>1. \E listed, taken : run' = [run EXCEPT ![r].listed = listed, ![r].taken = taken]
        BY <3>2 DEF Visit
      <4> QED
        BY <1>0, <2>1, <4>1 DEF RunOf
    <3>3. CASE ReadOpenIssuePage(r)
      <4>1. \E listed, more :
              run' = [run EXCEPT ![r].at = "visiting", ![r].listed = listed, ![r].more = more]
        BY <3>3 DEF ReadOpenIssuePage
      <4> QED
        BY <1>0, <4>1 DEF RunOf
    <3> QED
      BY <1>5, <3>1, <3>2, <3>3
  <2> QED
    BY <2>1, <2>2 DEF Active
<1>6. CASE StartBacklog(r) \/ \E i \in Issues : StartIssue(r, i)
  BY <1>6 DEF StartBacklog, StartIssue
<1>7. CASE ~Selects(r)
  <2>1. Worked(r)
    BY <1>0, <1>7, Works
  <2>2. ASSUME NEW o, Ended(r, o, y), Reason(r, o)
        PROVE  x.at \in WorkStations /\ y.at = "removing" /\ y.mode = x.mode /\ y.issue = x.issue
    BY <2>2 DEF Ended, Reason
  <2>3. ASSUME Progress(r, y)
        PROVE  /\ x.at \in WorkStations /\ y.at \in WorkStations
               /\ y.mode = x.mode /\ y.issue = x.issue
    BY <2>3 DEF Progress, Continues, WorkStations
  <2>4. /\ x.at \in WorkStations /\ y.at \in WorkStations
        /\ y.mode = x.mode /\ y.issue = x.issue
    BY <2>1, <2>2, <2>3 DEF Worked, WorkStations
  <2> QED
    BY <2>4 DEF Active, WorkStations
<1> QED
  BY <1>2, <1>3, <1>4, <1>5, <1>6, <1>7 DEF Selects

\* Runs that start as they should stay apart.
LEMMA ExclusiveStep ==
  ASSUME Overlap = FALSE
  PROVE  (Init => Exclusive) /\ (Kind /\ Exclusive /\ [Next]_vars => Exclusive')
<1>1. ASSUME Init PROVE Exclusive
  <2>1. \A r \in Runs : run[r].at = "idle"
    BY <1>1 DEF Init, NewRun
  <2> QED
    BY <2>1 DEF Exclusive, Active
<1>2. ASSUME Kind, Exclusive, [Next]_vars PROVE Exclusive'
  <2>0. Typed /\ Placed
    BY <1>2 DEF Kind
  <2>1. ASSUME NEW r \in Runs, RunsStep(r) PROVE Exclusive'
    <3>0. \A s \in Runs \ {r} : run'[s] = run[s]
      BY <2>0, <2>1, RunMoves, MoveTyped
    <3>1. CASE StartBacklog(r)
      <4>1. Active = {}
        BY <3>1 DEF StartBacklog
      <4>2. PICK z : /\ Selecting(r, z) /\ z.at = "listing" /\ z.mode = "backlog"
                     /\ z.captured = now /\ z.taken = <<>> /\ z.listed = <<>>
        BY <2>0, <3>1, SelectionMoves
      <4>3. run'[r] = z
        BY <2>0, <4>2, MoveTyped DEF Selecting
      <4>4. \A s \in Active' : s = r
        BY <3>0, <4>1 DEF Active
      <4> QED
        BY <1>2, <3>0, <4>2, <4>3, <4>4 DEF Exclusive
    <3>2. ASSUME NEW i \in Issues, StartIssue(r, i) PROVE Exclusive'
      <4>1. \A s \in Active : run[s].mode = "single" /\ run[s].issue # i
        BY <3>2 DEF StartIssue
      <4>2. PICK z : Selecting(r, z) /\ z.at = "fetching" /\ z.mode = "single" /\ z.issue = i
        BY <2>0, <3>2, SelectionMoves, ZenonT(60)
      <4>3. run'[r] = z
        BY <2>0, <4>2, MoveTyped DEF Selecting
      <4>4. \A s \in Active' : s = r \/ s \in Active
        BY <3>0 DEF Active
      <4>5. \A s \in Runs : run'[s].at \in {"listing", "visiting", "next"} => run'[s].mode = "backlog"
        BY <1>2, <3>0, <4>2, <4>3 DEF Exclusive
      <4>6. \A s, t \in Active' : s # t => /\ run'[s].mode = "single" /\ run'[t].mode = "single"
                                           /\ run'[s].issue # run'[t].issue
        <5>1. Active' \subseteq Runs
          BY DEF Active
        <5> QED
          BY <1>2, <3>0, <4>1, <4>2, <4>3, <4>4, <5>1 DEF Exclusive
      <4> QED
        BY <4>5, <4>6 DEF Exclusive
    <3>3. CASE run[r].at # "idle"
      <4>1. /\ r \in Active /\ run'[r].mode = run[r].mode
            /\ run'[r].at \in {"listing", "visiting", "next"} => run[r].mode = "backlog"
            /\ run[r].mode = "single" => run'[r].at = "over" \/ run'[r].issue = run[r].issue
        BY <1>2, <2>1, <3>3, ModeKept
      <4>2. \A s \in Active' : s \in Active /\ s \in Runs /\ run'[s].at # "over"
        BY <3>0, <4>1 DEF Active
      <4>3. \A s \in Runs : run'[s].at \in {"listing", "visiting", "next"} => run'[s].mode = "backlog"
        BY <1>2, <3>0, <4>1 DEF Exclusive
      <4>4. \A s, t \in Active' : s # t => /\ run'[s].mode = "single" /\ run'[t].mode = "single"
                                           /\ run'[s].issue # run'[t].issue
        BY <1>2, <3>0, <4>1, <4>2 DEF Exclusive
      <4> QED
        BY <4>3, <4>4 DEF Exclusive
    <3>4. run[r].at = "idle" => StartBacklog(r) \/ \E i \in Issues : StartIssue(r, i)
      BY <2>1 DEF RunsStep, RunStep, Stop, Active, ReadOpenIssuePage, Visit, EndOfPage, SelectionFails,
           TakeNext, SealBacklog, RemoveCheckout, PreparationFails, FetchIssue, FetchComments,
           FindReport, ReadIssue, ReadTimeline, RequestFails, Work, ReadBranchHead,
           HostScreenshots, RefConflict, HostingFails, CreateComment, AnswerLost,
           CommentRefused, Posts
    <3> QED
      BY <3>1, <3>2, <3>3, <3>4
  <2>2. ASSUME NEW i \in Issues, PeopleStep(i) PROVE Exclusive'
    <3>1. \A s \in Runs : /\ run'[s].at = run[s].at /\ run'[s].mode = run[s].mode
                          /\ run'[s].issue = run[s].issue
      BY <2>0, <2>2, PeopleRuns
    <3>2. Active' = Active
      BY <3>1 DEF Active
    <3>3. Active \subseteq Runs
      BY DEF Active
    <3> QED
      BY <1>2, <3>1, <3>2, <3>3 DEF Exclusive
  <2>3. CASE Tick \/ UNCHANGED vars
    BY <1>2, <2>3 DEF Tick, vars, Exclusive, Active
  <2> QED
    BY <1>2, <2>1, <2>2, <2>3, Steps
<1> QED
  BY <1>1, <1>2

\* One run at a time has found no report of its revision and is about to post it.
Single ==
  /\ ReportedOnce
  /\ \A r \in Runs : run[r].at \in {"hosting", "updating", "commenting"} =>
       ~Reported(run[r].issue, run[r].revision)

\* Whoever posts is active.
LEMMA PostersAreActive ==
  ASSUME NEW r \in Runs, Posts(r)
  PROVE  r \in Active
BY DEF Posts, Active

\* Every step keeps reports single.
LEMMA SingleStep == Kind /\ Exclusive /\ Single /\ [Next]_vars => Single'
<1> SUFFICES ASSUME Kind, Exclusive, Single, [Next]_vars PROVE Single'
  OBVIOUS
<1>0. Typed /\ Placed /\ Course
  BY DEF Kind
<1>1. ReportedOnce'
  <2> SUFFICES ASSUME NEW i \in Issues, NEW j \in Reports(i)', NEW k \in Reports(i)',
                      issues'[i].comments[j].revision = issues'[i].comments[k].revision
               PROVE  j = k
    BY DEF ReportedOnce
  <2> DEFINE old == issues[i].comments
             new == issues'[i].comments
  <2>1. \A l \in Reports(i) : new[l].revision = old[l].revision
    BY <1>0, ReportsGrow DEF Same
  <2>2. ASSUME NEW l \in Reports(i)', l \notin Reports(i)
        PROVE  l = Len(old) + 1 /\ ~Reported(i, new[l].revision)
    <3>1. PICK s \in Runs : /\ Posts(s) /\ run[s].issue = i /\ l = Len(old) + 1
                            /\ new[l].revision = run[s].revision
      BY <1>0, <2>2, ReportAdded
    <3>2. run[s].at = "commenting"
      BY <3>1 DEF Posts
    <3> QED
      BY <3>1, <3>2 DEF Single
  <2>3. \A l \in Reports(i) : Reported(i, old[l].revision)
    BY DEF Reported
  <2>4. CASE j \in Reports(i) /\ k \in Reports(i)
    BY <2>1, <2>4 DEF Single, ReportedOnce
  <2> QED
    BY <2>1, <2>2, <2>3, <2>4
<1>2. ASSUME NEW s \in Runs, run'[s].at = run[s].at, run'[s].issue = run[s].issue,
             run'[s].revision = run[s].revision,
             run[s].at \in {"hosting", "updating", "commenting"}
      PROVE  ~Reported(run[s].issue, run[s].revision)'
  <2>1. run[s].issue \in Issues /\ s \in Active
    BY <1>0, <1>2 DEF Placed, Sane, WorkStations, Active
  <2>2. ~Reported(run[s].issue, run[s].revision)
    BY <1>2 DEF Single
  <2>3. ASSUME NEW i, i = run[s].issue, NEW v, v = run[s].revision, Reported(i, v)' PROVE FALSE
    <3>1. PICK t \in Runs : Posts(t) /\ (CreateComment(t) \/ AnswerLost(t)) /\ run[t].issue = i
      BY <1>0, <2>1, <2>2, <2>3, ReportsGrow
    <3>2. t # s
      BY <1>0, <1>2, <3>1, PostersMove
    <3>3. t \in Active
      BY <3>1, PostersAreActive
    <3> QED
      BY <2>1, <2>3, <3>1, <3>2, <3>3 DEF Exclusive
  <2>4. \A i, v : i = run[s].issue /\ v = run[s].revision => ~Reported(i, v)'
    BY <2>3
  <2> QED
    BY <1>2, <2>4
<1>3. ASSUME NEW r \in Runs, RunsStep(r)
      PROVE  \A s \in Runs : run'[s].at \in {"hosting", "updating", "commenting"} =>
               ~Reported(run[s].issue, run[s].revision)'
  <2>1. \A s \in Runs \ {r} : run'[s] = run[s]
    BY <1>0, <1>3, RunMoves, MoveTyped
  <2>2. ASSUME run'[r].at \in {"hosting", "updating", "commenting"}
        PROVE  ~Reported(run[r].issue, run[r].revision)'
    <3>1. ~Selects(r)
      BY <1>0, <2>2, SelectsMove DEF Selecting
    <3>2. Progress(r, run'[r])
      BY <1>0, <1>3, <2>2, <3>1, Works DEF Worked, Ended
    <3>3. /\ run'[r].issue = run[r].issue /\ run'[r].revision = run[r].revision
          /\ run[r].at \in {"finding", "hosting", "updating"}
          /\ run[r].at = "finding" =>
               ~FindRevisionReport(issues[run[r].issue].comments, run[r].revision)
      BY <2>2, <3>2 DEF Progress, Continues
    <3>4. ~Reported(run[r].issue, run[r].revision)
      BY <3>3 DEF Single, FindRevisionReport, Reported, Reports, Range
    <3>5. issues' = issues
      BY <1>0, <1>3, <3>3, RunMoves DEF Posts
    <3> QED
      BY <3>3, <3>4, <3>5 DEF Reported, Reports
  <2> QED
    BY <1>2, <2>1, <2>2
<1>4. ASSUME NEW i \in Issues, PeopleStep(i)
      PROVE  \A s \in Runs : run'[s].at \in {"hosting", "updating", "commenting"} =>
               ~Reported(run[s].issue, run[s].revision)'
  BY <1>0, <1>2, <1>4, PeopleRuns
<1>5. CASE Tick \/ UNCHANGED vars
  <2>1. \A s \in Runs : run'[s] = run[s]
    BY <1>5 DEF Tick, vars
  <2>2. \A s \in Runs : run'[s].at \in {"hosting", "updating", "commenting"} =>
               ~Reported(run[s].issue, run[s].revision)'
    BY <1>2, <2>1
  <2> QED
    BY <1>1, <2>2 DEF Single
<1>6. ASSUME \A s \in Runs : run'[s].at \in {"hosting", "updating", "commenting"} =>
               ~Reported(run[s].issue, run[s].revision)'
      PROVE  Single'
  BY <1>1, <1>6 DEF Single
<1> QED
  BY <1>3, <1>4, <1>5, <1>6, Steps

\* At first there is no report.
LEMMA InitReports == Init => \A i \in Issues : Reports(i) = {}
<1> SUFFICES ASSUME Init, NEW i \in Issues PROVE Reports(i) = {}
  OBVIOUS
<1>1. issues[i].comments = <<>> \/ issues[i].comments = <<Comment(Reporter, "words")>>
  BY DEF Init, Opened, Unopened
<1>2. Comment(Reporter, "words").revision = NoRevision
  BY DEF Comment
<1> QED
  BY <1>1, <1>2 DEF Reports, IsOwnReport

\* One revision of an issue gets one report, if runs do not overlap: the look for
\* a report and the comment are two requests, and nothing else keeps two runs
\* from posting one each (ReportedOnce).
THEOREM OneReport ==
  ASSUME Overlap = FALSE
  PROVE  Spec => []ReportedOnce
<1>1. Init => Single
  <2> SUFFICES ASSUME Init PROVE Single
    OBVIOUS
  <2>1. \A r \in Runs : run[r].at = "idle"
    BY DEF Init, NewRun
  <2> QED
    BY <2>1, InitReports DEF Single, ReportedOnce
<1>2. Single => ReportedOnce
  BY DEF Single
<1> QED
  BY <1>1, <1>2, SingleStep, ExclusiveStep, KindInvariance, PTL DEF Spec

------------------------------------------------------------------------------
(* A backlog run counts before it posts *)

\* The reports of other runs on an issue since a moment, and that there are few
\* in the window that ends now.
Others(r, i, since) ==
  {j \in Reports(i) : issues[i].comments[j].at >= since /\ issues[i].comments[j].by # r}

Few(r, i) == Cardinality(Others(r, i, now - Window)) < MaxRevisions

\* On all an active backlog run is yet to report on there are few; what it was
\* shown without comments has no reports but its own.
Frugal(r, x) ==
  /\ x.captured <= now
  /\ \A k \in DOMAIN x.taken : Few(r, x.taken[k])
  /\ x.at \in WorkStations \ {"removing"} => Few(r, x.issue)
  /\ x.at = "visiting" =>
       \A k \in DOMAIN x.listed :
         x.listed[k].issue.comments = <<>> =>
           \A j \in Reports(x.listed[k].number) :
             issues[x.listed[k].number].comments[j].by = r

\* Every report is one of a run that has begun.
Signed ==
  \A i \in Issues : \A k \in Reports(i) :
    issues[i].comments[k].by \in Runs /\ run[issues[i].comments[k].by].at # "idle"

Budgeted ==
  /\ Signed
  /\ RevisionsAreBudgeted
  /\ \A r \in Active : run[r].mode = "backlog" => Frugal(r, run[r])

\* The reports of an issue are finitely many, and so are those of others.
LEMMA ReportsFinite ==
  ASSUME Typed, NEW i \in Issues, NEW S \in SUBSET Reports(i)
  PROVE  IsFiniteSet(S) /\ Cardinality(S) \in Nat
<1>1. issues[i].comments \in Seq(CommentOf)
  BY IssueFields DEF Typed
<1>2. Reports(i) \subseteq 1 .. Len(issues[i].comments) /\ Len(issues[i].comments) \in Nat
  BY <1>1 DEF Reports
<1>3. IsFiniteSet(1 .. Len(issues[i].comments))
  BY <1>2, FS_Interval
<1>4. S \subseteq 1 .. Len(issues[i].comments)
  BY <1>2
<1>5. IsFiniteSet(S)
  BY <1>3, <1>4, FS_Subset
<1> QED
  BY <1>5, FS_CardinalityType

\* Fewer reports are few.
LEMMA FewerReports ==
  ASSUME Typed, NEW i \in Issues, NEW T \in SUBSET Reports(i), NEW S \in SUBSET T,
         Cardinality(T) < MaxRevisions
  PROVE  Cardinality(S) < MaxRevisions
<1>1. IsFiniteSet(T) /\ Cardinality(T) \in Nat
  BY ReportsFinite
<1>2. IsFiniteSet(S) /\ Cardinality(S) <= Cardinality(T)
  BY <1>1, FS_Subset
<1>3. Cardinality(S) \in Nat
  BY <1>2, FS_CardinalityType
<1> QED
  BY <1>1, <1>2, <1>3, QueueAssumption

\* Time does not run back.
LEMMA ClockAdvances ==
  ASSUME Typed, Placed, [Next]_vars
  PROVE  now \in Nat /\ now' \in Nat /\ now <= now'
<1>1. now \in Nat
  BY LimitsAreNumbers DEF Typed
<1>2. ASSUME NEW r \in Runs, RunsStep(r) PROVE now' = now
  BY <1>2, RunMoves
<1>3. ASSUME NEW i \in Issues, PeopleStep(i) PROVE now' = now
  BY <1>3, PeopleChange, OpenMoves, TouchMoves
<1>4. CASE Tick
  BY <1>1, <1>4 DEF Tick
<1>5. CASE UNCHANGED vars
  BY <1>1, <1>5 DEF vars
<1> QED
  BY <1>1, <1>2, <1>3, <1>4, <1>5, Steps

\* While a backlog run is active, new reports are its own.
LEMMA AddedAreOwn ==
  ASSUME Kind, Exclusive, [Next]_vars, NEW r \in Active, run[r].mode = "backlog",
         NEW i \in Issues, NEW k \in Reports(i)', k \notin Reports(i)
  PROVE  issues'[i].comments[k].by = r
<1>1. PICK s \in Runs : Posts(s) /\ issues'[i].comments[k].by = s
  BY ReportAdded DEF Kind
<1>2. s \in Active
  BY <1>1, PostersAreActive
<1> QED
  BY <1>1, <1>2 DEF Exclusive

\* Where the others had posted few reports they still have.
LEMMA FewStay ==
  ASSUME Kind, Exclusive, [Next]_vars, NEW r \in Active, run[r].mode = "backlog",
         NEW i \in Issues, Few(r, i)
  PROVE  Few(r, i)'
<1> DEFINE old  == issues[i].comments
           new  == issues'[i].comments
           then == Others(r, i, now - Window)
           next == {j \in Reports(i)' : new[j].at >= now' - Window /\ new[j].by # r}
<1>0. Typed /\ Placed
  BY DEF Kind
<1>1. now \in Nat /\ now' \in Nat /\ now <= now' /\ Window \in Nat
  BY <1>0, ClockAdvances, QueueAssumption
<1>2. ASSUME NEW j \in next PROVE j \in then
  <2>1. j \in Reports(i)
    BY <1>2, AddedAreOwn
  <2>2. Same(old[j], new[j])
    BY <1>0, <2>1, ReportsGrow
  <2>3. old[j] \in CommentOf
    <3>1. old \in Seq(CommentOf)
      BY <1>0, IssueFields DEF Typed
    <3> QED
      BY <2>1, <3>1 DEF Reports
  <2>4. old[j].at \in Nat
    BY <2>3 DEF CommentOf
  <2>5. old[j].at >= now - Window
    BY <1>1, <1>2, <2>2, <2>4 DEF Same
  <2> QED
    BY <1>2, <2>1, <2>2, <2>5 DEF Others, Same
<1>3. then \subseteq Reports(i) /\ Cardinality(then) < MaxRevisions
  BY DEF Others, Few
<1> HIDE DEF then, next
<1>4. Cardinality(next) < MaxRevisions
  BY <1>0, <1>2, <1>3, FewerReports
<1> QED
  BY <1>4 DEF Few, Others, next

\* What a backlog run knows stays so whatever the others do.
LEMMA FrugalStays ==
  ASSUME Kind, Exclusive, [Next]_vars, NEW r \in Active, run[r].mode = "backlog",
         NEW x \in RunOf, x.at \in WorkStations => x.issue \in Issues, Frugal(r, x)
  PROVE  Frugal(r, x)'
<1>0. Typed /\ Placed
  BY DEF Kind
<1>1. x.captured \in Nat /\ x.taken \in Seq(Issues) /\ x.listed \in Seq([number : Issues, issue : IssueOf])
  BY RunFields
<1>2. x.captured <= now'
  BY <1>0, <1>1, ClockAdvances DEF Frugal
<1>3. \A k \in DOMAIN x.taken : Few(r, x.taken[k])'
  <2> SUFFICES ASSUME NEW k \in DOMAIN x.taken PROVE Few(r, x.taken[k])'
    OBVIOUS
  <2>1. x.taken[k] \in Issues
    BY <1>1
  <2>2. \A i \in Issues : Few(r, i) => Few(r, i)'
    BY FewStay
  <2> QED
    BY <2>1, <2>2 DEF Frugal
<1>4. x.at \in WorkStations \ {"removing"} => Few(r, x.issue)'
  <2>1. \A i \in Issues : Few(r, i) => Few(r, i)'
    BY FewStay
  <2> QED
    BY <2>1 DEF Frugal
<1>5. ASSUME x.at = "visiting", NEW k \in DOMAIN x.listed, x.listed[k].issue.comments = <<>>,
             NEW j \in Reports(x.listed[k].number)'
      PROVE  issues'[x.listed[k].number].comments[j].by = r
  <2>1. x.listed[k].number \in Issues
    <3> DEFINE Listable == [number : Issues, issue : IssueOf]
    <3>1. x.listed \in Seq(Listable)
      BY <1>1
    <3> HIDE DEF Listable
    <3>2. x.listed[k] \in Listable
      BY <1>5, <3>1
    <3> QED
      BY <3>2 DEF Listable
  <2>2. ASSUME NEW i \in Issues, i = x.listed[k].number, NEW l \in Reports(i)'
        PROVE  issues'[i].comments[l].by = r
    <3>1. CASE l \in Reports(i)
      <4>1. issues[i].comments[l].by = r
        BY <1>5, <2>2, <3>1 DEF Frugal
      <4>2. Same(issues[i].comments[l], issues'[i].comments[l])
        BY <1>0, <3>1, ReportsGrow
      <4> QED
        BY <4>1, <4>2 DEF Same
    <3>2. CASE l \notin Reports(i)
      BY <3>2, AddedAreOwn
    <3> QED
      BY <3>1, <3>2
  <2> QED
    BY <2>1, <2>2
<1> QED
  BY <1>2, <1>3, <1>4, <1>5 DEF Frugal

\* An issue that is due has few reports of others: it has none at all, or the
\* budget of the window before the run began is not spent.
LEMMA DueIsFew ==
  ASSUME Typed, NEW r \in Runs, NEW i \in Issues, NEW summary \in IssueOf,
         NEW captured \in Nat, captured <= now,
         summary.comments = <<>> => \A j \in Reports(i) : issues[i].comments[j].by = r,
         Due(summary, IF summary.comments = <<>> THEN <<>> ELSE issues[i].comments, captured)
  PROVE  Few(r, i)
<1> DEFINE comments == issues[i].comments
           counted  == InWindow(comments, captured)
           others   == Others(r, i, now - Window)
<1>1. now \in Nat /\ Window \in Nat /\ MaxRevisions \in Nat \ {0}
  BY LimitsAreNumbers, QueueAssumption DEF Typed
<1>2. others \subseteq Reports(i)
  BY DEF Others
<1>3. CASE others = {}
  <2>1. Cardinality(others) = 0
    BY <1>3, FS_EmptySet
  <2> QED
    BY <1>1, <2>1 DEF Few
<1>4. CASE others # {}
  <2>1. summary.comments # <<>> /\ Reports(i) # {}
    BY <1>4 DEF Others
  <2>2. Due(summary, comments, captured)
    BY <2>1
  <2>3. \E c \in Range(comments) : IsOwnReport(c)
    BY <2>1 DEF Reports, Range
  <2>4. ~(Cardinality(counted) >= MaxRevisions)
    BY <2>2, <2>3 DEF Due, BudgetSpent
  <2>5. counted \subseteq Reports(i)
    BY DEF InWindow, Reports
  <2>6. others \subseteq counted
    <3> SUFFICES ASSUME NEW j \in others PROVE j \in counted
      OBVIOUS
    <3>1. j \in Reports(i) /\ comments[j].at >= now - Window
      BY DEF Others
    <3>2. comments[j] \in CommentOf
      <4>1. comments \in Seq(CommentOf)
        BY IssueFields DEF Typed
      <4> QED
        BY <3>1, <4>1 DEF Reports
    <3>3. comments[j].at \in Nat
      BY <3>2 DEF CommentOf
    <3>4. comments[j].at >= captured - Window
      BY <1>1, <3>1, <3>3
    <3> QED
      BY <3>1, <3>4 DEF Reports, InWindow
  <2> HIDE DEF counted, others
  <2>7. Cardinality(counted) \in Nat
    BY <2>5, ReportsFinite
  <2>8. Cardinality(others) < MaxRevisions
    BY <1>1, <2>4, <2>5, <2>6, <2>7, FewerReports
  <2> QED
    BY <2>8 DEF Few, others
<1> QED
  BY <1>3, <1>4

\* What a backlog run has found out before its next step it knows after it.
LEMMA OwnStepStaysFrugal ==
  ASSUME Kind, Exclusive, Budgeted, NEW r \in Active, RunsStep(r), run[r].mode = "backlog"
  PROVE  Frugal(r, run'[r]) \/ run'[r].at = "over"
<1> DEFINE x == run[r]
           y == run'[r]
<1> SUFFICES Frugal(r, y) \/ y.at = "over"
  OBVIOUS
<1>0. /\ Typed /\ Placed /\ Course /\ x \in RunOf /\ run \in [Runs -> RunOf] /\ r \in Runs
      /\ x.at # "idle"
  BY DEF Kind, Typed, Active
<1>1. Frugal(r, x)
  BY DEF Budgeted
<1>2. /\ x.taken \in Seq(Issues) /\ x.captured \in Nat /\ now \in Nat
      /\ x.listed \in Seq([number : Issues, issue : IssueOf])
  <2>1. now \in Nat
    BY <1>0, LimitsAreNumbers DEF Typed
  <2> HIDE DEF x
  <2> QED
    BY <1>0, <2>1, RunFields
<1>3. CASE SelectionFails(r) \/ SealBacklog(r) \/ Stop(r)
  <2>1. y = Over(r)
    BY <1>0, <1>3 DEF SelectionFails, SealBacklog, Stop
  <2> QED
    BY <2>1 DEF Over, NewRun
<1>4. CASE TakeNext(r)
  <2>1. /\ y.at = "fetching" /\ x.taken # <<>> /\ y.issue = Head(x.taken)
        /\ y.taken = Tail(x.taken) /\ y.captured = x.captured
    BY <1>0, <1>4 DEF TakeNext, RunOf
  <2>2. y.issue = x.taken[1] /\ 1 \in DOMAIN x.taken
    BY <1>2, <2>1
  <2>3. \A k \in DOMAIN y.taken : k + 1 \in DOMAIN x.taken /\ y.taken[k] = x.taken[k + 1]
    BY <1>2, <2>1
  <2> HIDE DEF x, y
  <2> QED
    BY <1>1, <2>1, <2>2, <2>3 DEF Frugal
<1>5. CASE RemoveCheckout(r)
  <2>1. y.at = "next" /\ y.taken = x.taken /\ y.captured = 0
    BY <1>0, <1>5 DEF RemoveCheckout, NewRun
  <2> HIDE DEF x, y
  <2> QED
    BY <1>1, <1>2, <2>1 DEF Frugal, WorkStations
<1>6. CASE EndOfPage(r)
  <2>1. y.at \in {"listing", "next"} /\ y.taken = x.taken /\ y.captured \in {0, x.captured}
    BY <1>0, <1>6 DEF EndOfPage, RunOf
  <2> HIDE DEF x, y
  <2> QED
    BY <1>1, <1>2, <2>1 DEF Frugal, WorkStations
<1>7. CASE ReadOpenIssuePage(r)
  <2>1. PICK z : /\ Selecting(r, z) /\ z.at = "visiting" /\ z.mode = run[r].mode
                 /\ z.captured = run[r].captured /\ z.taken = run[r].taken
                 /\ \A k \in DOMAIN z.listed :
                      /\ z.listed[k].issue = issues[z.listed[k].number]
                      /\ issues[z.listed[k].number].open
    BY <1>0, <1>7, SelectionMoves
  <2>2. y = z
    BY <1>0, <2>1, MoveTyped DEF Selecting
  <2>3. ASSUME NEW k \in DOMAIN z.listed, z.listed[k].issue.comments = <<>>
        PROVE  Reports(z.listed[k].number) = {}
    <3>1. issues[z.listed[k].number].comments = <<>>
      BY <2>1, <2>3
    <3> QED
      BY <3>1 DEF Reports
  <2> HIDE DEF x, y
  <2>4. z.captured = x.captured /\ z.taken = x.taken /\ z.at = "visiting"
    BY <2>1 DEF x
  <2> QED
    BY <1>1, <2>2, <2>3, <2>4 DEF Frugal, WorkStations
<1>8. CASE Visit(r)
  <2> DEFINE summary == Head(x.listed).issue
             number  == Head(x.listed).number
             history == IF summary.comments = <<>> THEN <<>> ELSE issues[number].comments
             due     == Considered(summary, x.captured) /\ Due(summary, history, x.captured)
             taken   == IF due THEN Append(x.taken, number) ELSE x.taken
             listed  == Tail(x.listed)
  <2>1. /\ run' = [run EXCEPT ![r].listed = listed, ![r].taken = taken]
        /\ x.listed # <<>> /\ x.at = "visiting"
    BY <1>8 DEF Visit
  <2>2. number \in Issues /\ summary \in IssueOf
    <3> DEFINE Listable == [number : Issues, issue : IssueOf]
    <3>1. x.listed \in Seq(Listable)
      BY <1>2
    <3> HIDE DEF Listable
    <3>2. Head(x.listed) \in Listable
      BY <2>1, <3>1, HeadTailProperties
    <3> QED
      BY <3>2 DEF Listable
  <2>3. 1 \in DOMAIN x.listed /\ Head(x.listed) = x.listed[1]
        /\ \A k \in DOMAIN listed : k + 1 \in DOMAIN x.listed /\ listed[k] = x.listed[k + 1]
    <3> DEFINE Listable == [number : Issues, issue : IssueOf]
    <3>1. x.listed \in Seq(Listable)
      BY <1>2
    <3> HIDE DEF Listable, x
    <3> QED
      BY <2>1, <3>1
  <2>4. ASSUME due PROVE Few(r, number)
    <3>1. summary.comments = <<>> =>
            \A j \in Reports(number) : issues[number].comments[j].by = r
      BY <1>1, <2>1, <2>3 DEF Frugal
    <3>2. x.captured <= now
      BY <1>1 DEF Frugal
    <3>3. Due(summary, history, x.captured)
      BY <2>4
    <3> HIDE DEF summary, number, due
    <3> QED
      BY <1>0, <1>2, <2>2, <3>1, <3>2, <3>3, DueIsFew
  <2>5. \A k \in DOMAIN taken : Few(r, taken[k])
    <3>1. \A k \in DOMAIN x.taken : Few(r, x.taken[k])
      BY <1>1 DEF Frugal
    <3>2. CASE ~due
      BY <3>1, <3>2
    <3>3. CASE due
      <4>1. taken = Append(x.taken, number)
        BY <3>3
      <4>2. Few(r, number)
        BY <2>4, <3>3
      <4> HIDE DEF taken, number, x, due
      <4>3. \A k \in DOMAIN taken : (k \in DOMAIN x.taken /\ taken[k] = x.taken[k]) \/ taken[k] = number
        BY <1>2, <2>2, <4>1, AppendProperties
      <4> QED
        BY <3>1, <4>2, <4>3
    <3> QED
      BY <3>2, <3>3
  <2> HIDE DEF taken, listed
  <2>6. y.at = x.at /\ y.captured = x.captured /\ y.listed = listed /\ y.taken = taken
    BY <1>0, <2>1 DEF RunOf
  <2> HIDE DEF x, y
  <2>7. \A k \in DOMAIN listed : listed[k].issue.comments = <<>> =>
          \A j \in Reports(listed[k].number) : issues[listed[k].number].comments[j].by = r
    BY <1>1, <2>1, <2>3 DEF Frugal, listed
  <2> QED
    BY <1>1, <2>1, <2>5, <2>6, <2>7 DEF Frugal, WorkStations
<1>9. CASE ~Selects(r)
  <2>1. Worked(r)
    BY <1>0, <1>9, Works
  <2>2. ASSUME NEW o, Ended(r, o, y) PROVE Frugal(r, y)
    <3>1. y.at = "removing" /\ y.taken = x.taken /\ y.captured = 0
      BY <2>2 DEF Ended
    <3> HIDE DEF x, y
    <3> QED
      BY <1>1, <1>2, <3>1 DEF Frugal
  <2>3. ASSUME Progress(r, y) PROVE Frugal(r, y)
    <3>1. /\ y.taken = x.taken /\ y.captured = x.captured /\ y.issue = x.issue
          /\ x.at \in WorkStations \ {"removing"} /\ y.at # "visiting"
      BY <2>3 DEF Progress, Continues, WorkStations
    <3> HIDE DEF x, y
    <3> QED
      BY <1>1, <3>1 DEF Frugal
  <2> QED
    BY <2>1, <2>2, <2>3 DEF Worked
<1>10. CASE StartBacklog(r) \/ \E i \in Issues : StartIssue(r, i)
  BY <1>0, <1>10 DEF StartBacklog, StartIssue
<1> QED
  BY <1>3, <1>4, <1>5, <1>6, <1>7, <1>8, <1>9, <1>10 DEF Selects

\* A run that has begun has the mode it began with.
LEMMA ModeStays ==
  ASSUME Kind, Exclusive, [Next]_vars, NEW s \in Runs, run[s].at # "idle"
  PROVE  run'[s].at # "idle" /\ run'[s].mode = run[s].mode
<1>0. Typed /\ Placed
  BY DEF Kind
<1>1. ASSUME NEW r \in Runs, RunsStep(r)
      PROVE  run'[s].at # "idle" /\ run'[s].mode = run[s].mode
  <2>1. CASE s = r
    BY <1>1, <2>1, ModeKept
  <2>2. CASE s # r
    <3>1. run'[s] = run[s]
      BY <1>0, <1>1, <2>2, RunMoves, MoveTyped
    <3> QED
      BY <3>1
  <2> QED
    BY <2>1, <2>2
<1>2. ASSUME NEW i \in Issues, PeopleStep(i)
      PROVE  run'[s].at # "idle" /\ run'[s].mode = run[s].mode
  BY <1>0, <1>2, PeopleRuns
<1>3. CASE Tick \/ UNCHANGED vars
  BY <1>3 DEF Tick, vars
<1> QED
  BY <1>1, <1>2, <1>3, Steps

\* Every report keeps the name of a run that has begun.
LEMMA SignedStep ==
  ASSUME Kind, Exclusive, Signed, [Next]_vars
  PROVE  Signed'
<1>0. Typed /\ Placed
  BY DEF Kind
<1> SUFFICES ASSUME NEW i \in Issues, NEW k \in Reports(i)'
             PROVE  /\ issues'[i].comments[k].by \in Runs
                    /\ run'[issues'[i].comments[k].by].at # "idle"
  BY DEF Signed
<1>1. \E s \in Runs : issues'[i].comments[k].by = s /\ run[s].at # "idle"
  <2>1. CASE k \in Reports(i)
    <3>1. issues'[i].comments[k].by = issues[i].comments[k].by
      BY <1>0, <2>1, ReportsGrow DEF Same
    <3> QED
      BY <2>1, <3>1 DEF Signed
  <2>2. CASE k \notin Reports(i)
    <3>1. PICK s \in Runs : Posts(s) /\ issues'[i].comments[k].by = s
      BY <1>0, <2>2, ReportAdded
    <3> QED
      BY <3>1 DEF Posts
  <2> QED
    BY <2>1, <2>2
<1> QED
  BY <1>1, ModeStays

\* The report a backlog run adds finds few of the others in its window, and the
\* windows of earlier reports do not change.
LEMMA BudgetStep ==
  ASSUME Kind, Exclusive, Budgeted, [Next]_vars
  PROVE  RevisionsAreBudgeted'
<1>0. Typed /\ Placed /\ Typed'
  BY NextTyped DEF Kind
<1> SUFFICES ASSUME NEW i \in Issues, NEW k \in Reports(i)', NEW q, q = issues'[i].comments[k].by,
                    run'[q].mode = "backlog"
             PROVE  Cardinality({j \in WindowOf(i, k)' : issues'[i].comments[j].by # q}) < MaxRevisions
  BY DEF RevisionsAreBudgeted
<1> DEFINE old  == issues[i].comments
           new  == issues'[i].comments
           goal == {j \in WindowOf(i, k)' : new[j].by # q}
<1>1. \A j \in goal : /\ j \in Reports(i)' /\ j <= k
                      /\ new[j].at >= new[k].at - Window /\ new[j].by # q
  BY DEF WindowOf
<1>2. /\ old \in Seq(CommentOf)
      /\ \A j \in Reports(i) : j \in 1 .. Len(old) /\ old[j] \in CommentOf /\ Same(old[j], new[j])
      /\ Len(old) \in Nat
  <2>1. old \in Seq(CommentOf)
    BY <1>0, IssueFields DEF Typed
  <2>2. \A j \in Reports(i) : Same(old[j], new[j])
    BY <1>0, ReportsGrow
  <2> QED
    BY <2>1, <2>2 DEF Reports
<1>3. \A j \in Reports(i)' : j \in Reports(i) \/ j = Len(old) + 1
  BY <1>0, ReportAdded
<1>4. CASE k \in Reports(i)
  <2> DEFINE then == {j \in WindowOf(i, k) : old[j].by # q}
  <2>1. old[k].by = q /\ old[k].at = new[k].at
    BY <1>2, <1>4 DEF Same
  <2>2. q \in Runs /\ run[q].at # "idle"
    BY <1>4, <2>1 DEF Budgeted, Signed
  <2>3. run[q].mode = "backlog"
    BY <2>2, ModeStays
  <2>4. Cardinality(then) < MaxRevisions
    BY <1>4, <2>1, <2>3 DEF Budgeted, RevisionsAreBudgeted
  <2>5. then \subseteq Reports(i)
    BY DEF WindowOf
  <2>6. ASSUME NEW j \in goal PROVE j \in then
    <3>1. j \in Reports(i)
      <4>1. j <= k /\ k \in 1 .. Len(old)
        BY <1>1, <1>2, <1>4
      <4> HIDE DEF goal, old
      <4>2. j # Len(old) + 1
        BY <1>2, <4>1
      <4> QED
        BY <1>1, <1>3, <2>6, <4>2
    <3>2. new[j].by = old[j].by /\ new[j].at = old[j].at
      BY <1>2, <3>1 DEF Same
    <3> QED
      BY <1>1, <2>1, <2>6, <3>1, <3>2 DEF WindowOf
  <2> HIDE DEF then, goal
  <2>7. goal \subseteq then
    BY <2>6
  <2>8. Cardinality(goal) < MaxRevisions
    BY <1>0, <2>4, <2>5, <2>7, FewerReports
  <2> QED
    BY <2>8 DEF goal
<1>5. CASE k \notin Reports(i)
  <2>1. PICK s \in Runs : /\ Posts(s) /\ run[s].issue = i /\ k = Len(old) + 1
                          /\ new[k].by = s /\ new[k].at = now
    BY <1>0, <1>5, ReportAdded
  <2>2. q = s /\ s \in Active /\ run[s].at = "commenting"
    BY <2>1, PostersAreActive DEF Posts
  <2>3. run[s].mode = "backlog"
    BY <2>2, ModeStays
  <2>4. Few(s, i)
    BY <2>1, <2>2, <2>3 DEF Budgeted, Frugal, WorkStations
  <2> DEFINE then == Others(s, i, now - Window)
  <2>5. then \subseteq Reports(i) /\ Cardinality(then) < MaxRevisions
    BY <2>4 DEF Few, Others
  <2>6. ASSUME NEW j \in goal PROVE j \in then
    <3>1. new[j].by # s /\ new[j].at >= now - Window /\ j \in Reports(i)'
      BY <1>1, <2>1, <2>2
    <3>2. j \in Reports(i)
      BY <1>3, <2>1, <3>1
    <3>3. new[j].by = old[j].by /\ new[j].at = old[j].at
      BY <1>2, <3>2 DEF Same
    <3> QED
      BY <3>1, <3>2, <3>3 DEF Others
  <2> HIDE DEF then, goal
  <2>7. goal \subseteq then
    BY <2>6
  <2>8. Cardinality(goal) < MaxRevisions
    BY <1>0, <2>5, <2>7, FewerReports
  <2> QED
    BY <2>8 DEF goal
<1> QED
  BY <1>4, <1>5

\* Every step keeps the budget.
LEMMA BudgetedStep == Kind /\ Exclusive /\ Budgeted /\ [Next]_vars => Budgeted'
<1> SUFFICES ASSUME Kind, Exclusive, Budgeted, [Next]_vars PROVE Budgeted'
  OBVIOUS
<1>0. Typed /\ Placed /\ Course /\ run \in [Runs -> RunOf] /\ Typed' /\ Placed' /\ Active \subseteq Runs
  BY NextTyped DEF Kind, Typed, Active
<1>1. ASSUME NEW s \in Active, NEW x, x = run[s], x.mode = "backlog" PROVE Frugal(s, x)'
  <2>1. x \in RunOf /\ (x.at \in WorkStations => x.issue \in Issues) /\ Frugal(s, x)
    BY <1>0, <1>1 DEF Placed, Sane, Budgeted
  <2> QED
    BY <1>1, <2>1, FrugalStays
<1>2. ASSUME NEW s \in Active, run[s].mode = "backlog", run'[s] = run[s] PROVE Frugal(s, run[s])'
  <2>1. \A x : x = run[s] => Frugal(s, x)'
    BY <1>1, <1>2
  <2> QED
    BY <1>2, <2>1 DEF Frugal
<1>3. ASSUME NEW r \in Runs, RunsStep(r), NEW s \in Active', run'[s].mode = "backlog"
      PROVE  Frugal(s, run[s])'
  <2>1. CASE s # r
    <3>1. run'[s] = run[s]
      BY <1>0, <1>3, <2>1, RunMoves, MoveTyped DEF Active
    <3>2. s \in Active
      BY <3>1 DEF Active
    <3> QED
      BY <1>2, <1>3, <3>1, <3>2
  <2>2. CASE s = r /\ run[r].at # "idle"
    <3>1. r \in Active /\ run[r].mode = "backlog"
      BY <1>3, <2>2, ModeKept
    <3>2. run'[r].at # "over"
      BY <1>3, <2>2 DEF Active
    <3>3. ASSUME NEW y, y = run'[r] PROVE Frugal(r, y)'
      <4>1. Frugal(r, y)
        BY <1>3, <3>1, <3>2, <3>3, OwnStepStaysFrugal
      <4>2. y \in RunOf /\ (y.at \in WorkStations => y.issue \in Issues)
        BY <1>0, <3>3 DEF Typed, Placed, Sane
      <4> QED
        BY <3>1, <4>1, <4>2, FrugalStays
    <3>4. \A y : y = run'[r] => Frugal(r, y)'
      BY <3>3
    <3> QED
      BY <2>2, <3>4, ZenonT(60) DEF Frugal
  <2>3. CASE s = r /\ StartBacklog(r)
    <3>0. Typed /\ Placed /\ r \in Runs /\ StartBacklog(r)
      BY <1>0, <1>3, <2>3
    <3>1. PICK y : /\ Selecting(r, y) /\ y.at = "listing" /\ y.mode = "backlog"
                   /\ y.captured = now /\ y.taken = <<>> /\ y.listed = <<>>
      BY <3>0, SelectionMoves
    <3>2. run'[r] = y
      BY <1>0, <3>1, MoveTyped DEF Selecting
    <3>3. now' = now /\ now \in Nat
      BY <1>0, <2>3, ClockAdvances DEF StartBacklog
    <3> QED
      BY <2>3, <3>1, <3>2, <3>3 DEF Frugal, WorkStations
  <2>4. CASE s = r /\ \E i \in Issues : StartIssue(r, i)
    <3>1. PICK i \in Issues : StartIssue(r, i)
      BY <2>4
    <3>0. Typed /\ Placed /\ r \in Runs /\ i \in Issues /\ StartIssue(r, i)
      BY <1>0, <1>3, <3>1
    <3>2. PICK y : Selecting(r, y) /\ y.at = "fetching" /\ y.mode = "single" /\ y.issue = i
      <4>1. \A j \in Issues : StartIssue(r, j) =>
              \E y : /\ Selecting(r, y) /\ y.at = "fetching" /\ y.mode = "single" /\ y.issue = j
        BY <3>0, SelectionMoves
      <4> QED
        BY <3>0, <4>1
    <3>3. run'[r] = y
      BY <1>0, <3>2, MoveTyped DEF Selecting
    <3> QED
      BY <1>3, <2>4, <3>2, <3>3
  <2>5. run[r].at = "idle" => StartBacklog(r) \/ \E i \in Issues : StartIssue(r, i)
    BY <1>3 DEF RunsStep, RunStep, Stop, Active, ReadOpenIssuePage, Visit, EndOfPage, SelectionFails,
         TakeNext, SealBacklog, RemoveCheckout, PreparationFails, FetchIssue, FetchComments,
         FindReport, ReadIssue, ReadTimeline, RequestFails, Work, ReadBranchHead,
         HostScreenshots, RefConflict, HostingFails, CreateComment, AnswerLost,
         CommentRefused, Posts
  <2> QED
    BY <2>1, <2>2, <2>3, <2>4, <2>5
<1>4. ASSUME NEW i \in Issues, PeopleStep(i), NEW s \in Active', run'[s].mode = "backlog"
      PROVE  Frugal(s, run[s])'
  <2>1. /\ run'[s].at = run[s].at /\ run'[s].mode = run[s].mode /\ run'[s].issue = run[s].issue
        /\ run'[s].captured = run[s].captured /\ run'[s].listed = run[s].listed
        /\ run'[s].taken = run[s].taken
    BY <1>0, <1>4, PeopleRuns DEF Active
  <2>2. s \in Active /\ run[s].mode = "backlog"
    BY <1>4, <2>1 DEF Active
  <2>3. \A x : x = run[s] => Frugal(s, x)'
    BY <1>1, <2>2
  <2>4. \A x, y : /\ Frugal(s, x)' /\ y.at = x.at /\ y.issue = x.issue
                  /\ y.captured = x.captured /\ y.listed = x.listed /\ y.taken = x.taken
                  => Frugal(s, y)'
    BY DEF Frugal
  <2>5. \A y : y = run'[s] => Frugal(s, y)'
    BY <2>1, <2>3, <2>4
  <2> QED
    BY <2>5 DEF Frugal
<1>5. ASSUME Tick \/ UNCHANGED vars, NEW s \in Active', run'[s].mode = "backlog"
      PROVE  Frugal(s, run[s])'
  <2>1. run' = run
    BY <1>5 DEF Tick, vars
  <2>2. s \in Active
    BY <2>1 DEF Active
  <2> QED
    BY <1>2, <1>5, <2>1, <2>2
<1>6. \A s \in Active' : run'[s].mode = "backlog" => Frugal(s, run[s])'
  BY <1>3, <1>4, <1>5, Steps
<1>7. Signed'
  BY SignedStep DEF Budgeted
<1> QED
  BY <1>6, <1>7, BudgetStep DEF Budgeted

\* A backlog run never adds a report to an issue on which the others have spent
\* the budget of the rolling window, if runs do not overlap: what it counted when
\* it took the issue still bounds what is there when it posts
\* (RevisionsAreBudgeted).
THEOREM BudgetIsRespected ==
  ASSUME Overlap = FALSE
  PROVE  Spec => []RevisionsAreBudgeted
<1>1. Init => Budgeted
  <2> SUFFICES ASSUME Init PROVE Budgeted
    OBVIOUS
  <2>1. Active = {}
    BY DEF Init, NewRun, Active
  <2> QED
    BY <2>1, InitReports DEF Budgeted, Signed, RevisionsAreBudgeted
<1>2. Budgeted => RevisionsAreBudgeted
  BY DEF Budgeted
<1> QED
  BY <1>1, <1>2, BudgetedStep, ExclusiveStep, KindInvariance, PTL DEF Spec
==============================================================================
