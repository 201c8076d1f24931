--------------------------- MODULE EvidenceRunProofs ---------------------------
(***************************************************************************)
(* What TLC checks of EvidenceRun for a few sessions, captures and images, *)
(* proved for any number of them, for every issue and for everything the   *)
(* agent may meet.                                                         *)
(***************************************************************************)
EXTENDS EvidenceRun, FiniteSetTheorems, WellFoundedInduction,
        SequenceTheorems, TLAPS

\* Numbers, if there are any, have a smallest among them.
LEMMA Least ==
  ASSUME NEW S \in SUBSET Nat, S # {}
  PROVE  \E x \in S : \A y \in S : x <= y
<1> DEFINE Order == OpToRel(<, Nat)
<1>1. \A x, y \in Nat : x < y => <<x, y>> \in Order
  BY Zenon DEF OpToRel
<1>2. IsWellFoundedOn(Order, Nat)
  BY NatLessThanWellFounded, Zenon
<1> HIDE DEF Order
<1>3. PICK x \in S : \A y \in S : <<y, x>> \notin Order
  BY <1>2, WFMin
<1>4. ASSUME NEW y \in S
      PROVE  x <= y
  <2>1. x \in Nat /\ y \in Nat
    OBVIOUS
  <2>2. ~ (y < x)
    BY <1>1, <1>3, <2>1
  <2> QED
    BY <2>1, <2>2
<1> QED
  BY <1>4

\* A bounded set of numbers that is not empty has a greatest one.
LEMMA Greatest ==
  ASSUME NEW S \in SUBSET Nat, S # {}, NEW bound \in Nat, \A x \in S : x <= bound
  PROVE  Max(S) \in S
<1> DEFINE Rest == {bound - x : x \in S}
<1>1. Rest \in SUBSET Nat
  OBVIOUS
<1>2. Rest # {}
  <2>1. PICK x \in S : TRUE
    OBVIOUS
  <2> QED
    BY <2>1, bound - x \in Rest
<1>3. PICK d \in Rest : \A y \in Rest : d <= y
  <2> HIDE DEF Rest
  <2> QED
    BY <1>1, <1>2, Least
<1>4. PICK x \in S : d = bound - x
  BY <1>3
<1>5. \A y \in S : x >= y
  <2> SUFFICES ASSUME NEW y \in S
               PROVE  x >= y
    OBVIOUS
  <2>1. bound - x <= bound - y
    BY <1>3, <1>4
  <2> QED
    BY <2>1
<1> QED
  BY <1>5 DEF Max

\* A list of checks refuses nothing exactly if every check accepts.
LEMMA ChecksInOrder ==
  ASSUME NEW checks, NEW n \in Nat, DOMAIN checks = 1..n
  PROVE  FirstRefusal(checks) = Accepted <=> \A k \in 1..n : checks[k] = Accepted
<1> DEFINE refusals == {k \in DOMAIN checks : checks[k] # Accepted}
<1>1. ASSUME refusals # {}
      PROVE  Min(refusals) \in refusals
  <2>1. refusals \in SUBSET Nat
    OBVIOUS
  <2>2. \E x \in refusals : \A y \in refusals : x <= y
    <3> HIDE DEF refusals
    <3> QED
      BY <1>1, <2>1, Least
  <2> QED
    BY <2>2 DEF Min
<1>2. FirstRefusal(checks) = Accepted <=> refusals = {}
  BY <1>1 DEF FirstRefusal
<1> QED
  BY <1>2

-----------------------------------------------------------------------------
(* What a session keeps, whatever is done in it.                            *)

\* Complete vision is what its captures prove, and only a session at the
\* target has captures of the target's pages.
Coherent(s) ==
  /\ s \in Session
  /\ s.full <=> s.navigated /\ FullyRead(s.captures)
  /\ s.captures # <<>> => s.navigated

\* What was asked of the session and what it proves is not lost.
Grows(s, t) ==
  /\ Coherent(t)
  /\ t.mode = s.mode /\ t.kind = s.kind /\ t.profile = s.profile /\ t.credit = s.credit
  /\ s.navigated => t.navigated
  /\ FullyRead(s.captures) => FullyRead(t.captures)

\* A session has one capture more, or one that is read further.
CapturesGrow(older, newer) ==
  \/ \E c \in Capture : newer = Append(older, c)
  \/ \E k \in DOMAIN older, c \in Capture :
       /\ older[k].complete => c.complete /\ older[k].read \subseteq c.read
       /\ newer = [older EXCEPT ![k] = c]

\* Captures that grow stay captures, and a reading that was complete stays so.
LEMMA CapturesKeepReading ==
  ASSUME NEW older \in Seq(Capture), NEW newer, CapturesGrow(older, newer)
  PROVE  /\ newer \in Seq(Capture) /\ newer # <<>>
         /\ FullyRead(older) => FullyRead(newer)
<1>1. CASE \E c \in Capture : newer = Append(older, c)
  <2>1. PICK c \in Capture : newer = Append(older, c)
    BY <1>1
  <2>2. /\ newer \in Seq(Capture) /\ newer # <<>>
        /\ DOMAIN older \subseteq DOMAIN newer
        /\ \A k \in DOMAIN older : newer[k] = older[k]
    BY <2>1
  <2> QED
    BY <2>2 DEF FullyRead
<1>2. CASE \E k \in DOMAIN older, c \in Capture :
             /\ older[k].complete => c.complete /\ older[k].read \subseteq c.read
             /\ newer = [older EXCEPT ![k] = c]
  <2>1. PICK k \in DOMAIN older, c \in Capture :
          /\ older[k].complete => c.complete /\ older[k].read \subseteq c.read
          /\ newer = [older EXCEPT ![k] = c]
    BY <1>2
  <2>2. newer \in Seq(Capture) /\ Len(newer) = Len(older)
    BY <2>1, ExceptSeq
  <2>3. newer # <<>> /\ DOMAIN newer = DOMAIN older
    BY <2>1, <2>2
  <2>4. ASSUME NEW n \in DOMAIN older, WhollyRead(older[n])
        PROVE  WhollyRead(newer[n])
    <3>1. CASE n # k
      BY <2>1, <2>4, <3>1
    <3>2. CASE n = k
      <4>1. c.read \subseteq Images
        BY <2>1 DEF Capture
      <4>2. newer[n] = c
        BY <2>1, <3>2
      <4>3. c.complete /\ c.read = Images
        BY <2>1, <2>4, <3>2, <4>1 DEF WhollyRead
      <4> QED
        BY <4>2, <4>3 DEF WhollyRead
    <3> QED
      BY <3>1, <3>2
  <2> QED
    BY <2>2, <2>3, <2>4 DEF FullyRead
<1> QED
  BY <1>1, <1>2 DEF CapturesGrow

\* A session at the target grows with its captures once its vision is refreshed.
LEMMA CapturedGrows ==
  ASSUME NEW s, Coherent(s), s.navigated, NEW captures, CapturesGrow(s.captures, captures)
  PROVE  Grows(s, Refreshed([s EXCEPT !.captures = captures]))
<1> DEFINE t == [s EXCEPT !.captures = captures]
           u == Refreshed(t)
<1>1. s \in Session /\ s.captures \in Seq(Capture)
  BY DEF Coherent, Session
<1>2. /\ captures \in Seq(Capture) /\ captures # <<>>
      /\ FullyRead(s.captures) => FullyRead(captures)
  BY <1>1, CapturesKeepReading
<1>3. t \in Session /\ t.captures = captures
  BY <1>1, <1>2 DEF Session
<1>4. /\ t.mode = s.mode /\ t.kind = s.kind /\ t.profile = s.profile /\ t.credit = s.credit
      /\ t.navigated = s.navigated
  BY <1>1 DEF Session
<1>5. (t.navigated /\ FullyRead(t.captures)) \in BOOLEAN
  BY DEF FullyRead
<1>6. u = [t EXCEPT !.full = (t.navigated /\ FullyRead(t.captures))]
  BY DEF Refreshed
<1>7. /\ u \in Session
      /\ u.full = (t.navigated /\ FullyRead(t.captures))
      /\ u.captures = t.captures /\ u.navigated = t.navigated
      /\ u.mode = t.mode /\ u.kind = t.kind /\ u.profile = t.profile /\ u.credit = t.credit
  <2> HIDE DEF t, u
  <2> QED
    BY <1>3, <1>5, <1>6 DEF Session
<1> QED
  <2> HIDE DEF t
  <2>1. Coherent(u)
    <3> HIDE DEF u
    <3> QED
      BY <1>3, <1>4, <1>7 DEF Coherent
  <2> HIDE DEF u
  <2>2. Grows(s, u)
    BY <1>2, <1>3, <1>4, <1>7, <2>1 DEF Grows
  <2> QED
    BY <2>2 DEF u, t

\* A session grows with a visit, a refused document, a failure or a screenshot.
LEMMA VisitGrows ==
  ASSUME NEW s, Coherent(s), NEW navigated \in BOOLEAN, s.navigated => navigated,
         NEW refused \in BOOLEAN, NEW failed \in BOOLEAN, NEW shot \in BOOLEAN
  PROVE  Grows(s, [s EXCEPT !.navigated = navigated, !.refused = refused,
                            !.failed = failed, !.shot = shot])
<1> DEFINE t == [s EXCEPT !.navigated = navigated, !.refused = refused,
                          !.failed = failed, !.shot = shot]
<1>1. s \in Session
  BY DEF Coherent
<1>2. /\ t \in Session /\ t.navigated = navigated
      /\ t.full = s.full /\ t.captures = s.captures
      /\ t.mode = s.mode /\ t.kind = s.kind /\ t.profile = s.profile /\ t.credit = s.credit
  BY <1>1, ZenonT(60) DEF Session
<1>3. s.captures = <<>> => ~FullyRead(s.captures)
  BY DEF FullyRead
<1> HIDE DEF t
<1>4. Coherent(t)
  BY <1>2, <1>3 DEF Coherent
<1>5. Grows(s, t)
  BY <1>2, <1>4 DEF Grows
<1> QED
  BY <1>5 DEF t
-----------------------------------------------------------------------------
(* What the sessions keep, whatever tool is called.                         *)

SessionsOK == sessions \in Seq(Session) /\ \A i \in Ids : Coherent(sessions[i])

\* A call adds a session, changes one, or leaves them alone.
SessionsGrow ==
  \/ sessions' = sessions
  \/ \E s : Coherent(s) /\ sessions' = Append(sessions, s)
  \/ \E i \in Ids : \E t : Grows(sessions[i], t) /\ sessions' = [sessions EXCEPT ![i] = t]

\* Everything a judgement reads of the sessions is kept when they grow.
LEMMA SessionsKeep ==
  ASSUME SessionsOK, SessionsGrow
  PROVE  /\ SessionsOK'
         /\ Len(sessions) <= Len(sessions') /\ Len(sessions') <= Len(sessions) + 1
         /\ \A i \in Ids : i \in Ids' /\ Grows(sessions[i], sessions'[i])
<1> USE DEF SessionsOK, Ids
<1>0. \A i \in Ids : Grows(sessions[i], sessions[i])
  BY DEF Grows
<1>1. CASE sessions' = sessions
  BY <1>0, <1>1
<1>2. CASE \E s : Coherent(s) /\ sessions' = Append(sessions, s)
  <2>1. PICK s : Coherent(s) /\ sessions' = Append(sessions, s)
    BY <1>2
  <2>2. s \in Session
    BY <2>1 DEF Coherent
  <2>3. /\ sessions' \in Seq(Session) /\ Len(sessions') = Len(sessions) + 1
        /\ DOMAIN sessions' = 1..(Len(sessions) + 1)
        /\ \A i \in Ids : sessions'[i] = sessions[i]
        /\ sessions'[Len(sessions) + 1] = s
    BY <2>1, <2>2
  <2>4. \A i \in DOMAIN sessions' : i \in Ids \/ i = Len(sessions) + 1
    BY <2>3
  <2>5. \A i \in DOMAIN sessions' : Coherent(sessions'[i])
    BY <2>1, <2>3, <2>4
  <2>6. \A i \in Ids : i \in DOMAIN sessions'
    BY <2>3
  <2> QED
    BY <1>0, <2>3, <2>5, <2>6
<1>3. CASE \E i \in Ids : \E t : /\ Grows(sessions[i], t)
                                 /\ sessions' = [sessions EXCEPT ![i] = t]
  <2>1. PICK i \in Ids, t \in Session : /\ Grows(sessions[i], t)
                                        /\ sessions' = [sessions EXCEPT ![i] = t]
    BY <1>3 DEF Grows, Coherent
  <2>2. Coherent(t) /\ t \in Session
    BY <2>1 DEF Grows, Coherent
  <2>3. /\ sessions' \in Seq(Session) /\ Len(sessions') = Len(sessions)
        /\ DOMAIN sessions' = Ids
        /\ \A j \in Ids : sessions'[j] = IF j = i THEN t ELSE sessions[j]
    BY <2>1, <2>2, ExceptSeq
  <2>4. \A j \in Ids : Coherent(sessions'[j]) /\ Grows(sessions[j], sessions'[j])
    BY <1>0, <2>1, <2>2, <2>3
  <2> QED
    BY <2>3, <2>4
<1> QED
  BY <1>1, <1>2, <1>3 DEF SessionsGrow

\* A failed call of a tool is one more attempt, or leaves the budget exhausted.
LEMMA ChargesKeepReports ==
  ASSUME NEW b \in Budget
  PROVE  \A c \in {ChargeLaunch(b, NoSignal), ChargePage(b), ChargeWall(b)} :
           c \in Budget /\ (ReportAllowed(b) => ReportAllowed(c))
<1>1. OneMore(b) \in 0..MaxAttempts /\ b.attempts <= OneMore(b)
  BY DEF OneMore, MaxAttempts, Budget
<1>2. ChargeLaunch(b, NoSignal) \in Budget /\ ChargeLaunch(b, NoSignal).attempts = OneMore(b)
  BY <1>1 DEF ChargeLaunch, Budget
<1>3. ChargePage(b) \in Budget /\ ChargePage(b).attempts = OneMore(b)
  BY <1>1 DEF ChargePage, Budget
<1>4. ChargeWall(b) \in Budget /\ ChargeWall(b).attempts = OneMore(b)
  BY <1>1 DEF ChargeWall, Budget
<1>5. ASSUME NEW c \in Budget, c.attempts = OneMore(b), ReportAllowed(b)
      PROVE  ReportAllowed(c)
  BY <1>1, <1>5 DEF ReportAllowed, MaxAttempts, Budget
<1> QED
  BY <1>2, <1>3, <1>4, <1>5

\* The evidence has its types, and its sessions are coherent.
EvidenceOK ==
  /\ SessionsOK
  /\ {fetched, reported, unattainable} \subseteq BOOLEAN
  /\ environment \in {"none", "ready", "limited"}
  /\ active \in {0, Len(sessions)}
  /\ counted \subseteq Ids
  /\ budget \in Budget
  /\ disposition \in {"none", "limited", "inconclusive", "verified"}
  /\ candidate \in [session : {0} \cup Ids, verdict : {"none", "rejected", "verified"}]

\* A tool call: the sessions grow, and what was established stays so.
Gathers ==
  /\ SessionsGrow
  /\ {fetched, reported, unattainable}' \subseteq BOOLEAN
  /\ (fetched => fetched') /\ (reported => reported') /\ (unattainable => unattainable')
  /\ environment' \in {"none", "ready", "limited"}
  /\ environment # "none" => environment' # "none"
  /\ environment = "limited" => environment' = "limited"
  /\ active' \in {0, Len(sessions')}
  /\ counted' \subseteq Ids'
  /\ budget' \in Budget /\ (ReportAllowed(budget) => ReportAllowed(budget'))
  /\ disposition' \in {"none", "limited", "inconclusive", "verified"}
  /\ candidate' \in [session : {0} \cup Ids', verdict : {"none", "rejected", "verified"}]

\* No evidence before the run.
LEMMA InitEvidence == Init => EvidenceOK
<1> SUFFICES ASSUME Init
             PROVE  EvidenceOK
  OBVIOUS
<1>1. SessionsOK
  BY DEF Init, SessionsOK, Ids
<1>2. budget \in Budget
  BY DEF Init, NewBudget, Budget, MaxAttempts
<1> QED
  BY <1>1, <1>2 DEF Init, EvidenceOK

\* What is gathered keeps its types.
LEMMA GatheredIsOK ==
  ASSUME EvidenceOK, Gathers
  PROVE  EvidenceOK'
  BY SessionsKeep DEF EvidenceOK, Gathers

\* The active session is one of the sessions.
LEMMA ActiveIsSession == EvidenceOK /\ active # 0 => active \in Ids
<1> SUFFICES ASSUME EvidenceOK, active # 0
             PROVE  active \in Ids
  OBVIOUS
<1>1. sessions \in Seq(Session) /\ active = Len(sessions)
  BY DEF EvidenceOK, SessionsOK
<1>2. Len(sessions) \in Nat /\ DOMAIN sessions = 1..Len(sessions)
  BY <1>1
<1> QED
  BY <1>1, <1>2 DEF Ids

\* A call that leaves the sessions, or changes one, leaves their number.
LEMMA SameSessions ==
  ASSUME EvidenceOK,
         \/ sessions' = sessions
         \/ \E i \in Ids : \E t : /\ Grows(sessions[i], t)
                                  /\ sessions' = [sessions EXCEPT ![i] = t]
  PROVE  SessionsGrow /\ Len(sessions') = Len(sessions) /\ Ids' = Ids
<1>1. SessionsGrow
  BY DEF SessionsGrow
<1>2. CASE sessions' = sessions
  BY <1>1, <1>2 DEF Ids
<1>3. CASE \E i \in Ids : \E t : /\ Grows(sessions[i], t)
                                 /\ sessions' = [sessions EXCEPT ![i] = t]
  <2>1. PICK i \in Ids, t \in Session : /\ Grows(sessions[i], t)
                                        /\ sessions' = [sessions EXCEPT ![i] = t]
    BY <1>3 DEF Grows, Coherent
  <2>2. sessions \in Seq(Session) /\ t \in Session /\ i \in 1..Len(sessions)
    BY <2>1 DEF EvidenceOK, SessionsOK, Ids, Grows, Coherent
  <2>3. Len(sessions') = Len(sessions) /\ DOMAIN sessions' = DOMAIN sessions
    BY <2>1, <2>2, ExceptSeq
  <2> QED
    BY <1>1, <2>3 DEF Ids
<1> QED
  BY <1>2, <1>3

\* The intake leaves the sessions alone.
LEMMA IntakeGathers ==
  ASSUME EvidenceOK,
         \/ FetchIssue
         \/ \E state \in {"ready", "limited"} : SelectEnvironment(state)
         \/ AnalyzeIssueScreenshots
  PROVE  Gathers /\ Len(sessions') = Len(sessions)
<1>1. sessions' = sessions
  BY DEF FetchIssue, SelectEnvironment, AnalyzeIssueScreenshots
<1>2. SessionsGrow /\ Len(sessions') = Len(sessions) /\ Ids' = Ids
  BY <1>1, SameSessions
<1>3. CASE FetchIssue
  BY <1>2, <1>3 DEF FetchIssue, Gathers, EvidenceOK
<1>4. CASE \E state \in {"ready", "limited"} : SelectEnvironment(state)
  BY <1>2, <1>4 DEF SelectEnvironment, Gathers, EvidenceOK
<1>5. CASE AnalyzeIssueScreenshots
  BY <1>2, <1>5 DEF AnalyzeIssueScreenshots, Gathers, EvidenceOK
<1> QED
  BY <1>3, <1>4, <1>5

\* A new session is one whose settings are not proven yet.
LEMMA NewSessionType ==
  ASSUME NEW mode \in {"none", "prepared"}, NEW kind \in Kinds \cup {Unset},
         NEW profile \in Profiles
  PROVE  LET s == NewSession(mode, kind, profile)
         IN s \in Session /\ s.credit = Unset
<1>1. <<>> \in Seq(Capture)
  OBVIOUS
<1> QED
  BY <1>1 DEF NewSession, Session

\* A new session has no evidence.
LEMMA NewSessionCoherent ==
  ASSUME NEW mode \in {"none", "prepared"}, NEW kind \in Kinds \cup {Unset},
         NEW profile \in Profiles, NEW credit \in Credits \cup {Unset}
  PROVE  Coherent([NewSession(mode, kind, profile) EXCEPT !.credit = credit])
<1> DEFINE s == [NewSession(mode, kind, profile) EXCEPT !.credit = credit]
<1>1. s \in Session
  BY NewSessionType DEF Session
<1>2. s.captures = <<>> /\ s.full = FALSE
  BY DEF NewSession
<1>3. ~FullyRead(<<>>)
  BY DEF FullyRead
<1> HIDE DEF s
<1>4. Coherent(s)
  BY <1>1, <1>2, <1>3 DEF Coherent
<1> QED
  BY <1>4 DEF s

\* A launch adds the session that is active from then on.
LEMMA LaunchGathers ==
  ASSUME EvidenceOK, NEW mode \in {"none", "prepared"}, NEW kind \in Kinds \cup {Unset},
         NEW profile \in Profiles, NEW outcome, Launch(mode, kind, profile, outcome)
  PROVE  Gathers /\ Len(sessions') = Len(sessions) + 1
<1> DEFINE credit == IF outcome \in Credits THEN outcome ELSE Unset
           s == [NewSession(mode, kind, profile) EXCEPT !.credit = credit]
<1>1. Coherent(s)
  BY NewSessionCoherent
<1>2. sessions' = Append(sessions, s)
  BY DEF Launch
<1>3. s \in Session /\ sessions \in Seq(Session)
  BY <1>1 DEF Coherent, EvidenceOK, SessionsOK
<1>4. SessionsGrow
  BY <1>1, <1>2 DEF SessionsGrow
<1> HIDE DEF s
<1>5. Len(sessions') = Len(sessions) + 1
  BY <1>2, <1>3
<1>6. Ids \subseteq Ids'
  BY <1>4, SessionsKeep DEF EvidenceOK
<1>7. unattainable' = (unattainable \/ (kind = "reported" /\ outcome = "over limits"))
  BY DEF Launch
<1> QED
  BY <1>4, <1>5, <1>6, <1>7 DEF Launch, Gathers, EvidenceOK, intakeVars

\* A launch that fails may leave its session on record.
LEMMA LaunchFailsGathers ==
  ASSUME EvidenceOK, NEW mode \in {"none", "prepared"}, NEW kind \in Kinds \cup {Unset},
         NEW profile \in Profiles, NEW created, LaunchFails(mode, kind, profile, created)
  PROVE  Gathers /\ Len(sessions') <= Len(sessions) + 1
<1> DEFINE s == NewSession(mode, kind, profile)
<1>1. s = [s EXCEPT !.credit = Unset]
  BY NewSessionType DEF Session
<1>2. Coherent(s)
  BY <1>1, NewSessionCoherent
<1>3. sessions' = sessions \/ sessions' = Append(sessions, s)
  BY DEF LaunchFails
<1>4. SessionsGrow
  BY <1>2, <1>3 DEF SessionsGrow
<1>5. Ids \subseteq Ids' /\ Len(sessions') <= Len(sessions) + 1
  BY <1>4, SessionsKeep DEF EvidenceOK
<1>6. ChargeLaunch(budget, NoSignal) \in Budget
      /\ (ReportAllowed(budget) => ReportAllowed(ChargeLaunch(budget, NoSignal)))
  BY ChargesKeepReports DEF EvidenceOK
<1> QED
  BY <1>4, <1>5, <1>6 DEF LaunchFails, Gathers, EvidenceOK, intakeVars

\* Closing leaves the evidence of the session.
LEMMA CloseGathers ==
  ASSUME EvidenceOK, CloseBrowser
  PROVE  Gathers /\ Len(sessions') = Len(sessions)
<1>1. SessionsGrow /\ Len(sessions') = Len(sessions) /\ Ids' = Ids
  BY SameSessions DEF CloseBrowser
<1> QED
  BY <1>1 DEF CloseBrowser, Gathers, EvidenceOK, intakeVars

\* A page that opens, at the target or elsewhere, takes nothing away.
LEMMA OpenPageGathers ==
  ASSUME EvidenceOK, NEW onTarget \in BOOLEAN, NEW refused \in BOOLEAN,
         OpenPage(onTarget, refused)
  PROVE  Gathers /\ Len(sessions') = Len(sessions)
<1> DEFINE s == sessions[active]
           t == [s EXCEPT !.navigated = s.navigated \/ onTarget, !.refused = refused,
                          !.failed = s.failed, !.shot = s.shot]
<1>1. active \in Ids
  BY ActiveIsSession DEF OpenPage, Served
<1>2. Coherent(s) /\ s \in Session
  BY <1>1 DEF EvidenceOK, SessionsOK, Coherent
<1>3. (s.navigated \/ onTarget) \in BOOLEAN /\ s.failed \in BOOLEAN /\ s.shot \in BOOLEAN
  BY <1>2 DEF Session
<1>4. Grows(s, t)
  BY <1>2, <1>3, VisitGrows
<1>5. t = [s EXCEPT !.navigated = s.navigated \/ onTarget, !.refused = refused]
  BY <1>2 DEF Session
<1>6. sessions' = [sessions EXCEPT ![active] = t]
  BY <1>1, <1>5 DEF OpenPage, Ids
<1>7. SessionsGrow /\ Len(sessions') = Len(sessions) /\ Ids' = Ids
  <2> HIDE DEF t
  <2> QED
    BY <1>1, <1>4, <1>6, SameSessions
<1> QED
  BY <1>7 DEF OpenPage, Gathers, EvidenceOK, intakeVars

\* A page that fails to open takes nothing away and is charged.
LEMMA OpenPageFailsGathers ==
  ASSUME EvidenceOK, OpenPageFails
  PROVE  Gathers /\ Len(sessions') = Len(sessions)
<1> DEFINE s == sessions[active]
           t == [s EXCEPT !.navigated = s.navigated, !.refused = s.refused,
                          !.failed = TRUE, !.shot = s.shot]
<1>1. active \in Ids
  BY ActiveIsSession DEF OpenPageFails, Served
<1>2. Coherent(s) /\ s \in Session
  BY <1>1 DEF EvidenceOK, SessionsOK, Coherent
<1>3. s.navigated \in BOOLEAN /\ s.refused \in BOOLEAN /\ s.shot \in BOOLEAN
  BY <1>2 DEF Session
<1>4. Grows(s, t)
  BY <1>2, <1>3, VisitGrows
<1>5. t = [s EXCEPT !.failed = TRUE]
  BY <1>2 DEF Session
<1>6. sessions' = [sessions EXCEPT ![active] = t]
  BY <1>1, <1>5 DEF OpenPageFails, Ids
<1>7. SessionsGrow /\ Len(sessions') = Len(sessions) /\ Ids' = Ids
  <2> HIDE DEF t
  <2> QED
    BY <1>1, <1>4, <1>6, SameSessions
<1>8. ChargePage(budget) \in Budget
      /\ (ReportAllowed(budget) => ReportAllowed(ChargePage(budget)))
  BY ChargesKeepReports DEF EvidenceOK
<1> QED
  BY <1>7, <1>8 DEF OpenPageFails, Gathers, EvidenceOK, intakeVars

\* A screenshot is one capture more, or none of the target.
LEMMA ScreenshotGathers ==
  ASSUME EvidenceOK, NEW complete \in BOOLEAN, Screenshot(complete)
  PROVE  Gathers /\ Len(sessions') = Len(sessions)
<1> DEFINE s == sessions[active]
           c == [complete |-> complete, read |-> {}, presence |-> Unset, view |-> Unset]
<1>1. active \in Ids
  BY ActiveIsSession DEF Screenshot, Served
<1>2. Coherent(s) /\ s \in Session
  BY <1>1 DEF EvidenceOK, SessionsOK, Coherent
<1>3. \E t : Grows(s, t) /\ sessions' = [sessions EXCEPT ![active] = t]
  <2>1. CASE s.navigated
    <3>1. c \in Capture
      BY DEF Capture
    <3>2. CapturesGrow(s.captures, Append(s.captures, c))
      BY <3>1 DEF CapturesGrow
    <3>3. Grows(s, Refreshed([s EXCEPT !.captures = Append(s.captures, c)]))
      BY <1>2, <2>1, <3>2, CapturedGrows
    <3>4. sessions' = [sessions EXCEPT ![active] =
                         Refreshed([s EXCEPT !.captures = Append(s.captures, c)])]
      BY <2>1 DEF Screenshot
    <3> QED
      BY <3>3, <3>4
  <2>2. CASE ~s.navigated
    <3> DEFINE t == [s EXCEPT !.navigated = s.navigated, !.refused = s.refused,
                              !.failed = s.failed, !.shot = TRUE]
    <3>1. s.navigated \in BOOLEAN /\ s.refused \in BOOLEAN /\ s.failed \in BOOLEAN
      BY <1>2 DEF Session
    <3>2. Grows(s, t)
      BY <1>2, <3>1, VisitGrows
    <3>3. t = [s EXCEPT !.shot = TRUE]
      BY <1>2 DEF Session
    <3>4. sessions' = [sessions EXCEPT ![active] = t]
      BY <2>2, <3>3 DEF Screenshot
    <3> HIDE DEF t
    <3> QED
      BY <3>2, <3>4
  <2> QED
    BY <2>1, <2>2
<1>4. SessionsGrow /\ Len(sessions') = Len(sessions) /\ Ids' = Ids
  BY <1>1, <1>3, SameSessions
<1> QED
  BY <1>4 DEF Screenshot, Gathers, EvidenceOK, intakeVars

\* A wall is counted for a session on record, and only charges.
LEMMA WallIsCounted ==
  ASSUME EvidenceOK, NEW i \in Ids, NEW seen, CountWall(i, seen)
  PROVE  /\ counted' \subseteq Ids
         /\ budget' \in Budget /\ (ReportAllowed(budget) => ReportAllowed(budget'))
<1>1. ChargeWall(budget) \in Budget
      /\ (ReportAllowed(budget) => ReportAllowed(ChargeWall(budget)))
  BY ChargesKeepReports DEF EvidenceOK
<1> QED
  BY <1>1 DEF CountWall, EvidenceOK

\* An image that is read adds to what its capture has been read for.
LEMMA AnalyzeGathers ==
  ASSUME EvidenceOK, NEW i \in Ids, NEW k, NEW image \in Images, NEW wall,
         Analyze(i, k, image, wall)
  PROVE  Gathers /\ Len(sessions') = Len(sessions)
<1> DEFINE s == sessions[i]
           c == [s.captures[k] EXCEPT !.read = s.captures[k].read \cup {image}]
           captures == [s.captures EXCEPT ![k] = c]
<1>1. Coherent(s) /\ s \in Session /\ s.captures \in Seq(Capture)
  BY DEF EvidenceOK, SessionsOK, Coherent, Session
<1>2. k \in DOMAIN s.captures /\ s.captures[k] \in Capture
  <2>1. k \in DOMAIN s.captures
    BY DEF Analyze
  <2> QED
    BY <1>1, <2>1, ElementOfSeq
<1>3. s.navigated
  BY <1>1, <1>2 DEF Coherent
<1>4. c \in Capture /\ c.complete = s.captures[k].complete /\ s.captures[k].read \subseteq c.read
  BY <1>2 DEF Capture
<1>5. CapturesGrow(s.captures, captures)
  BY <1>2, <1>4 DEF CapturesGrow
<1>6. Grows(s, Refreshed([s EXCEPT !.captures = captures]))
  BY <1>1, <1>3, <1>5, CapturedGrows
<1>7. sessions' = [sessions EXCEPT ![i] = Refreshed([s EXCEPT !.captures = captures])]
  <2>1. sessions' = [sessions EXCEPT ![i] =
                       Refreshed([sessions[i] EXCEPT
                         !.captures[k].read = sessions[i].captures[k].read \cup {image}])]
    BY DEF Analyze
  <2> QED
    BY <2>1
<1>8. SessionsGrow /\ Len(sessions') = Len(sessions) /\ Ids' = Ids
  BY <1>6, <1>7, SameSessions
<1>9. /\ counted' \subseteq Ids
      /\ budget' \in Budget /\ (ReportAllowed(budget) => ReportAllowed(budget'))
  BY WallIsCounted DEF Analyze
<1> QED
  BY <1>8, <1>9 DEF Analyze, Gathers, EvidenceOK, intakeVars

\* Any other image can only show a wall.
LEMMA AnalyzeOtherGathers ==
  ASSUME EvidenceOK, NEW i \in Ids, NEW wall, AnalyzeOther(i, wall)
  PROVE  Gathers /\ Len(sessions') = Len(sessions)
<1>1. SessionsGrow /\ Len(sessions') = Len(sessions) /\ Ids' = Ids
  BY SameSessions DEF AnalyzeOther
<1>2. /\ counted' \subseteq Ids
      /\ budget' \in Budget /\ (ReportAllowed(budget) => ReportAllowed(budget'))
  BY WallIsCounted DEF AnalyzeOther
<1> QED
  BY <1>1, <1>2 DEF AnalyzeOther, Gathers, EvidenceOK, intakeVars

\* What an inventory concludes is one of the things a capture can show.
LEMMA AggregatesAreConclusions ==
  ASSUME NEW answer \in Answers, NEW covered
  PROVE  AggregatePresence(answer, covered) \in Presences /\ AggregateView(answer) \in Views
<1>1. AggregatePresence(answer, covered) \in Presences
  BY DEF AggregatePresence, Presences
<1>2. {Clear, Blank} \subseteq Views /\ Walls \subseteq Views
  BY EvidenceAssumption
<1>3. AggregateView(answer) \in Views
  BY <1>2 DEF AggregateView
<1> QED
  BY <1>1, <1>3

\* An inventory of the latest capture adds what it has read.
LEMMA InspectGathers ==
  ASSUME EvidenceOK, NEW answer \in Answers, NEW fits,
         InspectLatestFullPageCapture(answer, fits)
  PROVE  Gathers /\ Len(sessions') = Len(sessions)
<1> DEFINE s    == sessions[active]
           k    == Len(s.captures)
           read == {m \in Images : answer[m] # Unanswered}
           view == AggregateView(answer)
           c    == [complete |-> TRUE,
                    read     |-> s.captures[k].read \cup read,
                    presence |-> AggregatePresence(answer, read = Images /\ fits),
                    view     |-> view]
           captures == [s.captures EXCEPT ![k] = c]
<1>1. active \in Ids /\ s.navigated /\ k > 0
  BY ActiveIsSession DEF InspectLatestFullPageCapture
<1>2. Coherent(s) /\ s \in Session /\ s.captures \in Seq(Capture)
  BY <1>1 DEF EvidenceOK, SessionsOK, Coherent, Session
<1>3. k \in DOMAIN s.captures /\ s.captures[k] \in Capture
  BY <1>1, <1>2
<1>4. s.captures[k].read \subseteq Images
  BY <1>3 DEF Capture
<1>5. /\ AggregatePresence(answer, read = Images /\ fits) \in Presences
      /\ view \in Views
  BY AggregatesAreConclusions
<1>6. c \in Capture
  <2> HIDE DEF view
  <2> QED
    BY <1>4, <1>5 DEF Capture
<1>7. CapturesGrow(s.captures, captures)
  BY <1>3, <1>6 DEF CapturesGrow
<1>8. Grows(s, Refreshed([s EXCEPT !.captures = captures]))
  <2> HIDE DEF captures
  <2> QED
    BY <1>1, <1>2, <1>7, CapturedGrows
<1>9. sessions' = [sessions EXCEPT ![active] = Refreshed([s EXCEPT !.captures = captures])]
  BY DEF InspectLatestFullPageCapture
<1>10. SessionsGrow /\ Len(sessions') = Len(sessions) /\ Ids' = Ids
  <2> HIDE DEF captures
  <2> QED
    BY <1>1, <1>8, <1>9, SameSessions
<1>11. CountWall(active, view \in Walls)
  BY DEF InspectLatestFullPageCapture
<1>12. /\ counted' \subseteq Ids
       /\ budget' \in Budget /\ (ReportAllowed(budget) => ReportAllowed(budget'))
  BY <1>1, <1>11, WallIsCounted
<1>13. UNCHANGED <<intakeVars, active, unattainable, candidate, disposition>>
  BY DEF InspectLatestFullPageCapture
<1> QED
  BY <1>10, <1>12, <1>13 DEF Gathers, EvidenceOK, intakeVars

\* A candidate that is tried leaves a verdict, a visit, or a limited environment.
LEMMA ApplyRuleGathers ==
  ASSUME EvidenceOK, NEW verdict \in {"limited", "none", "rejected", "verified"},
         NEW observed \in BOOLEAN, ApplyRule(verdict, observed)
  PROVE  Gathers /\ Len(sessions') = Len(sessions)
<1> DEFINE s == sessions[active]
           t == [s EXCEPT !.navigated = s.navigated \/ observed, !.refused = s.refused,
                          !.failed = s.failed, !.shot = s.shot]
<1>1. active \in Ids
  BY ActiveIsSession DEF ApplyRule, Served
<1>2. Coherent(s) /\ s \in Session
  BY <1>1 DEF EvidenceOK, SessionsOK, Coherent
<1>3. /\ (s.navigated \/ observed) \in BOOLEAN
      /\ s.refused \in BOOLEAN /\ s.failed \in BOOLEAN /\ s.shot \in BOOLEAN
  BY <1>2 DEF Session
<1>4. Grows(s, t)
  BY <1>2, <1>3, VisitGrows
<1>5. t = [s EXCEPT !.navigated = s.navigated \/ observed]
  BY <1>2 DEF Session
<1>6. sessions' = sessions \/ sessions' = [sessions EXCEPT ![active] = t]
  <2>1. sessions' = sessions
          \/ sessions' = [sessions EXCEPT ![active].navigated = @ \/ observed]
    BY DEF ApplyRule
  <2> QED
    BY <1>1, <1>5, <2>1 DEF Ids
<1>7. SessionsGrow /\ Len(sessions') = Len(sessions) /\ Ids' = Ids
  <2> HIDE DEF t
  <2> QED
    BY <1>1, <1>4, <1>6, SameSessions
<1>8. candidate' \in [session : {0} \cup Ids, verdict : {"none", "rejected", "verified"}]
  BY <1>1 DEF ApplyRule, EvidenceOK
<1>9. disposition' \in {"limited", "inconclusive", "verified"}
  BY DEF ApplyRule
<1>10. environment' = (IF verdict = "limited" THEN "limited" ELSE environment)
  BY DEF ApplyRule
<1>11. UNCHANGED <<fetched, reported, active, counted, budget, unattainable>>
  BY DEF ApplyRule
<1> QED
  BY <1>7, <1>8, <1>9, <1>10, <1>11 DEF Gathers, EvidenceOK
-----------------------------------------------------------------------------
(* The session an agent is sent to is one that is eligible.                 *)

\* Images are finitely many, and no capture is read for more of them.
LEMMA ReadIsBounded ==
  ASSUME NEW c \in Capture
  PROVE  AnalyzedCount(c) \in 0..Cardinality(Images)
<1>1. IsFiniteSet(Images) /\ Cardinality(Images) \in Nat
  BY EvidenceAssumption, FS_CardinalityType
<1>2. c.read \subseteq Images
  BY DEF Capture
<1>3. Cardinality(c.read) \in Nat /\ Cardinality(c.read) <= Cardinality(Images)
  BY <1>1, <1>2, FS_Subset, FS_CardinalityType
<1> QED
  BY <1>1, <1>3 DEF AnalyzedCount

\* The progress of a session is a number within twice the images and one.
LEMMA ProgressIsBounded ==
  ASSUME EvidenceOK, NEW i \in Ids
  PROVE  Progress(i) \in 0..(1 + 2 * Cardinality(Images))
<1> DEFINE s == sessions[i]
           n == Cardinality(Images)
           counts == {0} \cup {AnalyzedCount(s.captures[k]) : k \in DOMAIN s.captures}
<1>1. n \in Nat
  BY EvidenceAssumption, FS_CardinalityType
<1>2. s.captures \in Seq(Capture)
  BY DEF EvidenceOK, SessionsOK, Coherent, Session
<1>3. \A k \in DOMAIN s.captures : s.captures[k] \in Capture
  BY <1>2
<1>4. counts \subseteq 0..n
  BY <1>1, <1>3, ReadIsBounded
<1>5. Max(counts) \in counts
  <2>1. counts \in SUBSET Nat /\ counts # {} /\ \A x \in counts : x <= n
    BY <1>1, <1>4
  <2> HIDE DEF counts, n
  <2> QED
    BY <1>1, <2>1, Greatest
<1>6. Max(counts) \in 0..n
  BY <1>4, <1>5
<1>7. Progress(i) = (IF s.navigated THEN 1 + n ELSE 0) + Max(counts)
  BY DEF Progress
<1> HIDE DEF counts, n, s
<1>8. Progress(i) \in 0..(1 + 2 * n)
  BY <1>1, <1>6, <1>7
<1> QED
  BY <1>8 DEF n

\* The session closest to giving what is missing is an eligible one.
LEMMA SessionForIsEligible ==
  ASSUME EvidenceOK, NEW eligible \in SUBSET Ids, eligible # {}
  PROVE  SessionFor(eligible) \in eligible
<1> DEFINE proven == {i \in eligible : Proven(i)}
           scores == {Progress(x) : x \in eligible}
           bound  == 1 + 2 * Cardinality(Images)
           best   == {x \in eligible : Progress(x) = Max(scores)}
<1>1. Len(sessions) \in Nat /\ Ids = 1..Len(sessions)
  BY DEF EvidenceOK, SessionsOK, Ids
<1>2. \A S \in SUBSET eligible : S # {} => Max(S) \in S
  <2> SUFFICES ASSUME NEW S \in SUBSET eligible, S # {}
               PROVE  Max(S) \in S
    OBVIOUS
  <2>1. S \in SUBSET Nat /\ \A x \in S : x <= Len(sessions)
    BY <1>1
  <2> QED
    BY <1>1, <2>1, Greatest
<1>3. Max(scores) \in scores
  <2>1. bound \in Nat
    <3>1. Cardinality(Images) \in Nat
      BY EvidenceAssumption, FS_CardinalityType
    <3> QED
      BY <3>1
  <2>2. \A x \in scores : x \in 0..bound
    BY ProgressIsBounded
  <2>3. scores \in SUBSET Nat /\ scores # {} /\ \A x \in scores : x <= bound
    BY <2>1, <2>2
  <2> HIDE DEF scores, bound
  <2> QED
    BY <2>1, <2>3, Greatest
<1>4. best # {}
  BY <1>3
<1>5. SessionFor(eligible) = IF proven # {} THEN Max(proven) ELSE Max(best)
  BY DEF SessionFor, Best
<1>6. proven \in SUBSET eligible /\ best \in SUBSET eligible
  OBVIOUS
<1>7. (proven # {} => Max(proven) \in proven) /\ Max(best) \in best
  <2> HIDE DEF proven, best
  <2> QED
    BY <1>2, <1>4, <1>6
<1> QED
  BY <1>5, <1>6, <1>7

-----------------------------------------------------------------------------
(* The types of the run.                                                    *)

RunOK ==
  /\ EvidenceOK
  /\ Len(sessions) <= MaxSessions + 3
  /\ advised \in BOOLEAN
  /\ decision \in Claims \cup {Undecided}
  /\ record \in [status : Resolutions \cup {"none", "unavailable", "failed"},
                verification : {"unavailable", "partial", "verified"}, parses : BOOLEAN]

\* A tool call of the agent gathers evidence, within the bound on sessions.
LEMMA ToolGathers ==
  ASSUME RunOK, Intake \/ Browse \/ See
  PROVE  Gathers /\ Len(sessions') <= MaxSessions + 3
<1> USE DEF RunOK
<1>0. Len(sessions) \in Nat /\ MaxSessions \in Nat
  <2>1. sessions \in Seq(Session)
    BY DEF EvidenceOK, SessionsOK
  <2>2. MaxSessions \in Nat
    BY EvidenceAssumption
  <2> QED
    BY <2>1, <2>2
<1>1. CASE Intake
  BY <1>1, IntakeGathers DEF Intake
<1>2. CASE Browse
  <2>1. ASSUME Len(sessions) < MaxSessions, NEW asked \in World.launches, NEW p \in Profiles,
               \/ \E outcome \in Outcomes : Launch(asked[1], asked[2], p, outcome)
               \/ \E created \in BOOLEAN : LaunchFails(asked[1], asked[2], p, created)
        PROVE  Gathers /\ Len(sessions') <= MaxSessions + 3
    <3>1. asked[1] \in {"none", "prepared"} /\ asked[2] \in Kinds \cup {Unset}
      BY WorldAssumption
    <3>2. Gathers /\ Len(sessions') <= Len(sessions) + 1 /\ Len(sessions') \in Nat
      <4>1. CASE \E outcome \in Outcomes : Launch(asked[1], asked[2], p, outcome)
        BY <1>0, <3>1, <4>1, LaunchGathers
      <4>2. CASE \E created \in BOOLEAN : LaunchFails(asked[1], asked[2], p, created)
        <5>1. Gathers /\ Len(sessions') <= Len(sessions) + 1
          BY <3>1, <4>2, LaunchFailsGathers
        <5>2. sessions' \in Seq(Session)
          BY <5>1, SessionsKeep DEF Gathers, EvidenceOK, SessionsOK
        <5> QED
          BY <5>1, <5>2
      <4> QED
        BY <2>1, <4>1, <4>2
    <3> QED
      BY <1>0, <2>1, <3>2
  <2>2. CASE CloseBrowser
    BY <2>2, CloseGathers
  <2>3. ASSUME NEW onTarget \in World.onTarget, NEW refused \in World.refused,
               OpenPage(onTarget, refused)
        PROVE  Gathers /\ Len(sessions') <= MaxSessions + 3
    <3>1. onTarget \in BOOLEAN /\ refused \in BOOLEAN
      BY WorldAssumption
    <3> QED
      BY <2>3, <3>1, OpenPageGathers
  <2>4. CASE OpenPageFails
    BY <2>4, OpenPageFailsGathers
  <2>5. ASSUME NEW complete \in World.complete, Screenshot(complete)
        PROVE  Gathers /\ Len(sessions') <= MaxSessions + 3
    <3>1. complete \in BOOLEAN
      BY WorldAssumption
    <3> QED
      BY <2>5, <3>1, ScreenshotGathers
  <2>6. ASSUME NEW verdict \in World.verdicts, NEW observed \in BOOLEAN,
               ApplyRule(verdict, observed)
        PROVE  Gathers /\ Len(sessions') <= MaxSessions + 3
    <3>1. verdict \in {"limited", "none", "rejected", "verified"}
      BY WorldAssumption
    <3> QED
      BY <2>6, <3>1, ApplyRuleGathers
  <2> QED
    BY <1>2, <2>1, <2>2, <2>3, <2>4, <2>5, <2>6 DEF Browse
<1>3. CASE See
  <2>1. ASSUME NEW i \in Ids, NEW image \in Images, NEW wall, NEW k, Analyze(i, k, image, wall)
        PROVE  Gathers /\ Len(sessions') <= MaxSessions + 3
    BY <2>1, AnalyzeGathers
  <2>2. ASSUME NEW i \in Ids, NEW wall, AnalyzeOther(i, wall)
        PROVE  Gathers /\ Len(sessions') <= MaxSessions + 3
    BY <2>2, AnalyzeOtherGathers
  <2>3. ASSUME NEW answer \in Answers, NEW fits, InspectLatestFullPageCapture(answer, fits)
        PROVE  Gathers /\ Len(sessions') <= MaxSessions + 3
    BY <2>3, InspectGathers
  <2> QED
    BY <1>3, <2>1, <2>2, <2>3 DEF See
<1> QED
  BY <1>1, <1>2, <1>3

\* So does a call an agent makes because a refusal asks for it.
LEMMA AdvisedGathers ==
  ASSUME RunOK, DoAsAdvised
  PROVE  Gathers /\ Len(sessions') <= MaxSessions + 3
<1> USE DEF RunOK
<1>0. Len(sessions) \in Nat /\ MaxSessions \in Nat
  <2>1. sessions \in Seq(Session)
    BY DEF EvidenceOK, SessionsOK
  <2>2. MaxSessions \in Nat
    BY EvidenceAssumption
  <2> QED
    BY <2>1, <2>2
<1>1. CASE FetchIssue \/ SelectEnvironment("ready") \/ AnalyzeIssueScreenshots
  BY <1>1, IntakeGathers
<1>2. CASE LaunchAsAdvised
  <2>1. CASE CloseBrowser
    BY <2>1, CloseGathers
  <2>2. ASSUME LaunchesLeft, NEW p \in Profiles, NEW kind \in {"reported", "selected"},
               NEW outcome, Launch("prepared", kind, p, outcome)
        PROVE  Gathers /\ Len(sessions') <= MaxSessions + 3
    <3>1. kind \in Kinds \cup {Unset}
      BY DEF Kinds
    <3>2. Gathers /\ Len(sessions') = Len(sessions) + 1
      BY <2>2, <3>1, LaunchGathers
    <3> QED
      BY <1>0, <2>2, <3>2 DEF LaunchesLeft
  <2>3. CloseBrowser \/ (LaunchesLeft /\ \E p \in Profiles, kind \in {"reported", "selected"} :
                           \E outcome : Launch("prepared", kind, p, outcome))
    BY <1>2 DEF LaunchAsAdvised
  <2> QED
    BY <2>1, <2>2, <2>3
<1>3. CASE AdvanceVision
  <2>1. ASSUME NEW answer \in [Images -> Readings], InspectLatestFullPageCapture(answer, TRUE)
        PROVE  Gathers /\ Len(sessions') <= MaxSessions + 3
    <3>1. answer \in Answers
      BY DEF Answers
    <3> QED
      BY <2>1, <3>1, InspectGathers
  <2>2. ASSUME NextAction(TerminalSessions) = "analyze_missing_artifacts",
               NEW k, NEW image \in Images,
               Analyze(SessionFor(TerminalSessions), k, image, FALSE)
        PROVE  Gathers /\ Len(sessions') <= MaxSessions + 3
    <3>1. TerminalSessions \subseteq Ids
      BY DEF TerminalSessions
    <3>2. SessionFor(TerminalSessions) # 0
      BY <2>2 DEF NextAction
    <3>3. TerminalSessions # {}
      BY <3>2 DEF SessionFor
    <3>4. SessionFor(TerminalSessions) \in Ids
      BY <3>1, <3>3, SessionForIsEligible
    <3> QED
      BY <2>2, <3>4, AnalyzeGathers
  <2>3. CASE OpenPage(TRUE, FALSE)
    BY <2>3, OpenPageGathers
  <2>4. CASE Screenshot(TRUE)
    BY <2>4, ScreenshotGathers
  <2>5. \/ \E answer \in [Images -> Readings] : InspectLatestFullPageCapture(answer, TRUE)
        \/ /\ NextAction(TerminalSessions) = "analyze_missing_artifacts"
           /\ \E image \in Images :
                Analyze(SessionFor(TerminalSessions), CaptureFor(SessionFor(TerminalSessions)),
                        image, FALSE)
        \/ LaunchAsAdvised \/ OpenPage(TRUE, FALSE) \/ Screenshot(TRUE)
    <3>1. CASE NextAction(TerminalSessions) = "inspect_full_page_capture"
      BY <1>3, <3>1 DEF AdvanceVision
    <3>2. CASE NextAction(TerminalSessions) = "analyze_missing_artifacts"
      BY <1>3, <3>2 DEF AdvanceVision
    <3>3. CASE NextAction(TerminalSessions) \notin
                 {"inspect_full_page_capture", "analyze_missing_artifacts"}
      BY <1>3, <3>3 DEF AdvanceVision
    <3> QED
      BY <3>1, <3>2, <3>3
  <2> QED
    BY <1>2, <2>1, <2>2, <2>3, <2>4, <2>5
<1> QED
  BY <1>1, <1>2, <1>3 DEF DoAsAdvised

\* The record of a claim over a set of serialized sessions.
RecordOf(status, verification, S) ==
  LET held == IF verification = "verified" /\ ~SessionBound(status, S)
              THEN "partial" ELSE verification
  IN [status |-> status, verification |-> held, parses |-> Parses(status, held, S)]

Records == [status : Resolutions \cup {"none", "unavailable", "failed"},
            verification : {"unavailable", "partial", "verified"}, parses : BOOLEAN]

\* Every record has its type.
LEMMA RecordType ==
  ASSUME NEW status \in Resolutions \cup {"none", "unavailable", "failed"},
         NEW verification \in {"unavailable", "partial", "verified"}, NEW S
  PROVE  RecordOf(status, verification, S) \in Records
<1> DEFINE held == IF verification = "verified" /\ ~SessionBound(status, S)
                   THEN "partial" ELSE verification
<1>1. held \in {"unavailable", "partial", "verified"}
  OBVIOUS
<1>2. Parses(status, held, S) \in BOOLEAN
  BY Zenon DEF Parses
<1> QED
  <2> HIDE DEF held
  <2>1. [status |-> status, verification |-> held, parses |-> Parses(status, held, S)] \in Records
    BY <1>1, <1>2 DEF Records
  <2> QED
    BY <2>1 DEF RecordOf, held

\* A claim that needs no patch has a status and a verification.
LEMMA ClaimTypes ==
  ASSUME decision \in NoPatchClaims
  PROVE  /\ StatusOf(decision) \in Resolutions \cup {"none", "unavailable", "failed"}
         /\ VerificationOf(decision) \in {"unavailable", "partial", "verified"}
<1>1. StatusOf(decision) \in Resolutions \cup {"none", "unavailable", "failed"}
  BY DEF StatusOf, NoPatchClaims, Resolutions
<1>2. VerificationOf(decision) \in {"unavailable", "partial", "verified"}
  BY DEF VerificationOf
<1> QED
  BY <1>1, <1>2

\* What a step of the run is: a tool call, the end, the turn to the advice, or
\* the publication of the record.
Steps ==
  \/ /\ decision = Undecided /\ Gathers /\ Len(sessions') <= MaxSessions + 3
     /\ UNCHANGED <<decision, advised, record>>
  \/ /\ decision = Undecided
     /\ \E claim \in Claims, flaw \in Flaws : FinishFix(claim, flaw)
     /\ UNCHANGED record
  \/ /\ decision = Undecided /\ advised' = TRUE
     /\ UNCHANGED <<evidenceVars, decision, record>>
  \/ Publish

\* Every action is one of the four.
LEMMA NextSteps == RunOK /\ Next => Steps
<1> SUFFICES ASSUME RunOK, Next
             PROVE  Steps
  OBVIOUS
<1>1. CASE AgentStep
  <2>1. decision = Undecided /\ UNCHANGED record
    BY <1>1 DEF AgentStep
  <2>2. \/ (Intake \/ Browse \/ See) /\ UNCHANGED <<decision, advised>>
        \/ \E claim \in Claims, flaw \in Flaws : FinishFix(claim, flaw)
    BY <1>1 DEF AgentStep
  <2>3. CASE (Intake \/ Browse \/ See) /\ UNCHANGED <<decision, advised>>
    <3>1. Gathers /\ Len(sessions') <= MaxSessions + 3
      BY <2>3, ToolGathers
    <3> QED
      BY <2>1, <2>3, <3>1 DEF Steps
  <2>4. CASE \E claim \in Claims, flaw \in Flaws : FinishFix(claim, flaw)
    BY <2>1, <2>4 DEF Steps
  <2> QED
    BY <2>2, <2>3, <2>4
<1>2. CASE TakeAdvice
  BY <1>2 DEF TakeAdvice, Steps
<1>3. CASE FollowAdvice
  <2>1. decision = Undecided /\ UNCHANGED record
    BY <1>3 DEF FollowAdvice
  <2>2. CASE DoAsAdvised /\ UNCHANGED <<decision, advised>>
    <3>1. Gathers /\ Len(sessions') <= MaxSessions + 3
      BY <2>2, AdvisedGathers
    <3> QED
      BY <2>1, <2>2, <3>1 DEF Steps
  <2>3. CASE FinishFix("analysis_only", "none")
    <3>1. "analysis_only" \in Claims /\ "none" \in Flaws
      BY DEF Claims, Flaws
    <3> QED
      BY <2>1, <2>3, <3>1 DEF Steps
  <2> QED
    BY <1>3, <2>2, <2>3 DEF FollowAdvice
<1>4. CASE Publish
  BY <1>4 DEF Steps
<1> QED
  BY <1>1, <1>2, <1>3, <1>4 DEF Next

\* Evidence that is left alone is evidence that grows, and keeps its types.
LEMMA UnchangedGathers ==
  ASSUME EvidenceOK, UNCHANGED evidenceVars
  PROVE  Gathers
<1>1. UNCHANGED <<fetched, environment, reported, sessions, active, counted, budget,
                  unattainable, candidate, disposition>>
  BY DEF evidenceVars, intakeVars
<1>2. SessionsGrow /\ Len(sessions') = Len(sessions) /\ Ids' = Ids
  BY <1>1, SameSessions
<1> QED
  BY <1>1, <1>2 DEF Gathers, EvidenceOK

\* The record that a publication leaves is one of a status and a verification.
LEMMA PublishRecords ==
  ASSUME Publish
  PROVE  /\ decision \in NoPatchClaims /\ record = NoRecord /\ UNCHANGED judgementVars
         /\ \E S : \/ record' = RecordOf(StatusOf(decision), VerificationOf(decision), S)
                   \/ record' = RecordOf("failed", "unavailable", S)
         /\ disposition = "none" =>
              record' = RecordOf(StatusOf(decision), VerificationOf(decision), AgentSessions)
<1>1. decision \in NoPatchClaims /\ record = NoRecord /\ UNCHANGED judgementVars
  BY DEF Publish
<1>2. CASE PublishProvisional
  BY <1>1, <1>2 DEF PublishProvisional, PublishRecord, RecordOf
<1>3. CASE PublishProjected
  <2>1. disposition # "none"
    BY <1>3 DEF PublishProjected
  <2>2. \E S : \/ PublishRecord(StatusOf(decision), VerificationOf(decision), S)
               \/ PublishRecord("failed", "unavailable", S)
    BY <1>3 DEF PublishProjected
  <2>3. \E S : \/ record' = RecordOf(StatusOf(decision), VerificationOf(decision), S)
               \/ record' = RecordOf("failed", "unavailable", S)
    BY <2>2 DEF PublishRecord, RecordOf
  <2> QED
    BY <1>1, <2>1, <2>3
<1> QED
  BY <1>2, <1>3 DEF Publish

\* A run starts with its types.
LEMMA InitRun == RunInit => RunOK
<1> SUFFICES ASSUME RunInit
             PROVE  RunOK
  OBVIOUS
<1>1. EvidenceOK
  BY InitEvidence DEF RunInit
<1>2. sessions = <<>>
  BY DEF RunInit, Init
<1>3. Len(sessions) <= MaxSessions + 3
  <2>1. MaxSessions \in Nat
    BY EvidenceAssumption
  <2> QED
    BY <1>2, <2>1
<1>4. record \in Records
  BY DEF RunInit, NoRecord, Records
<1> QED
  BY <1>1, <1>3, <1>4 DEF RunInit, RunOK, Records

\* Every step keeps them.
LEMMA NextRun == RunOK /\ [Next]_vars => RunOK'
<1> SUFFICES ASSUME RunOK, [Next]_vars
             PROVE  RunOK'
  OBVIOUS
<1> USE DEF RunOK
<1>0. ASSUME UNCHANGED evidenceVars
      PROVE  EvidenceOK' /\ Len(sessions') <= MaxSessions + 3
  <2>1. EvidenceOK'
    BY <1>0, UnchangedGathers, GatheredIsOK
  <2> QED
    BY <1>0, <2>1 DEF evidenceVars
<1>1. CASE UNCHANGED vars
  <2>1. UNCHANGED evidenceVars /\ UNCHANGED <<decision, advised, record>>
    BY <1>1 DEF vars, judgementVars
  <2> QED
    BY <1>0, <2>1
<1>2. CASE /\ decision = Undecided /\ Gathers /\ Len(sessions') <= MaxSessions + 3
           /\ UNCHANGED <<decision, advised, record>>
  BY <1>2, GatheredIsOK
<1>3. CASE /\ decision = Undecided
           /\ \E claim \in Claims, flaw \in Flaws : FinishFix(claim, flaw)
           /\ UNCHANGED record
  <2>1. decision' \in Claims /\ UNCHANGED <<evidenceVars, advised>>
    BY <1>3 DEF FinishFix
  <2> QED
    BY <1>0, <1>3, <2>1
<1>4. CASE /\ decision = Undecided /\ advised' = TRUE
           /\ UNCHANGED <<evidenceVars, decision, record>>
  BY <1>0, <1>4
<1>5. CASE Publish
  <2>1. record' \in Records
    <3>1. decision \in NoPatchClaims
      BY <1>5, PublishRecords
    <3>2. PICK S : \/ record' = RecordOf(StatusOf(decision), VerificationOf(decision), S)
                   \/ record' = RecordOf("failed", "unavailable", S)
      BY <1>5, PublishRecords
    <3>3. RecordOf("failed", "unavailable", S) \in Records
      BY RecordType
    <3>4. RecordOf(StatusOf(decision), VerificationOf(decision), S) \in Records
      BY <3>1, ClaimTypes, RecordType
    <3> QED
      BY <3>2, <3>3, <3>4
  <2>2. UNCHANGED <<evidenceVars, decision, advised>>
    BY <1>5, PublishRecords DEF judgementVars
  <2> QED
    BY <1>0, <2>1, <2>2 DEF Records
<1> QED
  BY <1>1, <1>2, <1>3, <1>4, <1>5, NextSteps DEF Steps

\* The types and the coherence of the sessions hold throughout a run.
LEMMA AlwaysRunOK == Spec => []RunOK
<1> QED
  BY InitRun, NextRun, PTL DEF Spec

\* Every variable has its type, and a session credited with complete vision
\* has been at its target.
THEOREM TypeCorrect == Spec => []TypeOK
<1>1. RunOK => TypeOK
  <2> SUFFICES ASSUME RunOK
               PROVE  TypeOK
    OBVIOUS
  <2>1. \A i \in Ids : sessions[i] \in Session /\ (sessions[i].full => sessions[i].navigated)
    BY DEF RunOK, EvidenceOK, SessionsOK, Coherent
  <2> QED
    BY <2>1 DEF RunOK, EvidenceOK, TypeOK
<1> QED
  BY <1>1, AlwaysRunOK, PTL

-----------------------------------------------------------------------------
(* What was acceptable stays acceptable.                                    *)

\* A session that proves the agent's settings and has complete vision.
TerminalProof == \E i \in TerminalSessions : Proven(i)

\* What an analysis-only report needs.
ReportBacked ==
  /\ fetched /\ environment # "none"
  /\ \/ environment = "limited"
     \/ reported /\ (ReportAllowed(budget) \/ TerminalProof)

\* What a draft needs, its rule being in order.
DraftBacked ==
  /\ fetched /\ environment \notin {"none", "limited"} /\ reported
  /\ TerminalProof
  /\ candidate.verdict = "verified" /\ candidate.session \in TerminalSessions

\* A refusal is none of the acceptances.
LEMMA RequireAccepts ==
  ASSUME NEW condition \in BOOLEAN, NEW refusal, refusal # Accepted
  PROVE  Require(condition, refusal) = Accepted <=> condition
  BY DEF Require

\* The session's own proof is what the first check of a claim asks for.
LEMMA CurrentFirstAccepts ==
  ASSUME NEW claim
  PROVE  CurrentFirst(claim) = Accepted
           <=> (claim = "analysis_only" /\ ReportAllowed(budget)) \/ TerminalProof
  BY DEF CurrentFirst, Accepted, TerminalProof

\* The judgement of a report over visited sessions.
LEMMA VisitedReport ==
  ASSUME NEW claim, \E i \in Ids : sessions[i].navigated
  PROVE  JudgeReport(claim) = Accepted
           <=> /\ CurrentFirst(claim) = Accepted
               /\ \/ claim = "analysis_only" /\ ReportAllowed(budget)
                  \/ /\ HasCompleteTerminalVision(claim)
                     /\ SymptomMatrix(claim) = Accepted
                     /\ claim = "configuration_specific" => ConfigurationEvidence = Accepted
<1> DEFINE vision == Require(HasCompleteTerminalVision(claim), "report_only_full_vision_required")
           matrix == SymptomMatrix(claim)
           comparison == IF claim = "configuration_specific" THEN ConfigurationEvidence
                         ELSE Accepted
           checks == <<vision, matrix, comparison>>
<1>1. FirstRefusal(checks) = Accepted
        <=> vision = Accepted /\ matrix = Accepted /\ comparison = Accepted
  <2> HIDE DEF vision, matrix, comparison
  <2>1. DOMAIN checks = 1..3
    OBVIOUS
  <2>2. FirstRefusal(checks) = Accepted <=> \A k \in 1..3 : checks[k] = Accepted
    <3> HIDE DEF checks
    <3> QED
      BY <2>1, ChecksInOrder
  <2>3. (\A k \in 1..3 : checks[k] = Accepted)
          <=> checks[1] = Accepted /\ checks[2] = Accepted /\ checks[3] = Accepted
    OBVIOUS
  <2> QED
    BY <2>2, <2>3
<1>2. vision = Accepted <=> HasCompleteTerminalVision(claim)
  <2>1. HasCompleteTerminalVision(claim) \in BOOLEAN
    BY DEF HasCompleteTerminalVision
  <2> QED
    BY <2>1 DEF Require, Accepted
<1>3. comparison = Accepted
        <=> (claim = "configuration_specific" => ConfigurationEvidence = Accepted)
  OBVIOUS
<1>4. JudgeReport(claim) =
        IF CurrentFirst(claim) # Accepted THEN CurrentFirst(claim)
        ELSE IF claim = "analysis_only" /\ ReportAllowed(budget) THEN Accepted
        ELSE FirstRefusal(checks)
  BY DEF JudgeReport
<1> HIDE DEF vision, matrix, comparison, checks
<1>5. matrix = SymptomMatrix(claim)
  BY DEF matrix
<1> QED
  BY <1>1, <1>2, <1>3, <1>4, <1>5

\* An analysis-only report is accepted exactly on what it needs.
LEMMA ReportAcceptable == Acceptable("analysis_only") <=> ReportBacked
<1>1. JudgeReport("analysis_only") = Accepted <=> ReportAllowed(budget) \/ TerminalProof
  <2>1. CASE ~\E i \in Ids : sessions[i].navigated
    <3>1. ~TerminalProof
      BY <2>1 DEF TerminalProof, TerminalSessions, Proven
    <3>2. JudgeReport("analysis_only")
            = Require(ReportAllowed(budget), "browser_first_evidence_required")
      BY <2>1 DEF JudgeReport
    <3>3. ReportAllowed(budget) \in BOOLEAN
      BY DEF ReportAllowed
    <3> QED
      BY <3>1, <3>2, <3>3 DEF Require, Accepted
  <2>2. CASE \E i \in Ids : sessions[i].navigated
    <3>1. CurrentFirst("analysis_only") = Accepted <=> ReportAllowed(budget) \/ TerminalProof
      BY CurrentFirstAccepts
    <3>2. HasCompleteTerminalVision("analysis_only") <=> TerminalProof
      BY DEF HasCompleteTerminalVision, Requirements, TerminalProof
    <3>3. SymptomMatrix("analysis_only") = Accepted
      BY DEF SymptomMatrix
    <3> QED
      BY <2>2, <3>1, <3>2, <3>3, VisitedReport
  <2> QED
    BY <2>1, <2>2
<1>2. Judge("analysis_only", "none") =
        IF ~fetched THEN "issue_fetch_required"
        ELSE IF environment = "none" THEN "environment_selection_required"
        ELSE IF environment = "limited" THEN Accepted
        ELSE IF ~reported THEN "issue_screenshot_analysis_required"
        ELSE JudgeReport("analysis_only")
  BY DEF Judge, Require
<1> QED
  BY <1>1, <1>2 DEF Acceptable, ReportBacked, Accepted

\* So is a draft whose rule is in order.
LEMMA DraftAcceptable == Acceptable("draft_pr") <=> DraftBacked
<1> DEFINE first == CurrentFirst("draft_pr")
           scope == Require("none" # "out of scope", "candidate_scope_invalid")
           place == Require("none" # "not insertable", "candidate_placement_not_insertable")
           seen  == Require(candidate.verdict = "verified",
                            "candidate_visual_confirmation_required")
           own   == Require(candidate.session \in TerminalSessions,
                            IF RequiresReporterSettings
                            THEN "candidate_reporter_settings_required"
                            ELSE "candidate_environment_evidence_required")
           checks == <<first, scope, place, seen, own>>
<1>1. JudgeDraft("none") = Accepted
        <=> /\ first = Accepted /\ scope = Accepted /\ place = Accepted
            /\ seen = Accepted /\ own = Accepted
  <2>1. JudgeDraft("none") = FirstRefusal(checks)
    BY DEF JudgeDraft
  <2> HIDE DEF first, scope, place, seen, own
  <2>2. DOMAIN checks = 1..5
    OBVIOUS
  <2>3. FirstRefusal(checks) = Accepted <=> \A k \in 1..5 : checks[k] = Accepted
    <3> HIDE DEF checks
    <3> QED
      BY <2>2, ChecksInOrder
  <2>4. (\A k \in 1..5 : checks[k] = Accepted)
          <=> /\ checks[1] = Accepted /\ checks[2] = Accepted /\ checks[3] = Accepted
              /\ checks[4] = Accepted /\ checks[5] = Accepted
    OBVIOUS
  <2> QED
    BY <2>1, <2>3, <2>4
<1>2. first = Accepted <=> TerminalProof
  BY CurrentFirstAccepts
<1>3. scope = Accepted /\ place = Accepted
  BY DEF Require
<1>4. (seen = Accepted <=> candidate.verdict = "verified")
      /\ (own = Accepted <=> candidate.session \in TerminalSessions)
  BY DEF Require, Accepted
<1>5. JudgeDraft("none") = Accepted
        <=> /\ TerminalProof /\ candidate.verdict = "verified"
            /\ candidate.session \in TerminalSessions
  <2> HIDE DEF first, scope, place, seen, own
  <2> QED
    BY <1>1, <1>2, <1>3, <1>4
<1>6. Judge("draft_pr", "none") =
        IF ~fetched THEN "issue_fetch_required"
        ELSE IF environment = "none" THEN "environment_selection_required"
        ELSE IF environment = "limited" THEN "environment_report_only_required"
        ELSE IF ~reported THEN "issue_screenshot_analysis_required"
        ELSE JudgeDraft("none")
  BY DEF Judge, Require
<1> QED
  BY <1>5, <1>6 DEF Acceptable, DraftBacked, Accepted

\* No tool call takes a proof from a session.
LEMMA ProofsStay ==
  ASSUME EvidenceOK, Gathers
  PROVE  /\ TerminalSessions \subseteq TerminalSessions'
         /\ TerminalProof => TerminalProof'
<1>1. \A i \in Ids : i \in Ids' /\ Grows(sessions[i], sessions'[i])
  BY SessionsKeep DEF EvidenceOK, Gathers
<1>2. ASSUME NEW i \in TerminalSessions
      PROVE  i \in TerminalSessions'
  <2>1. i \in Ids /\ TerminalPrepared(sessions[i])
    BY <1>2 DEF TerminalSessions
  <2>2. /\ i \in Ids' /\ sessions'[i].mode = sessions[i].mode
        /\ sessions'[i].kind = sessions[i].kind /\ sessions'[i].credit = sessions[i].credit
    BY <1>1, <2>1 DEF Grows
  <2>3. unattainable => unattainable'
    BY DEF Gathers
  <2>4. TerminalPrepared(sessions[i])'
    BY <2>1, <2>2, <2>3 DEF TerminalPrepared, CurrentPrepared, Credited
  <2> QED
    BY <2>2, <2>4 DEF TerminalSessions
<1>3. ASSUME NEW i \in TerminalSessions, Proven(i)
      PROVE  Proven(i)'
  <2>1. i \in Ids /\ Coherent(sessions[i])
    BY <1>3 DEF TerminalSessions, EvidenceOK, SessionsOK
  <2>2. Grows(sessions[i], sessions'[i])
    BY <1>1, <2>1
  <2> QED
    BY <1>3, <2>1, <2>2 DEF Proven, Grows, Coherent
<1> QED
  BY <1>2, <1>3 DEF TerminalProof

\* What was acceptable to finish_fix stays acceptable, whatever is called after.
THEOREM AcceptanceLasts == Spec => AcceptanceIsStable
<1>1. ASSUME EvidenceOK, Gathers
      PROVE  /\ ReportBacked => ReportBacked'
             /\ DraftBacked /\ candidate' = candidate /\ environment' = environment
                  => DraftBacked'
  BY <1>1, ProofsStay DEF Gathers, ReportBacked, DraftBacked
<1>2. (Acceptable("analysis_only") <=> ReportBacked)'
  BY ReportAcceptable, PTL
<1>3. (Acceptable("draft_pr") <=> DraftBacked)'
  BY DraftAcceptable, PTL
<1> DEFINE Stable ==
      decision' = Undecided =>
        /\ Acceptable("analysis_only") => Acceptable("analysis_only")'
        /\ /\ Acceptable("draft_pr")
           /\ candidate' = candidate /\ environment' = environment
           => Acceptable("draft_pr")'
<1>4. RunOK /\ [Next]_vars => [Stable]_vars
  <2> SUFFICES ASSUME RunOK, Next, decision' = Undecided
               PROVE  Gathers
    BY <1>1, <1>2, <1>3, ReportAcceptable, DraftAcceptable DEF RunOK
  <2>1. \A claim \in Claims : claim # Undecided
    BY DEF Claims, Resolutions, Closings, Undecided
  <2>2. ~\E claim \in Claims, flaw \in Flaws : FinishFix(claim, flaw)
    BY <2>1 DEF FinishFix
  <2>3. Publish => UNCHANGED evidenceVars
    BY DEF Publish, judgementVars
  <2> QED
    BY <2>2, <2>3, NextSteps, UnchangedGathers DEF Steps, RunOK
<1> QED
  BY <1>4, AlwaysRunOK, PTL DEF Spec, AcceptanceIsStable

-----------------------------------------------------------------------------
(* What an accepted claim rests on, and that the record carries it.         *)

\* The session has complete vision, and a capture read in full that shows this.
Displays(i, presence) ==
  /\ Proven(i)
  /\ \E k \in DOMAIN sessions[i].captures :
       WhollyRead(sessions[i].captures[k]) /\ sessions[i].captures[k].presence = presence

\* Two sessions of one profile: the reporter's settings, and the defaults.
Contrast(r, c) ==
  /\ sessions[r].kind \in {"reported", "selected"} /\ sessions[c].kind = "defaults"
  /\ CurrentPrepared(sessions[c]) /\ sessions[r].profile = sessions[c].profile

\* The evidence of a claim that no patch is needed, once a page was reached.
ClaimBacked(claim) ==
  Usable =>
    /\ TerminalProof
    /\ claim = "already_fixed_current" =>
         /\ \E i \in Controls : Displays(i, "present")
         /\ \E i \in TerminalSessions : Displays(i, "absent")
    /\ claim = "configuration_specific" =>
         \E r \in TerminalSessions, c \in Ids :
           Contrast(r, c) /\ Displays(r, "present") /\ Displays(c, "absent")

\* The latest classified capture of a session is one of them, and proves it.
LEMMA ClassifiedDisplays ==
  ASSUME EvidenceOK, NEW i \in Ids, Classified(i) # {}
  PROVE  Displays(i, LatestCapture(i).presence)
<1> DEFINE s == sessions[i]
           k == Max(Classified(i))
<1>1. Coherent(s) /\ s.captures \in Seq(Capture)
  BY DEF EvidenceOK, SessionsOK, Coherent, Session
<1>2. k \in Classified(i)
  <2>1. Classified(i) \in SUBSET Nat /\ \A x \in Classified(i) : x <= Len(s.captures)
    BY <1>1 DEF Classified
  <2>2. Len(s.captures) \in Nat
    BY <1>1
  <2> QED
    BY <2>1, <2>2, Greatest
<1>3. k \in DOMAIN s.captures /\ WhollyRead(s.captures[k])
  BY <1>2 DEF Classified
<1>4. s.captures # <<>>
  BY <1>3
<1>5. s.navigated /\ FullyRead(s.captures)
  BY <1>1, <1>3, <1>4 DEF Coherent, FullyRead
<1>6. Proven(i)
  BY <1>1, <1>5 DEF Proven, Coherent
<1>7. LatestCapture(i) = s.captures[k]
  BY DEF LatestCapture
<1> HIDE DEF k
<1> QED
  BY <1>3, <1>6, <1>7 DEF Displays

\* The latest session with a classified capture is an eligible one.
LEMMA LatestIsEligible ==
  ASSUME EvidenceOK, NEW eligible \in SUBSET Ids, LatestClassified(eligible) # 0
  PROVE  LatestClassified(eligible) \in eligible /\ Classified(LatestClassified(eligible)) # {}
<1> DEFINE classified == {i \in eligible : sessions[i].navigated /\ Classified(i) # {}}
<1>1. classified # {} /\ LatestClassified(eligible) = Max(classified)
  BY DEF LatestClassified
<1>2. classified \in SUBSET Nat /\ Len(sessions) \in Nat /\ \A x \in classified : x <= Len(sessions)
  BY DEF EvidenceOK, SessionsOK, Ids
<1>3. Max(classified) \in classified
  <2> HIDE DEF classified
  <2> QED
    BY <1>1, <1>2, Greatest
<1> QED
  BY <1>1, <1>3

\* So is the session that stands for those that are eligible.
LEMMA RepresentativeIsEligible ==
  ASSUME EvidenceOK, NEW eligible \in SUBSET Ids, Representative(eligible) # 0
  PROVE  Representative(eligible) \in eligible
<1> DEFINE candidates == {0} \cup {i \in eligible : Proven(i)}
<1>1. CASE LatestClassified(eligible) # 0
  BY <1>1, LatestIsEligible DEF Representative
<1>2. CASE LatestClassified(eligible) = 0
  <2>1. Representative(eligible) = Max(candidates)
    BY <1>2 DEF Representative
  <2>2. /\ candidates \in SUBSET Nat /\ candidates # {} /\ Len(sessions) \in Nat
        /\ \A x \in candidates : x <= Len(sessions)
    BY DEF EvidenceOK, SessionsOK, Ids
  <2>3. Max(candidates) \in candidates
    <3> HIDE DEF candidates
    <3> QED
      BY <2>2, Greatest
  <2> QED
    BY <2>1, <2>3
<1> QED
  BY <1>1, <1>2

\* An observation that is not missing is displayed by an eligible session.
LEMMA ObservationDisplays ==
  ASSUME EvidenceOK, NEW eligible \in SUBSET Ids,
         Observation(eligible).presence # "missing"
  PROVE  \E i \in eligible : Displays(i, Observation(eligible).presence)
<1> DEFINE i == LatestClassified(eligible)
<1>1. i # 0
  BY DEF Observation
<1>2. i \in eligible /\ Classified(i) # {}
  BY <1>1, LatestIsEligible
<1>3. Observation(eligible).presence = LatestCapture(i).presence
  BY <1>1 DEF Observation
<1>4. Displays(i, LatestCapture(i).presence)
  BY <1>2, ClassifiedDisplays
<1> QED
  BY <1>2, <1>3, <1>4

\* A list of two checks.
LEMMA TwoChecks ==
  ASSUME NEW a, NEW b
  PROVE  FirstRefusal(<<a, b>>) = Accepted <=> a = Accepted /\ b = Accepted
<1> DEFINE checks == <<a, b>>
<1>1. DOMAIN checks = 1..2
  OBVIOUS
<1>2. FirstRefusal(checks) = Accepted <=> \A k \in 1..2 : checks[k] = Accepted
  <2> HIDE DEF checks
  <2> QED
    BY <1>1, ChecksInOrder
<1>3. (\A k \in 1..2 : checks[k] = Accepted) <=> checks[1] = Accepted /\ checks[2] = Accepted
  OBVIOUS
<1> QED
  BY <1>2, <1>3

\* The matrix of an already fixed issue: the symptom without the blocker, and
\* not with it.
LEMMA MatrixDisplays ==
  ASSUME EvidenceOK, SymptomMatrix("already_fixed_current") = Accepted
  PROVE  /\ \E i \in Controls : Displays(i, "present")
         /\ \E i \in TerminalSessions : Displays(i, "absent")
<1> DEFINE control  == Observation(Controls)
           prepared == Observation(TerminalSessions)
           visible  == Require(control.accessible /\ prepared.accessible,
                               "no_patch_target_not_observable")
           shown    == Require(control.presence = "present" /\ prepared.presence = "absent",
                               "report_only_status_evidence_mismatch")
<1>1. SymptomMatrix("already_fixed_current") = FirstRefusal(<<visible, shown>>)
  BY DEF SymptomMatrix
<1>2. shown = Accepted
  <2> HIDE DEF visible, shown
  <2> QED
    BY <1>1, TwoChecks
<1>3. control.presence = "present" /\ prepared.presence = "absent"
  BY <1>2 DEF Require, Accepted
<1>4. Controls \in SUBSET Ids /\ TerminalSessions \in SUBSET Ids
  BY DEF Controls, TerminalSessions
<1> QED
  BY <1>3, <1>4, ObservationDisplays

\* The comparison of a claim that the reporter's configuration is the cause.
LEMMA ComparisonDisplays ==
  ASSUME EvidenceOK, ConfigurationEvidence = Accepted
  PROVE  \E r \in TerminalSessions, c \in Ids :
           Contrast(r, c) /\ Displays(r, "present") /\ Displays(c, "absent")
<1> DEFINE r == Representative(ReporterSessions)
           c == Representative(ControlledSessions)
           profiles == Require(sessions[r].profile = sessions[c].profile,
                               "configuration_specific_environment_mismatch")
           shown    == Require(Shows(r, "present") /\ Shows(c, "absent"),
                               "configuration_specific_evidence_mismatch")
<1>1. r # 0 /\ c # 0
  BY DEF ConfigurationEvidence, Accepted
<1>2. ConfigurationEvidence = FirstRefusal(<<profiles, shown>>)
  BY <1>1 DEF ConfigurationEvidence
<1>3. profiles = Accepted /\ shown = Accepted
  <2> HIDE DEF profiles, shown
  <2> QED
    BY <1>2, TwoChecks
<1>4. sessions[r].profile = sessions[c].profile /\ Shows(r, "present") /\ Shows(c, "absent")
  BY <1>3 DEF Require, Accepted
<1>5. ReporterSessions \in SUBSET Ids /\ ControlledSessions \in SUBSET Ids
  BY DEF ReporterSessions, TerminalSessions, ControlledSessions
<1>6. r \in ReporterSessions /\ c \in ControlledSessions
  BY <1>1, <1>5, RepresentativeIsEligible
<1> HIDE DEF r, c
<1>7. r \in TerminalSessions /\ r \in Ids /\ c \in Ids /\ Contrast(r, c)
  BY <1>4, <1>6 DEF ReporterSessions, TerminalSessions, ControlledSessions, Contrast
<1>8. Displays(r, "present") /\ Displays(c, "absent")
  BY <1>4, <1>7, ClassifiedDisplays DEF Shows
<1> QED
  BY <1>7, <1>8

\* An accepted claim has its evidence.
LEMMA AcceptedIsBacked ==
  ASSUME EvidenceOK, NEW claim \in NoPatchClaims, NEW flaw, Judge(claim, flaw) = Accepted
  PROVE  ClaimBacked(claim)
<1>1. claim \notin {"analysis_only", "draft_pr"}
  BY DEF NoPatchClaims, Resolutions
<1>2. JudgeReport(claim) = Accepted
  BY <1>1 DEF Judge, Require, Accepted
<1> SUFFICES ASSUME Usable
             PROVE  /\ TerminalProof
                    /\ claim = "already_fixed_current" =>
                         /\ \E i \in Controls : Displays(i, "present")
                         /\ \E i \in TerminalSessions : Displays(i, "absent")
                    /\ claim = "configuration_specific" =>
                         \E r \in TerminalSessions, c \in Ids :
                           Contrast(r, c) /\ Displays(r, "present") /\ Displays(c, "absent")
  BY DEF ClaimBacked
<1>3. /\ CurrentFirst(claim) = Accepted /\ SymptomMatrix(claim) = Accepted
      /\ claim = "configuration_specific" => ConfigurationEvidence = Accepted
  BY <1>1, <1>2, VisitedReport DEF Usable
<1>4. TerminalProof
  BY <1>1, <1>3, CurrentFirstAccepts
<1> QED
  BY <1>3, <1>4, MatrixDisplays, ComparisonDisplays

\* A session of the agent is in the record as what it is.
LEMMA SerializedShows ==
  ASSUME EvidenceOK, NEW i \in Ids, NEW presence, Displays(i, presence)
  PROVE  LET s == Serialized(i)
         IN /\ s \in AgentSessions /\ s.id = i /\ s.mode = sessions[i].mode
            /\ s.kind = sessions[i].kind /\ s.profile = sessions[i].profile
            /\ s.proven /\ presence \in s.shows
            /\ CurrentPrepared(sessions[i]) => s.settings
            /\ CurrentPrepared(sessions[i]) /\ Credits \subseteq {"read back"} => s.readBack
<1>1. sessions[i].credit \in Credits \cup {Unset}
  BY DEF EvidenceOK, SessionsOK, Coherent, Session
<1>2. Serialized(i) \in AgentSessions
  BY DEF AgentSessions
<1>3. Serialized(i).proven /\ presence \in Serialized(i).shows
  BY DEF Displays, Serialized
<1>4. CurrentPrepared(sessions[i]) => Serialized(i).settings
  BY DEF CurrentPrepared, Serialized
<1>5. CurrentPrepared(sessions[i]) /\ Credits \subseteq {"read back"} => Serialized(i).readBack
  BY <1>1 DEF CurrentPrepared, Credited, Serialized
<1> QED
  BY <1>2, <1>3, <1>4, <1>5 DEF Serialized

\* A session with complete vision displays something.
LEMMA ProvenDisplays ==
  ASSUME EvidenceOK, NEW i \in Ids, Proven(i)
  PROVE  \E presence : Displays(i, presence)
<1>1. FullyRead(sessions[i].captures)
  BY DEF EvidenceOK, SessionsOK, Coherent, Proven
<1> QED
  BY <1>1 DEF FullyRead, Displays

\* The record that is published of a claim with its evidence holds the claim.
LEMMA BackedIsCarried ==
  ASSUME EvidenceOK, Credits \subseteq {"read back"},
         NEW claim \in NoPatchClaims, ClaimBacked(claim), Usable
  PROVE  LET r == RecordOf(StatusOf(claim), VerificationOf(claim), AgentSessions)
         IN /\ r.parses /\ r.status = StatusOf(claim)
            /\ claim # "fixed_upstream_pending_extension" => r.verification = "verified"
<1> DEFINE final == StatusOf(claim)
           S      == AgentSessions
           bound  == SessionBound(final, S)
           held   == IF VerificationOf(claim) = "verified" /\ ~bound
                     THEN "partial" ELSE VerificationOf(claim)
<1>1. final = IF claim = "close_not_reproduced" THEN "not_reproduced" ELSE claim
  BY DEF StatusOf
<1>2. \A i \in TerminalSessions : i \in Ids /\ sessions[i].mode = "prepared"
                                  /\ CurrentPrepared(sessions[i])
  BY DEF TerminalSessions, TerminalPrepared, CurrentPrepared
<1>3. \A i \in Controls : i \in Ids /\ sessions[i].mode = "none"
  BY DEF Controls
<1>4. \E s \in S : s.proven /\ s.mode = "prepared" /\ s.settings /\ s.readBack
  <2>1. PICK i \in TerminalSessions : Proven(i)
    BY DEF ClaimBacked, TerminalProof
  <2>2. PICK presence : Displays(i, presence)
    BY <1>2, <2>1, ProvenDisplays
  <2> QED
    BY <1>2, <2>2, SerializedShows, ZenonT(60)
<1>5. ASSUME claim = "already_fixed_current"
      PROVE  /\ \E s \in S : s.mode = "none" /\ s.proven /\ "present" \in s.shows
             /\ \E s \in S : /\ s.mode = "prepared" /\ s.proven /\ "absent" \in s.shows
                             /\ s.settings /\ s.readBack
  <2>1. PICK i \in Controls : Displays(i, "present")
    BY <1>5 DEF ClaimBacked
  <2>2. PICK j \in TerminalSessions : Displays(j, "absent")
    BY <1>5 DEF ClaimBacked
  <2>3. \E s \in S : s.mode = "none" /\ s.proven /\ "present" \in s.shows
    BY <1>3, <2>1, SerializedShows, ZenonT(60)
  <2>4. \E s \in S : /\ s.mode = "prepared" /\ s.proven /\ "absent" \in s.shows
                     /\ s.settings /\ s.readBack
    BY <1>2, <2>2, SerializedShows, ZenonT(60)
  <2> QED
    BY <2>3, <2>4
<1>6. ASSUME claim = "configuration_specific"
      PROVE  \E pair \in Matrix(S) : pair[1] \in S /\ pair[2] \in S
  <2>1. PICK r \in TerminalSessions, c \in Ids :
          Contrast(r, c) /\ Displays(r, "present") /\ Displays(c, "absent")
    BY <1>6 DEF ClaimBacked
  <2>2. /\ Serialized(r) \in Showing(S, "present")
        /\ Serialized(r).kind \in {"reported", "selected"}
        /\ Serialized(r).profile = sessions[r].profile
    BY <1>2, <2>1, SerializedShows DEF Showing, Contrast
  <2>3. /\ Serialized(c) \in Showing(S, "absent")
        /\ Serialized(c).kind = "defaults" /\ Serialized(c).profile = sessions[c].profile
    <3>1. CurrentPrepared(sessions[c]) /\ sessions[c].mode = "prepared"
      BY <2>1 DEF Contrast, CurrentPrepared
    <3> QED
      BY <2>1, <3>1, SerializedShows DEF Showing, Contrast
  <2>4. Serialized(r).profile = Serialized(c).profile
    BY <2>1, <2>2, <2>3 DEF Contrast
  <2>5. <<Serialized(r), Serialized(c)>> \in Matrix(S)
    BY <2>2, <2>3, <2>4 DEF Matrix
  <2>6. Serialized(r) \in S /\ Serialized(c) \in S
    BY <2>2, <2>3 DEF Showing
  <2> QED
    BY <2>5, <2>6
<1>7. EvidenceComplete(claim)
  <2>1. CASE claim = "already_fixed_current"
    <3>1. AlreadyFixedComplete(S)
      BY <1>5, <2>1 DEF AlreadyFixedComplete
    <3> QED
      BY <2>1, <3>1 DEF EvidenceComplete, ClaimBacked, TerminalProof
  <2>2. CASE claim = "configuration_specific"
    BY <1>6, <2>2 DEF EvidenceComplete
  <2>3. CASE claim \notin {"already_fixed_current", "configuration_specific"}
    BY <2>3 DEF EvidenceComplete, ClaimBacked, TerminalProof
  <2> QED
    BY <2>1, <2>2, <2>3
<1>8. VerificationOf(claim) = IF claim # "fixed_upstream_pending_extension"
                              THEN "verified" ELSE "partial"
  BY <1>7 DEF VerificationOf
<1>9. bound
  <2>1. CASE final = "already_fixed_current"
    <3>1. claim = "already_fixed_current"
      BY <1>1, <2>1
    <3> QED
      BY <1>5, <2>1, <3>1 DEF SessionBound
  <2>2. CASE final # "already_fixed_current"
    BY <1>4, <2>2 DEF SessionBound
  <2> QED
    BY <2>1, <2>2
<1>10. held = VerificationOf(claim)
  <2> HIDE DEF bound
  <2> QED
    BY <1>9
<1>11. Parses(final, held, S)
  <2>1. final = "already_fixed_current" => claim = "already_fixed_current"
    BY <1>1
  <2>2. final = "configuration_specific" => claim = "configuration_specific"
    BY <1>1
  <2>3. ASSUME claim = "configuration_specific"
        PROVE  \E pair \in Matrix(S) : {pair[1].id, pair[2].id} \subseteq {s.id : s \in S}
    BY <1>6, <2>3
  <2> HIDE DEF held
  <2> QED
    BY <1>5, <2>1, <2>2, <2>3 DEF Parses
<1>12. claim # "fixed_upstream_pending_extension" => VerificationOf(claim) = "verified"
  BY <1>8
<1>13. LET r == RecordOf(final, VerificationOf(claim), S)
       IN /\ r.parses <=> Parses(final, VerificationOf(claim), S)
          /\ r.status = final /\ r.verification = VerificationOf(claim)
  <2>1. SessionBound(final, S)
    BY <1>9
  <2> HIDE DEF final, S
  <2> QED
    BY <2>1, Zenon DEF RecordOf
<1>14. Parses(final, VerificationOf(claim), S)
  BY <1>10, <1>11
<1> HIDE DEF final, S
<1> QED
  <2>1. LET r == RecordOf(final, VerificationOf(claim), S)
        IN /\ r.parses /\ r.status = final
           /\ claim # "fixed_upstream_pending_extension" => r.verification = "verified"
    BY <1>12, <1>13, <1>14
  <2> QED
    BY <2>1 DEF final, S

\* The record holds an accepted claim, which has its evidence.
CarriedInv ==
  /\ decision \in NoPatchClaims => ClaimBacked(decision)
  /\ record # NoRecord => decision \in NoPatchClaims
  /\ AcceptedClaimIsCarried

\* Evidence that is left alone backs the same claims.
LEMMA BackingStays ==
  ASSUME UNCHANGED evidenceVars, NEW claim, ClaimBacked(claim), decision' = claim
  PROVE  ClaimBacked(decision)'
<1>1. UNCHANGED <<sessions, unattainable>>
  BY DEF evidenceVars
<1>2. Controls' = Controls /\ TerminalSessions' = TerminalSessions /\ Ids' = Ids
  BY <1>1 DEF Controls, TerminalSessions, TerminalPrepared, CurrentPrepared, Credited, Ids
<1>3. Usable' = Usable /\ (TerminalProof => TerminalProof')
  BY <1>1, <1>2 DEF Usable, TerminalProof, Proven
<1>4. \A i, presence : Displays(i, presence) => Displays(i, presence)'
  BY <1>1 DEF Displays, Proven
<1>5. \A r, c : Contrast(r, c) => Contrast(r, c)'
  BY <1>1 DEF Contrast, CurrentPrepared, Credited
<1> QED
  BY <1>2, <1>3, <1>4, <1>5 DEF ClaimBacked

\* What is read of a record stays when neither it nor the evidence changes.
LEMMA CarriedStays ==
  ASSUME AcceptedClaimIsCarried, UNCHANGED <<evidenceVars, decision, record>>
  PROVE  AcceptedClaimIsCarried'
<1>1. UNCHANGED <<sessions, disposition>>
  BY DEF evidenceVars
<1>2. Usable' = Usable
  BY <1>1 DEF Usable, Ids
<1>3. StatusOf(decision)' = StatusOf(decision)
  BY <1>2 DEF StatusOf
<1> QED
  BY <1>1, <1>2, <1>3 DEF AcceptedClaimIsCarried, NoRecord

\* Every step keeps the record and the claim together.
LEMMA NextCarried ==
  ASSUME Credits \subseteq {"read back"}, RunOK, CarriedInv, [Next]_vars
  PROVE  CarriedInv'
<1> USE DEF CarriedInv
<1>0. Undecided \notin NoPatchClaims /\ \A claim \in Claims : claim # Undecided
  BY DEF NoPatchClaims, Claims, Resolutions, Closings, Undecided
<1>1. ASSUME UNCHANGED <<evidenceVars, decision, record>>
      PROVE  CarriedInv'
  <2>1. decision' \in NoPatchClaims => ClaimBacked(decision)'
    BY <1>1, BackingStays
  <2> QED
    BY <1>1, <2>1, CarriedStays DEF NoRecord
<1>2. CASE UNCHANGED vars
  BY <1>1, <1>2 DEF vars, judgementVars
<1>3. ASSUME decision' = Undecided, record' = record, decision = Undecided
      PROVE  CarriedInv'
  <2>1. record' = NoRecord
    BY <1>0, <1>3
  <2> QED
    BY <1>0, <1>3, <2>1 DEF AcceptedClaimIsCarried, NoRecord
<1>4. CASE /\ decision = Undecided /\ Gathers /\ Len(sessions') <= MaxSessions + 3
           /\ UNCHANGED <<decision, advised, record>>
  BY <1>3, <1>4
<1>5. CASE /\ decision = Undecided
           /\ \E claim \in Claims, flaw \in Flaws : FinishFix(claim, flaw)
           /\ UNCHANGED record
  <2>1. PICK claim \in Claims, flaw \in Flaws : FinishFix(claim, flaw)
    BY <1>5
  <2>2. /\ Judge(claim, flaw) = Accepted /\ decision' = claim /\ UNCHANGED evidenceVars
    BY <2>1 DEF FinishFix
  <2>3. record' = NoRecord
    BY <1>0, <1>5
  <2>4. decision' \in NoPatchClaims => ClaimBacked(decision)'
    BY <2>2, AcceptedIsBacked, BackingStays DEF RunOK
  <2> QED
    BY <2>3, <2>4 DEF AcceptedClaimIsCarried, NoRecord
<1>6. CASE /\ decision = Undecided /\ advised' = TRUE
           /\ UNCHANGED <<evidenceVars, decision, record>>
  BY <1>1, <1>6
<1>7. CASE Publish
  <2>1. decision \in NoPatchClaims /\ UNCHANGED evidenceVars /\ decision' = decision
    BY <1>7, PublishRecords DEF judgementVars
  <2>2. decision' \in NoPatchClaims /\ ClaimBacked(decision)'
    BY <2>1, BackingStays
  <2>3. UNCHANGED <<sessions, disposition>>
    BY <2>1 DEF evidenceVars
  <2>4. Usable' = Usable
    BY <2>3 DEF Usable, Ids
  <2>5. StatusOf(decision)' = StatusOf(decision)
    BY <2>1, <2>4 DEF StatusOf
  <2>6. ASSUME Usable, disposition = "none"
        PROVE  /\ record'.parses /\ record'.status = StatusOf(decision)
               /\ decision # "fixed_upstream_pending_extension"
                    => record'.verification = "verified"
    <3>1. record' = RecordOf(StatusOf(decision), VerificationOf(decision), AgentSessions)
      BY <1>7, <2>6, PublishRecords
    <3> QED
      BY <2>1, <2>6, <3>1, BackedIsCarried DEF RunOK
  <2>7. AcceptedClaimIsCarried'
    BY <2>1, <2>3, <2>4, <2>5, <2>6 DEF AcceptedClaimIsCarried
  <2> QED
    BY <2>2, <2>7
<1> QED
  BY <1>2, <1>4, <1>5, <1>6, <1>7, NextSteps DEF Steps

\* A claim accepted on evidence is the claim of the record, as verified as the
\* evidence makes it, where the blocker's settings are read back.
THEOREM ClaimsAreCarried ==
  ASSUME Credits \subseteq {"read back"}
  PROVE  Spec => []AcceptedClaimIsCarried
<1>1. RunInit => CarriedInv
  BY DEF RunInit, CarriedInv, AcceptedClaimIsCarried, NoPatchClaims, Resolutions, Undecided
<1>2. RunOK /\ CarriedInv /\ [Next]_vars => CarriedInv'
  BY NextCarried
<1>3. CarriedInv => AcceptedClaimIsCarried
  BY DEF CarriedInv
<1> QED
  BY <1>1, <1>2, <1>3, AlwaysRunOK, PTL DEF Spec
=============================================================================
