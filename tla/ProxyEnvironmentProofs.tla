------------------------ MODULE ProxyEnvironmentProofs ------------------------
(***************************************************************************)
(* Proofs about ProxyEnvironment.  What a request does to the module is    *)
(* settled first, in facts about the operators of BlockerProcess; the      *)
(* inductive invariant then relates the module to what the route wants.    *)
(*                                                                         *)
(* The argument turns on failure.  Until something of the experiment has   *)
(* failed (Doomed), the module executes what the route wants.  Afterwards  *)
(* no further experiment begins, and it is enough that whatever a failed   *)
(* request left behind is either harmless or never executed again.         *)
(***************************************************************************)
EXTENDS ProxyEnvironment, TLAPS

(* What a module record may be. *)

EditOrNone == Edits \cup {NoEdit}

Executed == [lists : SUBSET Lists, rules : SUBSET Rules, edit : EditOrNone]

Selection == {Every} \cup SUBSET Lists

Module ==
  [module : {"up", "died", "killed", "exited"}, started : BOOLEAN, prepared : BOOLEAN,
   enabled : Selection, rules : SUBSET Rules, file : EditOrNone, known : EditOrNone,
   child : {"none", "live", "dead"}, ran : Executed, serving : BOOLEAN,
   addressed : BOOLEAN, licence : {"none", "held", "returned", "kept"}]

\* A present process was spawned with what the next one would be.
WellFormed(b) ==
  /\ b \in Module
  /\ b.child = "none" => b.ran = Nothing /\ ~b.addressed
  /\ b.child # "none" => b.ran = Spawned(b)
  /\ b.serving = b.addressed
  /\ ~b.started => /\ b.child = "none" /\ b.licence = "none"
                   /\ b.rules = {} /\ b.file = NoEdit /\ b.known = NoEdit

Wants == [rules : SUBSET Rules, edit : EditOrNone]

Idle == [rules |-> {}, edit |-> NoEdit]

\* Nothing of a candidate is left, neither on disk nor in the module.
Clean(b) == b.rules = {} /\ b.file = NoEdit /\ b.known = NoEdit

\* The module is exactly where a heard request for w and lists leaves it.
Executes(b, w, lists) ==
  /\ b.started
  /\ b.enabled = lists
  /\ b.file = w.edit /\ b.known = w.edit
  /\ b.rules = w.rules /\ b.ran.rules = w.rules

\* The next request for w and lists finds nothing to do.
Settled(b, w, lists) ==
  b.enabled = lists /\ b.known = w.edit /\ b.ran.rules = w.rules

\* Whatever is launched next executes no candidate.
Harmless(b) == b.rules = {} /\ b.file = NoEdit

\* A candidate is left, but no process executes it, and none is launched as
\* long as nothing is wanted.
Leftover(b, lists) == ~b.addressed /\ Settled(b, Idle, lists)

\* What a request to take the wanted candidate back relies on.
Revocable(b, w, lists) ==
  /\ b.enabled = lists
  /\ w.rules # {} => w.edit = NoEdit /\ b.file = NoEdit /\ b.known = NoEdit
  /\ w.edit # NoEdit => /\ b.rules = {}
                        /\ b.known = NoEdit /\ b.file # NoEdit => ~b.addressed

Contained(b, w, lists) ==
  IF w = Idle THEN Harmless(b) \/ Leftover(b, lists) ELSE Revocable(b, w, lists)
-----------------------------------------------------------------------------
(* The run. *)

Up == blocker.module = "up"

Waiting == {"applying", "launching", "revokingRule", "revokingEdit"}

Trying == {"applying", "receipt", "launching", "creating", "observing"}

Revoking == {"revokeRule", "revokingRule", "revokeEdit", "revokingEdit"}

Steps == {"idle", "preparing", "next", "ended", "cleaned", "done"} \cup Trying \cup Revoking

\* The answer to the phase's request, while it is on its way.
Awaited == {i \in DOMAIN pending : pending[i].by = "phase"}

Promised == \A i \in Awaited : pending[i].ok

Doomed == phase.failed \/ adapter.limited \/ ~Promised \/ stage # "running"

Holders == {"phase", "browser", "route"}

Session ==
  [of : Nat, label : {"A", "B", "C"}, candidate : Candidates \cup {NoCandidate},
   reaches : BOOLEAN]

TypeOK ==
  /\ want \in Wants
  /\ catalog \in Selection
  /\ pending \in Seq([by : {"phase", "browser"}, ok : BOOLEAN, restarted : BOOLEAN])
  /\ routed \in BOOLEAN
  /\ held \subseteq Holders
  /\ adapter \in [ready : BOOLEAN, limited : BOOLEAN, added : BOOLEAN, edited : BOOLEAN,
                  locked : SUBSET Lists, cleanup : {"none", "failed", "completed"}]
  /\ phase \in [at : Steps, label : {"A", "B", "C"},
                candidate : Candidates \cup {NoCandidate}, failed : BOOLEAN,
                experiments : Nat]
  /\ leases \subseteq Session
  /\ browser \in {"idle", "asking"}
  /\ stage \in {"running", "cleaning", "stopping", "over"}

\* How the module ended, and what it left behind.
ModuleEnds ==
  /\ stage = "over" => ~Up
  /\ blocker.module = "died" => blocker.child # "live"
  /\ blocker.module = "exited" => blocker.child # "live" /\ blocker.licence # "held"

ProcessInv == WellFormed(blocker) /\ ModuleEnds

\* At most one request of the experiment is on its way, and only while it waits.
OneAwaited ==
  /\ \A i, j \in Awaited : i = j
  /\ phase.at \notin Waiting => Awaited = {}

\* Only the address of the present proxy is held.
HeldIsPresent == Up /\ held # {} => blocker.addressed

Progress ==
  /\ stage = "running" => phase.at \notin {"cleaned", "done"}
  /\ stage = "cleaning" => phase.at \in Revoking \cup {"cleaned", "done"}
  /\ stage \in {"stopping", "over"} => phase.at = "done"
  /\ phase.at \in Trying \cup {"next"} => ~adapter.limited /\ ~phase.failed /\ adapter.ready
  /\ phase.at \in {"applying", "receipt"} => phase.label = "C"
  /\ phase.at = "preparing" => ~adapter.limited /\ ~adapter.ready
  /\ phase.at \in {"idle", "preparing"} => phase.label = "A" /\ ~phase.failed
  /\ stage # "running" => phase.label = "A"
  /\ adapter.limited /\ stage = "running" => phase.at = "idle"
  /\ phase.at \in Trying \cup {"next"} => phase.candidate \in Candidates
  /\ adapter.cleanup = "completed" => phase.at = "done"

\* What the candidate asks of the module.
Asked(c) == [rules |-> {c} \cap Rules, edit |-> IF c \in Edits THEN c ELSE NoEdit]

WantFollows ==
  /\ want.rules = {} \/ want.edit = NoEdit
  /\ want.rules # {} => adapter.added
  /\ want.edit # NoEdit => adapter.edited
  /\ want # Idle => routed /\ blocker.started
  /\ ~adapter.limited /\ phase.at \in {"idle", "preparing", "next"} => want = Idle
  /\ phase.at \in Trying => want = IF phase.label = "C" THEN Asked(phase.candidate) ELSE Idle
  /\ phase.at = "ended" /\ ~phase.failed => want = Idle
  /\ phase.at = "revokingRule" => want.rules = {}
  /\ phase.at = "revokingEdit" => want.edit = NoEdit
  /\ stage = "running" /\ phase.at \in {"revokeRule", "revokingRule"} => want.edit = NoEdit
  /\ phase.at \in {"revokeEdit", "revokingEdit"} => want.rules = {}
  /\ phase.at \in {"cleaned", "done"} => want = Idle

CatalogFollows ==
  /\ catalog = Every /\ stage = "running" =>
       phase.at = "idle" /\ ~adapter.ready /\ ~adapter.limited
  /\ phase.at \in Trying \/ (phase.at = "next" /\ phase.label = "C") =>
       catalog = IF phase.label = "A" THEN {} ELSE Lists

RouteFollows ==
  /\ phase.at = "creating" => routed
  /\ phase.at = "observing" \/ phase.label # "A" => routed /\ blocker.started

\* Until something fails, the module is where the last heard request left it.
FaithfulUntilDoomed ==
  ~Doomed /\ Up => IF want = Idle THEN Clean(blocker) ELSE Executes(blocker, want, catalog)

\* A session may be created: the module executes its phase.
PhaseReady ==
  Up /\ Promised /\ phase.at \in {"launching", "creating"} => Executes(blocker, want, catalog)

FailureContained == Up => Contained(blocker, want, catalog)

LeasesClosed ==
  /\ leases # {} => \/ phase.at = "observing" \/ adapter.limited \/ stage # "running"
                    \/ phase.at = "ended" /\ phase.failed
  /\ stage \in {"stopping", "over"} => \A l \in leases : ~l.reaches
  /\ phase.at = "observing" => leases \subseteq {Lease(TRUE), Lease(FALSE)}

\* A session that reaches a proxy reaches the one that executes its phase, and
\* nothing the route wants would replace it.
LeasesFit ==
  \A l \in leases : l.reaches =>
    /\ blocker.started /\ routed /\ blocker.addressed
    /\ blocker.ran = Proven(l)
    /\ Up => Settled(blocker, want, catalog)

RunInv ==
  /\ TypeOK /\ ProcessInv /\ OneAwaited /\ HeldIsPresent /\ Progress /\ WantFollows
  /\ CatalogFollows /\ RouteFollows /\ FaithfulUntilDoomed /\ PhaseReady
  /\ FailureContained /\ LeasesClosed /\ LeasesFit
-----------------------------------------------------------------------------
(* What a launch leaves. *)

Answer == [to : Module, ok : BOOLEAN, cut : BOOLEAN, restarted : BOOLEAN]

\* What a request finds configured, apart from the process itself.
SameModule(b, c) ==
  /\ c.module = b.module /\ c.started = b.started /\ c.licence = b.licence

SameConfiguration(b, c) ==
  /\ SameModule(b, c) /\ c.enabled = b.enabled
  /\ c.rules = b.rules /\ c.file = b.file /\ c.known = b.known

\* A process is spawned with a selection, rules and an edit of the environment
\* (spawn of the blocker).
LEMMA SpawnedExecutes ==
  ASSUME NEW b \in Module
  PROVE  Spawned(b) \in Executed
<1>1. Active(b.enabled) \in SUBSET Lists
  BY DEF Active, Module, Selection
<1>2. b.rules \in SUBSET Rules /\ b.file \in EditOrNone
  BY DEF Module
<1> QED
  BY <1>1, <1>2 DEF Spawned, Executed, EditOrNone

\* Whatever a launch comes to, what is configured stays, sessions of the process
\* before are cut, and there is an address exactly if it became ready (restart).
LEMMA RelaunchedFits ==
  ASSUME NEW b \in Module, b.started, NEW o \in Launches, NEW r, r = Relaunched(b, o)
  PROVE  /\ WellFormed(r.to) /\ SameConfiguration(b, r.to)
         /\ r \in Answer /\ r.cut /\ r.to.addressed = r.ok
<1> DEFINE got == IF b.prepared THEN o ELSE "refused"
           t == Terminate(b)
<1>1. got \in Launches
  BY DEF Launches
<1>2. /\ t \in Module /\ SameConfiguration(b, t) /\ t.started
      /\ t.child = "none" /\ t.ran = Nothing /\ t.serving = FALSE /\ t.addressed = FALSE
  BY DEF Terminate, Module, Nothing, Executed, EditOrNone, SameConfiguration, SameModule
<1>3. /\ r.to = Launch(t, got) /\ r.ok = (got = "ready") /\ r.cut = TRUE
      /\ r.restarted = (got = "ready")
      /\ r = [to |-> r.to, ok |-> r.ok, cut |-> r.cut, restarted |-> r.restarted]
  BY DEF Relaunched
<1>4. r.to \in Module => r \in Answer
  BY <1>3 DEF Answer
<1>5. CASE got = "refused"
  <2>1. r.to = t
    BY <1>3, <1>5 DEF Launch
  <2>2. r.ok = FALSE /\ r.restarted = FALSE
    BY <1>3, <1>5
  <2>3. WellFormed(t)
    BY <1>2 DEF WellFormed
  <2> QED
    BY <2>1, <2>2, <2>3, <1>2, <1>3, <1>4
<1>6. CASE got # "refused"
  <2> DEFINE c == r.to
  <2>1. c = [t EXCEPT !.child = IF got = "died" THEN "dead" ELSE "live", !.ran = Spawned(t),
                      !.serving = got = "ready", !.addressed = got = "ready"]
    BY <1>3, <1>6 DEF Launch
  <2>2. Spawned(t) \in Executed
    BY <1>2, SpawnedExecutes
  <2>3. c \in Module
    BY <2>1, <2>2, <1>2, ZenonT(60) DEF Module
  <2>4. /\ c.child # "none" /\ c.ran = Spawned(t) /\ c.serving = (got = "ready")
        /\ c.addressed = (got = "ready")
    BY <2>1, <1>2 DEF Module
  <2>5. /\ c.module = t.module /\ c.started = t.started /\ c.licence = t.licence
        /\ c.enabled = t.enabled /\ c.rules = t.rules /\ c.file = t.file
        /\ c.known = t.known
    BY <2>1, <1>2 DEF Module
  <2>6. SameConfiguration(b, c) /\ c.started
    BY <2>5, <1>2 DEF SameConfiguration, SameModule
  <2>7. Spawned(c) = Spawned(t)
    BY <2>5 DEF Spawned
  <2> QED
    BY <2>3, <2>4, <2>7, <2>6, <1>3, <1>4 DEF WellFormed
<1> QED
  BY <1>5, <1>6

\* Nothing had to be done, or nothing could be.
LEMMA KeptFits ==
  ASSUME NEW b \in Module
  PROVE  /\ Kept(b) \in Answer /\ Kept(b).to = b
         /\ Kept(b).ok = TRUE /\ Kept(b).cut = FALSE /\ Kept(b).restarted = FALSE
         /\ Thrown(b) \in Answer /\ Thrown(b).to = b
         /\ Thrown(b).ok = FALSE /\ Thrown(b).cut = FALSE /\ Thrown(b).restarted = FALSE
  BY DEF Kept, Thrown, Answer

\* A request for the present selection keeps the module as it is; another one
\* replaces a process there is (setEnabledFilters).
LEMMA RelistedFits ==
  ASSUME NEW b, WellFormed(b), b.started, NEW lists \in Selection, NEW o \in Launches,
         NEW r, r = Relisted(b, lists, o)
  PROVE  /\ r \in Answer /\ WellFormed(r.to) /\ SameModule(b, r.to)
         /\ r.to.enabled = lists
         /\ r.to.rules = b.rules /\ r.to.file = b.file /\ r.to.known = b.known
         /\ ~r.cut => r.ok /\ r.to = [b EXCEPT !.enabled = lists]
         /\ r.cut => r.to.addressed = r.ok /\ r.to.ran.rules \in {{}, b.rules}
         /\ lists = b.enabled => r = Kept(b)
<1> DEFINE n == [b EXCEPT !.enabled = lists]
<1>1. b \in Module
  BY DEF WellFormed
<1>2. /\ n \in Module /\ n.started /\ SameModule(b, n) /\ n.enabled = lists
      /\ n.rules = b.rules /\ n.file = b.file /\ n.known = b.known
      /\ n.child = b.child /\ n.ran = b.ran /\ n.serving = b.serving
      /\ n.addressed = b.addressed
  BY <1>1 DEF Module, SameModule
<1>3. CASE lists = b.enabled
  <2>1. r = Kept(b) /\ n = b
    BY <1>1, <1>3 DEF Relisted, Module
  <2>2. r \in Answer /\ r.to = b /\ r.ok = TRUE /\ r.cut = FALSE
    BY <2>1, <1>1, KeptFits
  <2> QED
    BY <2>1, <2>2, <1>3 DEF SameModule
<1>4. CASE lists # b.enabled /\ b.child = "none"
  <2>1. r = Kept(n)
    BY <1>4 DEF Relisted
  <2>2. WellFormed(n)
    BY <1>2, <1>4 DEF WellFormed
  <2>3. r \in Answer /\ r.to = n /\ r.ok = TRUE /\ r.cut = FALSE
    BY <2>1, <1>2, KeptFits
  <2> QED
    BY <2>2, <2>3, <1>2, <1>4
<1>5. CASE lists # b.enabled /\ b.child # "none"
  <2>1. r = Relaunched(n, o)
    BY <1>5 DEF Relisted
  <2>2. /\ WellFormed(r.to) /\ SameConfiguration(n, r.to)
        /\ r \in Answer /\ r.cut /\ r.to.addressed = r.ok
    BY <2>1, <1>2, RelaunchedFits
  <2>3. r.to.ran.rules \in {{}, b.rules}
    BY <2>2, <1>2 DEF WellFormed, Nothing, Spawned, SameConfiguration
  <2> QED
    BY <2>2, <2>3, <1>2, <1>5 DEF SameConfiguration, SameModule
<1> QED
  BY <1>3, <1>4, <1>5

\* An edit in force already keeps the module as it is; otherwise the file is
\* changed first, and what is believed in force follows only a process that
\* became ready (setFilterReplacement).
LEMMA ReplacedFits ==
  ASSUME NEW b, WellFormed(b), b.started, NEW edit \in EditOrNone, NEW o \in Launches,
         NEW r, r = Replaced(b, edit, o)
  PROVE  /\ r \in Answer /\ WellFormed(r.to) /\ SameModule(b, r.to)
         /\ r.to.enabled = b.enabled /\ r.to.rules = b.rules
         /\ edit = b.known => r = Kept(b)
         /\ edit # b.known => /\ r.cut /\ r.to.addressed = r.ok
                              /\ r.to.file = edit
                              /\ r.to.known = IF r.ok THEN edit ELSE b.known
<1> DEFINE n == [b EXCEPT !.file = edit]
<1>1. b \in Module
  BY DEF WellFormed
<1>2. CASE edit = b.known
  <2>1. r = Kept(b)
    BY <1>2 DEF Replaced
  <2>2. r \in Answer /\ r.to = b
    BY <2>1, <1>1, KeptFits
  <2> QED
    BY <2>1, <2>2, <1>2 DEF SameModule
<1>3. CASE edit # b.known
  <2>1. /\ n \in Module /\ n.started /\ SameModule(b, n) /\ n.file = edit
        /\ n.enabled = b.enabled /\ n.rules = b.rules /\ n.known = b.known
    BY <1>1 DEF Module, SameModule
  <2> DEFINE q == Relaunched(n, o)
  <2>2. /\ WellFormed(q.to) /\ SameConfiguration(n, q.to)
        /\ q \in Answer /\ q.cut /\ q.to.addressed = q.ok
    BY <2>1, RelaunchedFits
  <2>3. r = IF q.ok THEN [q EXCEPT !.to.known = edit] ELSE q
    BY <1>3 DEF Replaced
  <2>4. CASE ~q.ok
    <3>1. r = q
      BY <2>3, <2>4
    <3> HIDE DEF q
    <3> QED
      BY <3>1, <2>1, <2>2, <2>4, <1>3 DEF SameConfiguration, SameModule
  <2>5. CASE q.ok
    <3> DEFINE c == [q.to EXCEPT !.known = edit]
    <3>1. q.to \in Module
      BY <2>2 DEF WellFormed
    <3> HIDE DEF q
    <3>2. r = [q EXCEPT !.to.known = edit]
      BY <2>3, <2>5
    <3>3. /\ c \in Module /\ SameModule(q.to, c) /\ c.known = edit
          /\ c.enabled = q.to.enabled /\ c.rules = q.to.rules /\ c.file = q.to.file
          /\ c.child = q.to.child /\ c.ran = q.to.ran /\ c.serving = q.to.serving
          /\ c.addressed = q.to.addressed
      BY <3>1 DEF Module, SameModule
    <3>4. Spawned(c) = Spawned(q.to)
      BY <3>3 DEF Spawned
    <3>5. c.started
      BY <3>3, <2>1, <2>2 DEF SameModule, SameConfiguration
    <3>6. WellFormed(c)
      BY <3>3, <3>4, <3>5, <2>2 DEF WellFormed
    <3>7. q \in Answer
      BY <2>2
    <3>8. r = [q EXCEPT !.to = c]
      BY <3>2, <3>7 DEF Answer
    <3>9. r \in Answer /\ r.to = c /\ r.cut = q.cut /\ r.ok = q.ok
      BY <3>3, <3>7, <3>8 DEF Answer
    <3>10. SameModule(b, c) /\ c.enabled = b.enabled /\ c.rules = b.rules /\ c.file = edit
      BY <3>3, <2>1, <2>2 DEF SameConfiguration, SameModule
    <3> QED
      BY <3>3, <3>6, <3>9, <3>10, <2>2, <2>5, <1>3
  <2> QED
    BY <2>4, <2>5
<1> QED
  BY <1>2, <1>3

\* Rules that were executed when the request was taken up keep the module as it
\* is; other rules replace its process (setUserRules).
LEMMA RuledFits ==
  ASSUME NEW b, WellFormed(b), b.started, NEW rules \in SUBSET Rules, NEW current,
         NEW o \in Launches, NEW r, r = Ruled(b, current, rules, o)
  PROVE  /\ r \in Answer /\ WellFormed(r.to) /\ SameModule(b, r.to)
         /\ r.to.enabled = b.enabled /\ r.to.file = b.file /\ r.to.known = b.known
         /\ rules = current => r = Kept(b)
         /\ rules # current => /\ r.cut /\ r.to.addressed = r.ok
                               /\ r.to.rules = rules
<1> DEFINE n == [b EXCEPT !.rules = rules]
<1>1. b \in Module
  BY DEF WellFormed
<1>2. CASE rules = current
  <2>1. r = Kept(b)
    BY <1>2 DEF Ruled
  <2>2. r \in Answer /\ r.to = b
    BY <2>1, <1>1, KeptFits
  <2> QED
    BY <2>1, <2>2, <1>2 DEF SameModule
<1>3. CASE rules # current
  <2>1. /\ n \in Module /\ n.started /\ SameModule(b, n) /\ n.rules = rules
        /\ n.enabled = b.enabled /\ n.file = b.file /\ n.known = b.known
    BY <1>1 DEF Module, SameModule
  <2>2. r = Relaunched(n, o)
    BY <1>3 DEF Ruled
  <2>3. /\ WellFormed(r.to) /\ SameConfiguration(n, r.to)
        /\ r \in Answer /\ r.cut /\ r.to.addressed = r.ok
    BY <2>1, <2>2, RelaunchedFits
  <2> QED
    BY <2>1, <2>3, <1>3 DEF SameConfiguration, SameModule
<1> QED
  BY <1>2, <1>3

\* The second attempt counts only if the first has not thrown.
LEMMA ThenFits ==
  ASSUME NEW first \in Answer, NEW second \in Answer, NEW r, r = Then(first, second)
  PROVE  /\ ~first.ok => r = first
         /\ first.ok => /\ r \in Answer /\ r.to = second.to /\ r.ok = second.ok
                        /\ r.cut = (second.cut \/ first.cut)
  BY DEF Then, Answer

\* What a request leaves configured, b being the module it finds.  A request
\* that goes all the way leaves what it asked for, any other a mixture of that
\* and what was there; where there is something to do, sessions are cut (apply
\* of the blocker).
Applied(b, w, lists, r) ==
  LET c == r.to
  IN /\ c.enabled = lists
     /\ c.rules \in {b.rules, w.rules} /\ c.file \in {b.file, w.edit}
     /\ c.known \in {b.known, w.edit}
     /\ w.edit = b.known => c.file = b.file
     /\ w.edit # b.known /\ lists = b.enabled => c.file = w.edit
     /\ w.rules = b.ran.rules => c.rules = b.rules
     /\ w.rules # b.ran.rules /\ w.edit = b.known /\ lists = b.enabled => c.rules = w.rules
     /\ r.ok => /\ c.known = w.edit
                /\ w.edit # b.known => c.file = w.edit
                /\ w.rules # b.ran.rules => c.rules = w.rules
     /\ ~r.cut => /\ r.ok /\ c = [b EXCEPT !.enabled = lists]
                  /\ b.known = w.edit /\ b.ran.rules = w.rules
     /\ r.cut => c.addressed = r.ok
     /\ Settled(b, w, lists) => ~r.cut

\* The attempts of apply, one after the other.
LEMMA ApplyFits ==
  ASSUME NEW b, WellFormed(b), b.started, NEW w \in Wants, NEW lists \in Selection,
         NEW o \in Outcomes, NEW r, r = Apply(b, Wanted(w, lists), o)
  PROVE  /\ r \in Answer /\ WellFormed(r.to) /\ SameModule(b, r.to)
         /\ Applied(b, w, lists, r)
<1> DEFINE r1 == Relisted(b, lists, o[1])
           q2 == Replaced(r1.to, w.edit, o[2])
           r2 == Then(r1, q2)
           q3 == Ruled(r2.to, b.ran.rules, w.rules, o[3])
<1>1. /\ Wanted(w, lists).lists = lists /\ Wanted(w, lists).edit = w.edit
      /\ Wanted(w, lists).rules = w.rules
  BY DEF Wanted
<1>2. r = Then(r2, q3)
  BY <1>1 DEF Apply
<1>3. o[1] \in Launches /\ o[2] \in Launches /\ o[3] \in Launches
  BY DEF Outcomes
<1>4. w.edit \in EditOrNone /\ w.rules \in SUBSET Rules
  BY DEF Wants
<1>5. /\ r1 \in Answer /\ WellFormed(r1.to) /\ SameModule(b, r1.to)
      /\ r1.to.enabled = lists
      /\ r1.to.rules = b.rules /\ r1.to.file = b.file /\ r1.to.known = b.known
      /\ ~r1.cut => r1.ok /\ r1.to = [b EXCEPT !.enabled = lists]
      /\ r1.cut => r1.to.addressed = r1.ok
      /\ lists = b.enabled => r1 = Kept(b)
  BY <1>3, RelistedFits
<1>6. r1.to.started
  BY <1>5 DEF SameModule
<1>7. /\ q2 \in Answer /\ WellFormed(q2.to) /\ SameModule(r1.to, q2.to)
      /\ q2.to.enabled = r1.to.enabled /\ q2.to.rules = r1.to.rules
      /\ w.edit = r1.to.known => q2 = Kept(r1.to)
      /\ w.edit # r1.to.known => /\ q2.cut /\ q2.to.addressed = q2.ok
                                 /\ q2.to.file = w.edit
                                 /\ q2.to.known = IF q2.ok THEN w.edit ELSE r1.to.known
  BY <1>3, <1>4, <1>5, <1>6, ReplacedFits
<1>8. /\ ~r1.ok => r2 = r1
      /\ r1.ok => r2 \in Answer /\ r2.to = q2.to /\ r2.ok = q2.ok /\ r2.cut = (q2.cut \/ r1.cut)
  BY <1>5, <1>7, ThenFits
<1> HIDE DEF r1, q2, r2
<1>9. /\ r2 \in Answer /\ WellFormed(r2.to) /\ SameModule(b, r2.to) /\ r2.to.started
      /\ r2.to.enabled = lists /\ r2.to.rules = b.rules
  BY <1>5, <1>6, <1>7, <1>8 DEF SameModule
<1>10. /\ w.edit = b.known => r2.to.file = b.file /\ r2.to.known = b.known
       /\ w.edit # b.known => IF r1.ok THEN r2.to.file = w.edit ELSE r2.to.file = b.file
       /\ r2.to.known \in {b.known, w.edit}
       /\ r2.ok => r2.to.known = w.edit /\ r1.ok
       /\ ~r2.cut => r2.ok /\ r2.to = [b EXCEPT !.enabled = lists] /\ b.known = w.edit
       /\ r2.cut => r2.to.addressed = r2.ok
       /\ lists = b.enabled => r1.ok
       /\ w.edit = b.known /\ lists = b.enabled => r2.ok /\ ~r2.cut
  <2>1. /\ r1.to \in Module /\ b \in Module
    BY <1>5 DEF WellFormed
  <2>2. lists = b.enabled => r1.ok = TRUE /\ r1.cut = FALSE /\ r1.to = b
    BY <2>1, <1>5, KeptFits
  <2>3. w.edit = b.known => q2.ok = TRUE /\ q2.cut = FALSE /\ q2.to = r1.to
    BY <2>1, <1>5, <1>7, KeptFits
  <2>4. CASE ~r1.ok
    BY <2>2, <2>4, <1>5, <1>8
  <2>5. CASE r1.ok /\ w.edit = b.known
    BY <2>2, <2>3, <2>5, <1>5, <1>8
  <2>6. CASE r1.ok /\ w.edit # b.known
    BY <2>2, <2>6, <1>5, <1>7, <1>8
  <2> QED
    BY <2>4, <2>5, <2>6
<1>11. /\ q3 \in Answer /\ WellFormed(q3.to) /\ SameModule(r2.to, q3.to)
       /\ q3.to.enabled = r2.to.enabled /\ q3.to.file = r2.to.file
       /\ q3.to.known = r2.to.known
       /\ w.rules = b.ran.rules => q3 = Kept(r2.to)
       /\ w.rules # b.ran.rules => /\ q3.cut /\ q3.to.addressed = q3.ok
                                   /\ q3.to.rules = w.rules
  BY <1>3, <1>4, <1>9, RuledFits
<1>12. /\ ~r2.ok => r = r2
       /\ r2.ok => r \in Answer /\ r.to = q3.to /\ r.ok = q3.ok /\ r.cut = (q3.cut \/ r2.cut)
  BY <1>2, <1>9, <1>11, ThenFits
<1> HIDE DEF q3
<1>13. r \in Answer /\ WellFormed(r.to) /\ SameModule(b, r.to)
  BY <1>9, <1>11, <1>12 DEF SameModule
<1>14. CASE ~r2.ok
  <2>1. r2.cut /\ r = r2
    BY <1>10, <1>12, <1>14
  <2> QED
    BY <2>1, <1>9, <1>10, <1>13, <1>14 DEF Applied, Settled
<1>15. CASE r2.ok /\ w.rules = b.ran.rules
  <2>1. r2.to \in Module
    BY <1>9 DEF WellFormed
  <2>2. q3.ok = TRUE /\ q3.cut = FALSE /\ q3.to = r2.to
    BY <2>1, <1>11, <1>15, KeptFits
  <2>3. r.to = r2.to /\ r.ok /\ r.cut = r2.cut
    BY <2>2, <1>9, <1>12, <1>15 DEF Answer
  <2> QED
    BY <2>3, <1>9, <1>10, <1>13, <1>15 DEF Applied, Settled
<1>16. CASE r2.ok /\ w.rules # b.ran.rules
  <2>1. r.cut /\ r.to = q3.to /\ r.ok = q3.ok
    BY <1>11, <1>12, <1>16
  <2> QED
    BY <2>1, <1>9, <1>10, <1>11, <1>13, <1>16 DEF Applied, Settled
<1> QED
  BY <1>14, <1>15, <1>16, <1>13

\* What the first start leaves configured, when nothing is wanted yet.
FirstStarted(b, lists, r) ==
  /\ Clean(r.to)
  /\ r.cut => r.to.enabled = lists
  /\ ~r.cut => ~r.ok

\* The engine gets ready or not; either way there is a proxy host afterwards
\* (start of the blocker).
LEMMA PrepareFits ==
  ASSUME NEW b, WellFormed(b), ~b.started, NEW how \in Preparations,
         NEW resets \in BOOLEAN, NEW h, h = Prepare([b EXCEPT !.started = TRUE], how, resets)
  PROVE  /\ WellFormed(h) /\ h.started /\ h.module = b.module
         /\ h.child = "none" /\ ~h.addressed /\ h.ran = b.ran /\ Clean(h)
<1> DEFINE n == [b EXCEPT !.started = TRUE]
<1>1. b \in Module
  BY DEF WellFormed
<1>2. /\ n \in Module /\ n.started /\ n.module = b.module /\ n.child = "none"
      /\ n.ran = Nothing /\ n.addressed = FALSE /\ n.serving = FALSE /\ Clean(n)
      /\ n.ran = b.ran
  BY <1>1 DEF WellFormed, Module, Clean
<1>3. h = Prepare(n, how, resets)
  OBVIOUS
<1> HIDE DEF n
<1>4. PICK prepared \in BOOLEAN, licence \in {"none", "held", "returned", "kept"} :
        h = [n EXCEPT !.prepared = prepared, !.licence = licence]
  <2>1. CASE how = "restored"
    <3>1. h = [n EXCEPT !.prepared = TRUE, !.licence = n.licence]
      BY <1>2, <1>3, <2>1 DEF Prepare, Module
    <3>2. n.licence \in {"none", "held", "returned", "kept"}
      BY <1>2 DEF Module
    <3> QED
      BY <3>1, <3>2
  <2>2. CASE how = "activated"
    <3>1. h = [n EXCEPT !.prepared = TRUE, !.licence = "held"]
      BY <1>3, <2>2 DEF Prepare
    <3> QED
      BY <3>1
  <2>3. CASE how = "unprepared"
    <3>1. h = [n EXCEPT !.prepared = n.prepared, !.licence = n.licence]
      BY <1>2, <1>3, <2>3 DEF Prepare, Module
    <3>2. n.prepared \in BOOLEAN /\ n.licence \in {"none", "held", "returned", "kept"}
      BY <1>2 DEF Module
    <3> QED
      BY <3>1, <3>2
  <2>4. CASE how = "refused"
    <3> DEFINE m == [n EXCEPT !.licence = "held"]
    <3>1. m \in Module /\ m.licence = "held" /\ m.prepared = n.prepared
      BY <1>2 DEF Module
    <3>2. h = Release(m, resets)
      BY <1>3, <2>4 DEF Prepare
    <3>3. h = [m EXCEPT !.licence = IF resets THEN "returned" ELSE "kept"]
      BY <3>1, <3>2 DEF Release
    <3>4. h = [n EXCEPT !.prepared = n.prepared,
                        !.licence = IF resets THEN "returned" ELSE "kept"]
      BY <1>2, <3>3 DEF Module
    <3>5. n.prepared \in BOOLEAN
      BY <1>2 DEF Module
    <3> QED
      BY <3>4, <3>5
  <2> QED
    BY <2>1, <2>2, <2>3, <2>4 DEF Preparations
<1>5. /\ h \in Module /\ h.started = n.started /\ h.module = n.module /\ h.child = n.child
      /\ h.ran = n.ran /\ h.addressed = n.addressed /\ h.serving = n.serving
      /\ h.rules = n.rules /\ h.file = n.file /\ h.known = n.known
  BY <1>2, <1>4 DEF Module
<1> QED
  BY <1>2, <1>5 DEF WellFormed, Clean

\* A start of a module that was started throws and changes nothing; the first
\* start launches, if at all, with what the request selects.
LEMMA StartFits ==
  ASSUME NEW b, WellFormed(b), NEW w \in Wants, NEW lists \in Selection,
         NEW o \in Outcomes, NEW how \in Preparations, NEW resets \in BOOLEAN,
         NEW r, r = Start(b, Wanted(w, lists), o, how, resets)
  PROVE  /\ b.started => r = Thrown(b)
         /\ ~b.started => /\ r \in Answer /\ WellFormed(r.to) /\ r.to.started
                          /\ r.to.module = b.module
                          /\ r.cut => r.to.addressed = r.ok
                          /\ ~r.cut => ~r.ok /\ ~r.to.addressed /\ r.to.ran = b.ran
                          /\ w = Idle => FirstStarted(b, lists, r)
<1>1. CASE b.started
  BY <1>1 DEF Start
<1>2. CASE ~b.started
  <2> DEFINE h == Prepare([b EXCEPT !.started = TRUE], how, resets)
             n == [h EXCEPT !.enabled = lists]
             first == Relaunched(n, o[1])
             second == Apply(first.to, Wanted(w, lists), o)
  <2>1. /\ Wanted(w, lists).lists = lists /\ Wanted(w, lists).edit = w.edit
        /\ Wanted(w, lists).rules = w.rules
    BY DEF Wanted
  <2>2. r = IF ~h.prepared THEN Thrown(h)
            ELSE IF w.rules = {} /\ w.edit = NoEdit THEN first ELSE Then(first, second)
    BY <1>2, <2>1 DEF Start
  <2>3. /\ WellFormed(h) /\ h.started /\ h.module = b.module
        /\ h.child = "none" /\ ~h.addressed /\ h.ran = b.ran /\ Clean(h)
    BY <1>2, PrepareFits
  <2> HIDE DEF h
  <2>4. h \in Module
    BY <2>3 DEF WellFormed
  <2>5. CASE ~h.prepared
    <3>1. r \in Answer /\ r.to = h /\ r.ok = FALSE /\ r.cut = FALSE
      BY <2>2, <2>4, <2>5, KeptFits
    <3> QED
      BY <3>1, <2>3, <1>2 DEF FirstStarted
  <2>6. CASE h.prepared
    <3>1. /\ n \in Module /\ n.started /\ n.module = b.module /\ n.enabled = lists /\ Clean(n)
      BY <2>3, <2>4 DEF Module, Clean
    <3>2. o[1] \in Launches
      BY DEF Outcomes
    <3>3. /\ WellFormed(first.to) /\ SameConfiguration(n, first.to)
          /\ first \in Answer /\ first.cut /\ first.to.addressed = first.ok
      BY <3>1, <3>2, RelaunchedFits
    <3> HIDE DEF first, n
    <3>4. /\ first.to.started /\ first.to.module = b.module /\ first.to.enabled = lists
          /\ Clean(first.to)
      BY <3>1, <3>3 DEF SameConfiguration, SameModule, Clean
    <3>5. CASE w.rules = {} /\ w.edit = NoEdit
      <4>1. r = first
        BY <2>2, <2>6, <3>5
      <4> QED
        BY <4>1, <3>3, <3>4, <1>2 DEF FirstStarted
    <3>6. CASE ~(w.rules = {} /\ w.edit = NoEdit)
      <4>1. r = Then(first, second)
        BY <2>2, <2>6, <3>6
      <4>2. w # Idle
        BY <3>6 DEF Idle
      <4>3. /\ second \in Answer /\ WellFormed(second.to) /\ SameModule(first.to, second.to)
            /\ Applied(first.to, w, lists, second)
        BY <3>3, <3>4, ApplyFits
      <4> HIDE DEF second
      <4>4. /\ ~first.ok => r = first
            /\ first.ok => /\ r \in Answer /\ r.to = second.to /\ r.ok = second.ok
                           /\ r.cut = (second.cut \/ first.cut)
        BY <4>1, <4>3, <3>3, ThenFits
      <4>5. CASE ~first.ok
        BY <4>2, <4>4, <4>5, <3>3, <3>4, <1>2
      <4>6. CASE first.ok
        <5>1. ~second.cut => second.ok /\ second.to.addressed = first.to.addressed
          <6>1. first.to \in Module
            BY <3>3 DEF WellFormed
          <6> QED
            BY <6>1, <4>3 DEF Applied, Module
        <5>2. second.cut => second.to.addressed = second.ok
          BY <4>3 DEF Applied
        <5>3. second \in Answer /\ first \in Answer
          BY <4>3, <3>3
        <5>4. r.to.addressed = r.ok /\ r.cut
          BY <5>1, <5>2, <5>3, <4>4, <4>6, <3>3, ZenonT(60) DEF Answer, Module
        <5> QED
          BY <5>4, <4>2, <4>3, <4>4, <4>6, <3>4, <1>2 DEF SameModule
      <4> QED
        BY <4>5, <4>6
    <3> QED
      BY <3>5, <3>6
  <2> QED
    BY <2>5, <2>6
<1> QED
  BY <1>1, <1>2

\* The three ways a request is served: it throws at once, it is applied to a
\* module that was started, or it starts the module (reconcile).
Declined(r) ==
  /\ r.to = blocker /\ ~r.ok /\ ~r.cut
  /\ ~(Up /\ routed = blocker.started)

Changed(w, lists, r) == Up /\ routed /\ blocker.started /\ Applied(blocker, w, lists, r)

Started(w, lists, r) ==
  /\ Up /\ ~blocker.started /\ ~blocker.addressed
  /\ ~r.cut => ~r.ok /\ ~r.to.addressed /\ r.to.ran = blocker.ran
  /\ r.cut => r.to.addressed = r.ok
  /\ w = Idle => FirstStarted(blocker, lists, r)

\* Every answer is one of them, and leaves a well-formed module.
LEMMA AnswersFit ==
  ASSUME WellFormed(blocker), routed \in BOOLEAN, NEW w \in Wants, NEW lists \in Selection,
         NEW r \in Answers(w, lists)
  PROVE  /\ r \in Answer /\ WellFormed(r.to) /\ r.to.module = blocker.module
         /\ blocker.started => r.to.started /\ r.to.licence = blocker.licence
         /\ r.ok => Up /\ r.to.started
         /\ ~r.cut => r.to.addressed = blocker.addressed /\ r.to.ran = blocker.ran
         /\ r.cut => Up /\ r.to.started /\ r.to.addressed = r.ok
         /\ ~Up => Declined(r)
         /\ Declined(r) \/ Changed(w, lists, r) \/ Started(w, lists, r)
<1>1. blocker \in Module
  BY DEF WellFormed
<1>2. /\ Thrown(blocker) \in Answer /\ Thrown(blocker).to = blocker
      /\ Thrown(blocker).ok = FALSE /\ Thrown(blocker).cut = FALSE
  BY <1>1, KeptFits
<1>3. CASE r = Thrown(blocker) /\ ~(Up /\ routed = blocker.started)
  BY <1>2, <1>3 DEF Declined
<1>4. CASE ~Up
  <2>1. r = Thrown(blocker)
    BY <1>4 DEF Answers, Up
  <2> QED
    BY <2>1, <1>3, <1>4
<1>5. CASE Up /\ routed
  <2>1. PICK o \in Outcomes : r = Apply(blocker, Wanted(w, lists), o)
    BY <1>5 DEF Answers, Up
  <2>2. CASE ~blocker.started
    <3>1. r = Thrown(blocker)
      BY <2>1, <2>2 DEF Apply
    <3> QED
      BY <3>1, <2>2, <1>3, <1>5
  <2>3. CASE blocker.started
    <3>1. /\ r \in Answer /\ WellFormed(r.to) /\ SameModule(blocker, r.to)
          /\ Applied(blocker, w, lists, r)
      BY <2>1, <2>3, ApplyFits
    <3>2. /\ ~r.cut => r.to.addressed = blocker.addressed /\ r.to.ran = blocker.ran
          /\ r.cut => r.to.addressed = r.ok
      BY <3>1, <1>1 DEF Applied, Module
    <3> QED
      BY <3>1, <3>2, <2>3, <1>5 DEF Changed, SameModule, Up
  <2> QED
    BY <2>2, <2>3
<1>6. CASE Up /\ ~routed
  <2>1. PICK o \in Outcomes, how \in Preparations, resets \in BOOLEAN :
          r = Start(blocker, Wanted(w, lists), o, how, resets)
    BY <1>6 DEF Answers, Up
  <2>2. CASE blocker.started
    <3>1. r = Thrown(blocker)
      BY <2>1, <2>2, StartFits
    <3> QED
      BY <3>1, <2>2, <1>3, <1>6
  <2>3. CASE ~blocker.started
    <3>1. ~blocker.addressed
      BY <2>3 DEF WellFormed
    <3>2. /\ r \in Answer /\ WellFormed(r.to) /\ r.to.started /\ r.to.module = blocker.module
          /\ r.cut => r.to.addressed = r.ok
          /\ ~r.cut => ~r.ok /\ ~r.to.addressed /\ r.to.ran = blocker.ran
          /\ w = Idle => FirstStarted(blocker, lists, r)
      BY <2>1, <2>3, StartFits
    <3>3. blocker.addressed = FALSE /\ r.to.addressed \in BOOLEAN
      BY <3>1, <3>2, <1>1 DEF WellFormed, Module
    <3> QED
      BY <2>3, <3>1, <3>2, <3>3, <1>6 DEF Started
  <2> QED
    BY <2>2, <2>3
<1> QED
  BY <1>4, <1>5, <1>6

\* Where a request finds nothing to do, it does nothing.
LEMMA UndisturbedFits ==
  ASSUME WellFormed(blocker), routed \in BOOLEAN, NEW w \in Wants, NEW lists \in Selection,
         NEW r \in Answers(w, lists),
         blocker.started, Up => Settled(blocker, w, lists)
  PROVE  r.to = blocker /\ ~r.cut
<1>1. blocker \in Module
  BY DEF WellFormed
<1>2. CASE Declined(r)
  BY <1>2 DEF Declined
<1>3. CASE Changed(w, lists, r)
  BY <1>1, <1>3 DEF Changed, Applied, Settled, Module
<1> QED
  BY <1>2, <1>3, AnswersFit DEF Started

\* A request that cuts no session of a started module finds it settled.
LEMMA UncutFits ==
  ASSUME WellFormed(blocker), routed, NEW w \in Wants, NEW lists \in Selection,
         NEW r \in Answers(w, lists), blocker.started, ~r.cut
  PROVE  /\ r.to.addressed = blocker.addressed /\ r.to.ran = blocker.ran
         /\ Up => Settled(r.to, w, lists)
<1>1. blocker \in Module
  BY DEF WellFormed
<1>2. r.to.addressed = blocker.addressed /\ r.to.ran = blocker.ran
  BY AnswersFit
<1>3. CASE Declined(r)
  BY <1>2, <1>3 DEF Declined
<1>4. CASE Changed(w, lists, r)
  <2>1. r.to.known = blocker.known
    BY <1>1, <1>4 DEF Changed, Applied, Module
  <2> QED
    BY <2>1, <1>2, <1>4 DEF Changed, Applied, Settled
<1> QED
  BY <1>3, <1>4, AnswersFit DEF Started

\* A request that wants nothing brings nothing of a candidate back.
LEMMA CleanStays ==
  ASSUME WellFormed(blocker), routed \in BOOLEAN, NEW lists \in Selection,
         NEW r \in Answers(Idle, lists), Clean(blocker)
  PROVE  Clean(r.to)
<1>1. Idle \in Wants
  BY DEF Idle, Wants, EditOrNone
<1>2. CASE Declined(r)
  BY <1>2 DEF Declined
<1>3. CASE Changed(Idle, lists, r)
  BY <1>3 DEF Changed, Applied, Clean, Idle
<1>4. CASE Started(Idle, lists, r)
  BY <1>4 DEF Started, FirstStarted
<1> QED
  BY <1>1, <1>2, <1>3, <1>4, AnswersFit

\* A heard request leaves the module executing what it asked for, if the file
\* and the rules were those of the process before.
LEMMA HeardExecutes ==
  ASSUME WellFormed(blocker), routed \in BOOLEAN, NEW w \in Wants, NEW lists \in Selection,
         NEW r \in Answers(w, lists), r.ok,
         blocker.file = blocker.known, blocker.ran.rules = blocker.rules,
         w # Idle => blocker.started
  PROVE  Executes(r.to, w, lists)
<1>1. blocker \in Module /\ WellFormed(r.to) /\ r.to.started
  BY AnswersFit DEF WellFormed
<1>2. CASE Changed(w, lists, r)
  <2>1. /\ r.to.enabled = lists /\ r.to.known = w.edit /\ r.to.file = w.edit
        /\ r.to.rules = w.rules
    BY <1>2 DEF Changed, Applied
  <2>2. r.to.ran.rules = w.rules
    <3>1. CASE ~r.cut
      BY <3>1, <1>1, <1>2 DEF Changed, Applied, Module
    <3>2. CASE r.cut
      <4>1. r.to.addressed
        BY <3>2, <1>2 DEF Changed, Applied
      <4>2. r.to.ran = Spawned(r.to)
        BY <4>1, <1>1 DEF WellFormed
      <4> QED
        BY <4>2, <2>1 DEF Spawned
    <3> QED
      BY <3>1, <3>2
  <2> QED
    BY <2>1, <2>2, <1>1 DEF Executes
<1>3. CASE Started(w, lists, r)
  <2>1. w = Idle /\ r.cut /\ r.to.addressed
    BY <1>3 DEF Started
  <2>2. r.to.enabled = lists /\ Clean(r.to)
    BY <2>1, <1>3 DEF Started, FirstStarted
  <2>3. r.to.ran = Spawned(r.to)
    BY <2>1, <1>1 DEF WellFormed
  <2>4. r.to.ran.rules = {}
    BY <2>2, <2>3 DEF Spawned, Clean
  <2> QED
    BY <2>1, <2>2, <2>4, <1>1 DEF Executes, Clean, Idle
<1> QED
  BY <1>2, <1>3, AnswersFit DEF Declined

\* Where nothing of a candidate is left, the rules executed are those that the
\* module remembers: none.
LEMMA CleanIsInStep ==
  ASSUME WellFormed(blocker), Clean(blocker)
  PROVE  blocker.file = blocker.known /\ blocker.ran.rules = blocker.rules
<1>1. CASE blocker.child = "none"
  BY <1>1 DEF WellFormed, Clean, Nothing
<1>2. CASE blocker.child # "none"
  BY <1>2 DEF WellFormed, Clean, Spawned
<1> QED
  BY <1>1, <1>2 DEF Clean

\* Whatever was left, a request that wants nothing contains it: what the
\* present candidate may have left is taken back or is out of use.
LEMMA TakenBackIsContained ==
  ASSUME WellFormed(blocker), routed \in BOOLEAN, NEW w \in Wants, NEW lists \in Selection,
         NEW r \in Answers(Idle, lists), Up,
         w.rules = {} \/ w.edit = NoEdit,
         w # Idle => routed /\ blocker.started,
         Contained(blocker, w, lists)
  PROVE  Contained(r.to, Idle, lists)
<1>1. Idle \in Wants /\ blocker \in Module
  BY DEF Idle, Wants, EditOrNone, WellFormed
<1> USE DEF Idle
<1>2. CASE Harmless(blocker)
  <2>1. CASE Declined(r)
    BY <2>1, <1>2 DEF Declined, Contained
  <2>2. CASE Changed(Idle, lists, r)
    BY <2>2, <1>2 DEF Changed, Applied, Contained, Harmless
  <2>3. CASE Started(Idle, lists, r)
    BY <2>3 DEF Started, FirstStarted, Clean, Contained, Harmless
  <2> QED
    BY <2>1, <2>2, <2>3, <1>1, AnswersFit
<1>3. CASE ~Harmless(blocker) /\ w = Idle
  <2>1. Leftover(blocker, lists)
    BY <1>3 DEF Contained
  <2>2. blocker.started
    BY <1>3 DEF WellFormed, Harmless
  <2>3. r.to = blocker
    BY <2>1, <2>2, <1>1, UndisturbedFits DEF Leftover
  <2> QED
    BY <2>1, <2>3 DEF Contained
<1>4. CASE ~Harmless(blocker) /\ w # Idle
  <2>1. Revocable(blocker, w, lists)
    BY <1>4 DEF Contained
  <2>2. routed /\ blocker.started
    BY <1>4
  <2>3. CASE Settled(blocker, Idle, lists)
    <3>1. r.to = blocker
      BY <2>2, <2>3, <1>1, UndisturbedFits
    <3>2. ~blocker.addressed
      <4>1. SUFFICES ASSUME blocker.addressed PROVE FALSE
        OBVIOUS
      <4>2. blocker.ran = Spawned(blocker)
        BY <4>1 DEF WellFormed
      <4>3. blocker.rules = {}
        BY <4>2, <2>3 DEF Spawned, Settled
      <4>4. blocker.known = NoEdit /\ blocker.file # NoEdit
        BY <4>3, <2>3, <1>4 DEF Settled, Harmless
      <4>5. w.rules = {} /\ w.edit = NoEdit
        BY <4>1, <4>4, <2>1 DEF Revocable
      <4> QED
        BY <4>5, <1>4 DEF Wants
    <3> QED
      BY <3>1, <3>2, <2>3 DEF Contained, Leftover
  <2>4. CASE ~Settled(blocker, Idle, lists)
    <3>1. Changed(Idle, lists, r)
      BY <2>2, <1>1, AnswersFit DEF Declined, Started
    <3>2. CASE w.rules # {}
      <4>1. blocker.file = NoEdit /\ blocker.known = NoEdit /\ blocker.enabled = lists
        BY <3>2, <2>1 DEF Revocable
      <4>2. blocker.ran.rules # {}
        BY <4>1, <2>4 DEF Settled
      <4> QED
        BY <3>1, <4>1, <4>2 DEF Changed, Applied, Contained, Harmless
    <3>3. CASE w.edit # NoEdit
      <4>1. blocker.rules = {} /\ blocker.enabled = lists
        BY <3>3, <2>1 DEF Revocable
      <4>2. blocker.ran.rules = {}
        BY <4>1 DEF WellFormed, Nothing, Spawned
      <4>3. blocker.known # NoEdit
        BY <4>1, <4>2, <2>4 DEF Settled
      <4> QED
        BY <3>1, <4>1, <4>3 DEF Changed, Applied, Contained, Harmless
    <3> QED
      BY <3>2, <3>3, <1>4 DEF Wants
  <2> QED
    BY <2>3, <2>4
<1> QED
  BY <1>2, <1>3, <1>4

\* A request for a candidate leaves what a revocation can take back.
LEMMA AskedIsRevocable ==
  ASSUME WellFormed(blocker), routed, blocker.started, Up,
         NEW w \in Wants, NEW lists \in Selection, NEW r \in Answers(w, lists),
         w # Idle, w.rules = {} \/ w.edit = NoEdit,
         Clean(blocker) \/ Revocable(blocker, w, lists)
  PROVE  Contained(r.to, w, lists)
<1>1. Changed(w, lists, r)
  BY AnswersFit DEF Declined, Started
<1>2. r.to.enabled = lists
  BY <1>1 DEF Changed, Applied
<1>3. ASSUME w.rules # {} PROVE w.edit = NoEdit /\ r.to.file = NoEdit /\ r.to.known = NoEdit
  BY <1>1, <1>3 DEF Changed, Applied, Clean, Revocable
<1>4. ASSUME w.edit # NoEdit
      PROVE  r.to.rules = {} /\ (r.to.known = NoEdit /\ r.to.file # NoEdit => ~r.to.addressed)
  <2>1. w.rules = {}
    BY <1>4
  <2>2. blocker.rules = {}
    BY <1>4 DEF Clean, Revocable
  <2>3. r.to.rules = {}
    BY <2>1, <2>2, <1>1 DEF Changed, Applied
  <2>4. CASE r.cut
    BY <2>3, <2>4, <1>1, <1>4 DEF Changed, Applied
  <2>5. CASE ~r.cut
    <3>1. r.to.known = blocker.known /\ blocker.known = w.edit
      BY <2>5, <1>1 DEF Changed, Applied, WellFormed, Module
    <3> QED
      BY <3>1, <2>3, <1>4
  <2> QED
    BY <2>4, <2>5
<1> QED
  BY <1>2, <1>3, <1>4 DEF Contained, Revocable
-----------------------------------------------------------------------------
(* Types, and how the module ends: no assumption on deadlines. *)

Entry == [by : {"phase", "browser"}, ok : BOOLEAN, restarted : BOOLEAN]

\* A session stays a session when its proxy is cut off.
LEMMA CutFits ==
  ASSUME NEW sessions \in SUBSET Session
  PROVE  /\ Cut(sessions) \in SUBSET Session
         /\ \A l \in Cut(sessions) : ~l.reaches
         /\ (\A l \in sessions : ~l.reaches) => Cut(sessions) = sessions
<1> DEFINE cut(s) == [s EXCEPT !.reaches = FALSE]
<1>1. \A s \in sessions : /\ cut(s) \in Session /\ ~cut(s).reaches
                          /\ ~s.reaches => cut(s) = s
  BY DEF Session
<1>2. Cut(sessions) = {cut(s) : s \in sessions}
  BY DEF Cut
<1> HIDE DEF cut
<1>3. Cut(sessions) \in SUBSET Session /\ \A l \in Cut(sessions) : ~l.reaches
  BY <1>1, <1>2
<1>4. ASSUME \A l \in sessions : ~l.reaches
      PROVE  Cut(sessions) = sessions
  <2>1. \A s \in sessions : cut(s) = s
    BY <1>1, <1>4
  <2> QED
    BY <2>1, <1>2
<1> QED
  BY <1>3, <1>4

\* A request adds itself to those on their way; what it leaves is well formed,
\* and it does not end the module.
LEMMA ReconcileTypes ==
  ASSUME TypeOK, WellFormed(blocker), NEW who \in {"phase", "browser"}, NEW w \in Wants,
         NEW lists \in Selection, Reconcile(who, w, lists)
  PROVE  /\ WellFormed(blocker)' /\ pending' \in Seq(Entry)
         /\ held' \subseteq Holders /\ leases' \subseteq Session
         /\ blocker'.module = blocker.module
         /\ ~Up => blocker' = blocker
<1>1. PICK r \in Answers(w, lists) :
        /\ blocker' = r.to
        /\ pending' = Append(pending, [by |-> who, ok |-> r.ok, restarted |-> r.restarted])
        /\ leases' = IF r.cut THEN Cut(leases) ELSE leases
        /\ held' = (IF r.cut THEN {} ELSE held) \cup
                   (IF r.ok /\ r.to.addressed THEN {who} ELSE {})
  BY DEF Reconcile
<1>2. routed \in BOOLEAN /\ pending \in Seq(Entry) /\ held \subseteq Holders /\ leases \subseteq Session
  BY DEF TypeOK, Entry
<1>3. r \in Answer /\ WellFormed(r.to) /\ r.to.module = blocker.module /\ (~Up => Declined(r))
  BY <1>2, AnswersFit
<1>4. [by |-> who, ok |-> r.ok, restarted |-> r.restarted] \in Entry
  BY <1>3 DEF Entry, Answer
<1>5. pending' \in Seq(Entry)
  BY <1>1, <1>2, <1>4
<1>6. Cut(leases) \in SUBSET Session
  BY <1>2, CutFits
<1>7. held' \subseteq Holders
  BY <1>1, <1>2 DEF Holders
<1> QED
  BY <1>1, <1>2, <1>3, <1>5, <1>6, <1>7 DEF Declined

\* An answer takes the oldest request off the list.
LEMMA AnsweredTypes ==
  ASSUME TypeOK, NEW who \in {"phase", "browser"}, NEW heard \in BOOLEAN,
         Answered(who, heard)
  PROVE  /\ pending' \in Seq(Entry) /\ routed' \in BOOLEAN /\ held' \subseteq Holders
         /\ held = {} => held' = {}
<1>1. pending \in Seq(Entry) /\ routed \in BOOLEAN /\ held \subseteq Holders
  BY DEF TypeOK, Entry
<1>2. pending' \in Seq(Entry)
  BY <1>1 DEF Answered
<1>3. routed' \in BOOLEAN
  BY <1>1 DEF Answered
<1>4. held' \subseteq Holders
  BY <1>1 DEF Answered, Holders
<1>5. held = {} => held' = {}
  BY DEF Answered
<1> QED
  BY <1>2, <1>3, <1>4, <1>5

\* Stopping the module leaves no process and no device held.
LEMMA StopFits ==
  ASSUME WellFormed(blocker), NEW resets \in BOOLEAN, NEW b, b = Stop(blocker, resets)
  PROVE  /\ WellFormed(b) /\ b.module = blocker.module /\ b.child = "none"
         /\ b.licence # "held" /\ b.started = blocker.started
         /\ b.enabled = blocker.enabled /\ b.rules = blocker.rules
         /\ b.file = blocker.file /\ b.known = blocker.known /\ ~b.addressed
         /\ b.ran = Nothing
<1>1. CASE ~blocker.started
  BY <1>1 DEF Stop, WellFormed
<1>2. CASE blocker.started
  <2> DEFINE t == Terminate(blocker)
  <2>1. /\ t \in Module /\ t.module = blocker.module /\ t.started /\ t.child = "none"
        /\ t.ran = Nothing /\ t.serving = FALSE /\ t.addressed = FALSE
        /\ t.enabled = blocker.enabled /\ t.rules = blocker.rules
        /\ t.file = blocker.file /\ t.known = blocker.known
    BY <1>2 DEF Terminate, WellFormed, Module, Nothing, Executed, EditOrNone
  <2>2. b = Release(t, resets)
    BY <1>2 DEF Stop
  <2> HIDE DEF t
  <2> DEFINE given == IF t.licence # "held" THEN t.licence
                      ELSE IF resets THEN "returned" ELSE "kept"
  <2>3. b = [t EXCEPT !.licence = given]
    BY <2>1, <2>2 DEF Release, Module
  <2>4. given \in {"none", "returned", "kept"}
    BY <2>1 DEF Module
  <2> HIDE DEF given
  <2>5. /\ b \in Module /\ b.module = t.module /\ b.started = t.started /\ b.child = t.child
        /\ b.ran = t.ran /\ b.serving = t.serving /\ b.addressed = t.addressed
        /\ b.enabled = t.enabled /\ b.rules = t.rules /\ b.file = t.file
        /\ b.known = t.known /\ b.licence = given
    BY <2>1, <2>3, <2>4 DEF Module
  <2>6. WellFormed(b)
    BY <2>1, <2>5 DEF WellFormed
  <2> QED
    BY <2>1, <2>4, <2>5, <2>6, <1>2 DEF WellFormed, Module
<1> QED
  BY <1>1, <1>2

\* Where a phase goes when its candidate is taken back, cannot be opened, or
\* when a revocation ends.
LEMMA PhaseMovesFit ==
  ASSUME TypeOK
  PROVE  /\ \A failed \in BOOLEAN :
              /\ TakeBack(phase, failed) \in [at : Steps, label : {"A", "B", "C"},
                   candidate : Candidates \cup {NoCandidate}, failed : BOOLEAN,
                   experiments : Nat]
              /\ Revoked(failed) => phase' \in [at : Steps, label : {"A", "B", "C"},
                   candidate : Candidates \cup {NoCandidate}, failed : BOOLEAN,
                   experiments : Nat]
         /\ Unopened \in [at : Steps, label : {"A", "B", "C"},
              candidate : Candidates \cup {NoCandidate}, failed : BOOLEAN, experiments : Nat]
  BY ZenonT(60) DEF TypeOK, TakeBack, Revoked, Unopened, Steps, Trying, Revoking

\* The run begins with a new module and nothing wanted.
LEMMA InitFits == Init => TypeOK /\ ProcessInv
<1> SUFFICES ASSUME Init PROVE TypeOK /\ ProcessInv
  OBVIOUS
<1>1. WellFormed(blocker)
  BY DEF Init, NewModule, WellFormed, Module, Nothing, Executed, EditOrNone, Selection
<1>2. ModuleEnds
  BY DEF Init, NewModule, ModuleEnds, Up
<1>3. pending \in Seq(Entry) /\ held \subseteq Holders /\ leases \subseteq Session
  BY DEF Init
<1>4. want \in Wants /\ catalog \in Selection
  BY DEF Init, Wants, EditOrNone, Selection
<1>5. /\ adapter \in [ready : BOOLEAN, limited : BOOLEAN, added : BOOLEAN, edited : BOOLEAN,
                     locked : SUBSET Lists, cleanup : {"none", "failed", "completed"}]
      /\ routed \in BOOLEAN /\ browser \in {"idle", "asking"}
      /\ stage \in {"running", "cleaning", "stopping", "over"}
  BY DEF Init
<1>6. phase \in [at : Steps, label : {"A", "B", "C"},
                candidate : Candidates \cup {NoCandidate}, failed : BOOLEAN,
                experiments : Nat]
  BY DEF Init, Steps
<1> QED
  BY <1>1, <1>2, <1>3, <1>4, <1>5, <1>6 DEF ProcessInv, TypeOK, Entry

\* Every step keeps the types, and leaves the module as a module that ended so
\* may be left.
LEMMA ProcessStays ==
  ASSUME TypeOK, ProcessInv, Next
  PROVE  TypeOK' /\ ProcessInv'
<1> USE DEF ProcessInv
<1> DEFINE T == [at : Steps, label : {"A", "B", "C"},
                 candidate : Candidates \cup {NoCandidate}, failed : BOOLEAN, experiments : Nat]
<1>1. CASE LaunchBrowser
  <2>1. want \in Wants /\ catalog \in Selection
    BY <1>1 DEF LaunchBrowser, TypeOK, Wants, EditOrNone, Selection, Candidates
  <2>2. Reconcile("browser", want, catalog)
    BY <1>1 DEF LaunchBrowser
  <2>3. /\ WellFormed(blocker)' /\ pending' \in Seq(Entry)
        /\ held' \subseteq Holders /\ leases' \subseteq Session
        /\ blocker'.module = blocker.module
        /\ ~Up => blocker' = blocker
    BY <2>1, <2>2, ReconcileTypes
  <2>4. stage' = stage
    BY <1>1 DEF LaunchBrowser
  <2>5. ModuleEnds'
    BY <2>3, <2>4 DEF ModuleEnds, Up
  <2>6. TypeOK'
    BY <2>1, <2>3, <1>1 DEF LaunchBrowser, TypeOK, Entry, Steps, Trying, Revoking,
         Candidates, Wants, EditOrNone, Selection
  <2> QED
    BY <2>3, <2>5, <2>6
<1>2. CASE BrowserAnswered
  <2>1. PICK heard \in BOOLEAN : Answered("browser", heard)
    BY <1>2 DEF BrowserAnswered
  <2>2. pending' \in Seq(Entry) /\ routed' \in BOOLEAN /\ held' \subseteq Holders
    BY <2>1, AnsweredTypes
  <2>3. phase' \in T
    BY <1>2, PhaseMovesFit DEF BrowserAnswered, TypeOK
  <2>4. ProcessInv'
    BY <1>2 DEF BrowserAnswered, ModuleEnds, Up
  <2>5. TypeOK'
    BY <2>2, <2>3, <1>2 DEF BrowserAnswered, TypeOK, Entry
  <2> QED
    BY <2>4, <2>5
<1>3. CASE CreateAdapter
  <2>1. UNCHANGED <<blocker, want, pending, held, routed, browser>>
    BY <1>3 DEF CreateAdapter, served
  <2>2. phase' \in T
    BY <1>3, PhaseMovesFit DEF CreateAdapter, TypeOK, Steps, Trying, Revoking, Proceed,
         NextLabel, Candidates
  <2>3. leases' \subseteq Session
    BY <1>3 DEF CreateAdapter, served, TypeOK, Lease, Session
  <2>4. ProcessInv'
    BY <2>1, <1>3 DEF CreateAdapter, ModuleEnds, Up
  <2>5. TypeOK'
    BY <2>1, <2>2, <2>3, <1>3 DEF CreateAdapter, TypeOK, Limited, Selection
  <2> QED
    BY <2>4, <2>5
<1>4. CASE PrepareAdapter
  <2>1. UNCHANGED <<blocker, want, pending, held, routed, browser>>
    BY <1>4 DEF PrepareAdapter, served
  <2>2. phase' \in T
    BY <1>4, PhaseMovesFit DEF PrepareAdapter, TypeOK, Steps, Trying, Revoking, Proceed,
         NextLabel, Candidates
  <2>3. leases' \subseteq Session
    BY <1>4 DEF PrepareAdapter, served, TypeOK, Lease, Session
  <2>4. ProcessInv'
    BY <2>1, <1>4 DEF PrepareAdapter, ModuleEnds, Up
  <2>5. TypeOK'
    BY <2>1, <2>2, <2>3, <1>4 DEF PrepareAdapter, TypeOK, Limited, Selection
  <2> QED
    BY <2>4, <2>5
<1>5. CASE BeginExperiment
  <2>1. UNCHANGED <<blocker, want, pending, held, routed, browser>>
    BY <1>5 DEF BeginExperiment, served
  <2>2. phase' \in T
    BY <1>5, PhaseMovesFit DEF BeginExperiment, TypeOK, Steps, Trying, Revoking, Proceed,
         NextLabel, Candidates
  <2>3. leases' \subseteq Session
    BY <1>5 DEF BeginExperiment, served, TypeOK, Lease, Session
  <2>4. ProcessInv'
    BY <2>1, <1>5 DEF BeginExperiment, ModuleEnds, Up
  <2>5. TypeOK'
    BY <2>1, <2>2, <2>3, <1>5 DEF BeginExperiment, TypeOK, Limited, Selection
  <2> QED
    BY <2>4, <2>5
<1>6. CASE OpenPhase
  <2>1. want \in Wants /\ catalog' \in Selection
    BY <1>6 DEF OpenPhase, TypeOK, Wants, EditOrNone, Selection, Candidates
  <2>2. Reconcile("phase", want, catalog')
    BY <1>6 DEF OpenPhase
  <2>3. /\ WellFormed(blocker)' /\ pending' \in Seq(Entry)
        /\ held' \subseteq Holders /\ leases' \subseteq Session
        /\ blocker'.module = blocker.module
        /\ ~Up => blocker' = blocker
    BY <2>1, <2>2, ReconcileTypes
  <2>4. stage' = stage
    BY <1>6 DEF OpenPhase
  <2>5. ModuleEnds'
    BY <2>3, <2>4 DEF ModuleEnds, Up
  <2>6. TypeOK'
    BY <2>1, <2>3, <1>6, SMTT(60) DEF OpenPhase, TypeOK, Entry, Steps, Trying, Revoking, Candidates,
         Wants, EditOrNone, Selection
  <2> QED
    BY <2>3, <2>5, <2>6
<1>7. CASE ApplyCandidate
  <2>1. want' \in Wants /\ catalog \in Selection
    BY <1>7 DEF ApplyCandidate, TypeOK, Wants, EditOrNone, Selection, Candidates
  <2>2. Reconcile("phase", want', catalog)
    BY <1>7 DEF ApplyCandidate
  <2>3. /\ WellFormed(blocker)' /\ pending' \in Seq(Entry)
        /\ held' \subseteq Holders /\ leases' \subseteq Session
        /\ blocker'.module = blocker.module
        /\ ~Up => blocker' = blocker
    BY <2>1, <2>2, ReconcileTypes
  <2>4. stage' = stage
    BY <1>7 DEF ApplyCandidate
  <2>5. ModuleEnds'
    BY <2>3, <2>4 DEF ModuleEnds, Up
  <2>6. TypeOK'
    BY <2>1, <2>3, <1>7 DEF ApplyCandidate, TypeOK, Entry, Steps, Trying, Revoking,
         Candidates, Wants, EditOrNone, Selection
  <2> QED
    BY <2>3, <2>5, <2>6
<1>8. CASE ApplyEdit
  <2>1. want' \in Wants /\ catalog \in Selection
    BY <1>8 DEF ApplyEdit, TypeOK, Wants, EditOrNone, Selection, Candidates
  <2>2. Reconcile("phase", want', catalog)
    BY <1>8 DEF ApplyEdit
  <2>3. /\ WellFormed(blocker)' /\ pending' \in Seq(Entry)
        /\ held' \subseteq Holders /\ leases' \subseteq Session
        /\ blocker'.module = blocker.module
        /\ ~Up => blocker' = blocker
    BY <2>1, <2>2, ReconcileTypes
  <2>4. stage' = stage
    BY <1>8 DEF ApplyEdit
  <2>5. ModuleEnds'
    BY <2>3, <2>4 DEF ModuleEnds, Up
  <2>6. TypeOK'
    BY <2>1, <2>3, <1>8 DEF ApplyEdit, TypeOK, Entry, Steps, Trying, Revoking, Candidates,
         Wants, EditOrNone, Selection
  <2> QED
    BY <2>3, <2>5, <2>6
<1>9. CASE EditRefused
  <2>1. UNCHANGED <<blocker, want, pending, held, routed, browser>>
    BY <1>9 DEF EditRefused, served
  <2>2. phase' \in T
    BY <1>9, PhaseMovesFit DEF EditRefused, TypeOK, Steps, Trying, Revoking, Proceed,
         NextLabel, Candidates
  <2>3. leases' \subseteq Session
    BY <1>9 DEF EditRefused, served, TypeOK, Lease, Session
  <2>4. ProcessInv'
    BY <2>1, <1>9 DEF EditRefused, ModuleEnds, Up
  <2>5. TypeOK'
    BY <2>1, <2>2, <2>3, <1>9 DEF EditRefused, TypeOK, Limited, Selection
  <2> QED
    BY <2>4, <2>5
<1>10. CASE CandidateAnswered
  <2>1. PICK heard \in BOOLEAN : Answered("phase", heard)
    BY <1>10 DEF CandidateAnswered
  <2>2. pending' \in Seq(Entry) /\ routed' \in BOOLEAN /\ held' \subseteq Holders
    BY <2>1, AnsweredTypes
  <2>3. phase' \in T
    BY <1>10, PhaseMovesFit, ZenonT(60) DEF CandidateAnswered, TypeOK, Steps, Trying
  <2>4. ProcessInv'
    BY <1>10 DEF CandidateAnswered, ModuleEnds, Up
  <2>5. TypeOK'
    BY <2>2, <2>3, <1>10 DEF CandidateAnswered, TypeOK, Entry
  <2> QED
    BY <2>4, <2>5
<1>11. CASE ReadReceipt
  <2>1. want \in Wants /\ catalog \in Selection
    BY <1>11 DEF ReadReceipt, TypeOK, Wants, EditOrNone, Selection, Candidates
  <2>2. Reconcile("phase", want, catalog)
    BY <1>11 DEF ReadReceipt
  <2>3. /\ WellFormed(blocker)' /\ pending' \in Seq(Entry)
        /\ held' \subseteq Holders /\ leases' \subseteq Session
        /\ blocker'.module = blocker.module
        /\ ~Up => blocker' = blocker
    BY <2>1, <2>2, ReconcileTypes
  <2>4. stage' = stage
    BY <1>11 DEF ReadReceipt
  <2>5. ModuleEnds'
    BY <2>3, <2>4 DEF ModuleEnds, Up
  <2>6. adapter' \in [ready : BOOLEAN, limited : BOOLEAN, added : BOOLEAN, edited : BOOLEAN,
                      locked : SUBSET Lists, cleanup : {"none", "failed", "completed"}]
    <3>1. CASE phase.candidate \in Rules
      BY <3>1, <1>11 DEF ReadReceipt, TypeOK
    <3>2. CASE phase.candidate \notin Rules
      <4>1. Target \in blocker.ran.lists
        BY <3>2, <1>11 DEF ReadReceipt, ReceiptHolds, StateLists
      <4>2. Target \in Lists
        BY <4>1 DEF WellFormed, Module, Executed
      <4> HIDE DEF Target
      <4> QED
        BY <4>2, <3>2, <1>11 DEF ReadReceipt, TypeOK
    <3> QED
      BY <3>1, <3>2
  <2>7. TypeOK'
    BY <2>1, <2>3, <2>6, <1>11 DEF ReadReceipt, TypeOK, Entry, Steps, Trying
  <2> QED
    BY <2>3, <2>5, <2>7
<1>12. CASE ReceiptRejected
  <2>1. UNCHANGED <<blocker, want, pending, held, routed, browser>>
    BY <1>12 DEF ReceiptRejected, served
  <2>2. phase' \in T
    BY <1>12, PhaseMovesFit DEF ReceiptRejected, TypeOK, Steps, Trying, Revoking, Proceed,
         NextLabel, Candidates
  <2>3. leases' \subseteq Session
    BY <1>12 DEF ReceiptRejected, served, TypeOK, Lease, Session
  <2>4. ProcessInv'
    BY <2>1, <1>12 DEF ReceiptRejected, ModuleEnds, Up
  <2>5. TypeOK'
    BY <2>1, <2>2, <2>3, <1>12, ZenonT(60) DEF ReceiptRejected, TypeOK, Limited, Selection
  <2> QED
    BY <2>4, <2>5
<1>13. CASE SessionAnswered
  <2>1. PICK heard \in BOOLEAN : Answered("phase", heard)
    BY <1>13 DEF SessionAnswered
  <2>2. pending' \in Seq(Entry) /\ routed' \in BOOLEAN /\ held' \subseteq Holders
    BY <2>1, AnsweredTypes
  <2>3. phase' \in T
    BY <1>13, PhaseMovesFit DEF SessionAnswered, TypeOK, Steps, Trying
  <2>4. ProcessInv'
    BY <1>13 DEF SessionAnswered, ModuleEnds, Up
  <2>5. TypeOK'
    BY <2>2, <2>3, <1>13 DEF SessionAnswered, TypeOK, Entry
  <2> QED
    BY <2>4, <2>5
<1>14. CASE CreateSession
  <2>1. UNCHANGED <<blocker, want, pending, held, routed, browser>>
    BY <1>14 DEF CreateSession, served
  <2>2. phase' \in T
    BY <1>14, PhaseMovesFit DEF CreateSession, TypeOK, Steps, Trying, Revoking, Proceed,
         NextLabel, Candidates
  <2>3. leases' \subseteq Session
    <3>1. Lease("route" \in held) \in Session
      BY DEF TypeOK, Lease, Session
    <3> QED
      BY <3>1, <1>14 DEF CreateSession, TypeOK
  <2>4. ProcessInv'
    BY <2>1, <1>14 DEF CreateSession, ModuleEnds, Up
  <2>5. TypeOK'
    BY <2>1, <2>2, <2>3, <1>14 DEF CreateSession, TypeOK, Limited, Selection
  <2> QED
    BY <2>4, <2>5
<1>15. CASE SessionFails
  <2>1. UNCHANGED <<blocker, want, pending, held, routed, browser>>
    BY <1>15 DEF SessionFails, served
  <2>2. phase' \in T
    BY <1>15, PhaseMovesFit DEF SessionFails, TypeOK, Steps, Trying, Revoking, Proceed,
         NextLabel, Candidates
  <2>3. leases' \subseteq Session
    BY <1>15 DEF SessionFails, served, TypeOK, Lease, Session
  <2>4. ProcessInv'
    BY <2>1, <1>15 DEF SessionFails, ModuleEnds, Up
  <2>5. TypeOK'
    BY <2>1, <2>2, <2>3, <1>15 DEF SessionFails, TypeOK, Limited, Selection
  <2> QED
    BY <2>4, <2>5
<1>16. CASE ClosePhase
  <2>1. UNCHANGED <<blocker, want, pending, held, routed, browser>>
    BY <1>16 DEF ClosePhase, served
  <2>2. phase' \in T
    <3>1. PICK observed \in BOOLEAN :
            IF phase.label = "C" THEN phase' = TakeBack(phase, ~observed)
            ELSE IF observed THEN phase' \in Proceed(phase)
            ELSE phase' = [phase EXCEPT !.at = "ended", !.failed = TRUE]
      BY <1>16 DEF ClosePhase
    <3>2. CASE phase.label = "C"
      BY <3>1, <3>2, PhaseMovesFit
    <3>3. CASE phase.label # "C"
      <4>1. phase.label \in {"A", "B"}
        BY <3>3 DEF TypeOK
      <4>2. NextLabel["A"] = "B" /\ NextLabel["B"] = "C"
        BY DEF NextLabel
      <4>3. NextLabel[phase.label] \in {"A", "B", "C"}
        BY <4>1, <4>2
      <4> QED
        BY <3>1, <3>3, <4>3, ZenonT(60) DEF TypeOK, Steps, Proceed
    <3> QED
      BY <3>2, <3>3
  <2>3. leases' \subseteq Session
    BY <1>16 DEF ClosePhase, served, TypeOK, Lease, Session
  <2>4. ProcessInv'
    BY <2>1, <1>16 DEF ClosePhase, ModuleEnds, Up
  <2>5. TypeOK'
    BY <2>1, <2>2, <2>3, <1>16, ZenonT(60) DEF ClosePhase, TypeOK, Limited, Selection
  <2> QED
    BY <2>4, <2>5
<1>17. CASE CloseFails
  <2>1. UNCHANGED <<blocker, want, pending, held, routed, browser>>
    BY <1>17 DEF CloseFails, served
  <2>2. phase' \in T
    BY <1>17, PhaseMovesFit DEF CloseFails, TypeOK, Steps, Trying, Revoking, Proceed,
         NextLabel, Candidates
  <2>3. leases' \subseteq Session
    BY <1>17 DEF CloseFails, served, TypeOK, Lease, Session
  <2>4. ProcessInv'
    BY <2>1, <1>17 DEF CloseFails, ModuleEnds, Up
  <2>5. TypeOK'
    BY <2>1, <2>2, <2>3, <1>17 DEF CloseFails, TypeOK, Limited, Selection
  <2> QED
    BY <2>4, <2>5
<1>18. CASE RevokeCandidate
  <2>1. want' \in Wants /\ catalog \in Selection
    BY <1>18 DEF RevokeCandidate, TypeOK, Wants, EditOrNone, Selection, Candidates
  <2>2. Reconcile("phase", want', catalog)
    BY <1>18 DEF RevokeCandidate
  <2>3. /\ WellFormed(blocker)' /\ pending' \in Seq(Entry)
        /\ held' \subseteq Holders /\ leases' \subseteq Session
        /\ blocker'.module = blocker.module
        /\ ~Up => blocker' = blocker
    BY <2>1, <2>2, ReconcileTypes
  <2>4. stage' = stage
    BY <1>18 DEF RevokeCandidate
  <2>5. ModuleEnds'
    BY <2>3, <2>4 DEF ModuleEnds, Up
  <2>6. TypeOK'
    BY <2>1, <2>3, <1>18, ZenonT(60) DEF RevokeCandidate, TypeOK, Entry, Steps, Trying, Revoking,
         Candidates, Wants, EditOrNone, Selection
  <2> QED
    BY <2>3, <2>5, <2>6
<1>19. CASE CandidateRevoked
  <2>1. PICK heard \in BOOLEAN : Answered("phase", heard)
    BY <1>19 DEF CandidateRevoked
  <2>2. pending' \in Seq(Entry) /\ routed' \in BOOLEAN /\ held' \subseteq Holders
    BY <2>1, AnsweredTypes
  <2>3. phase' \in T
    BY <1>19, PhaseMovesFit DEF CandidateRevoked, TypeOK
  <2>4. ProcessInv'
    BY <1>19 DEF CandidateRevoked, ModuleEnds, Up
  <2>5. TypeOK'
    BY <2>2, <2>3, <1>19 DEF CandidateRevoked, TypeOK, Entry
  <2> QED
    BY <2>4, <2>5
<1>20. CASE RevokeEdit
  <2>1. want' \in Wants /\ catalog \in Selection
    BY <1>20 DEF RevokeEdit, TypeOK, Wants, EditOrNone, Selection, Candidates
  <2>2. Reconcile("phase", want', catalog)
    BY <1>20 DEF RevokeEdit
  <2>3. /\ WellFormed(blocker)' /\ pending' \in Seq(Entry)
        /\ held' \subseteq Holders /\ leases' \subseteq Session
        /\ blocker'.module = blocker.module
        /\ ~Up => blocker' = blocker
    BY <2>1, <2>2, ReconcileTypes
  <2>4. stage' = stage
    BY <1>20 DEF RevokeEdit
  <2>5. ModuleEnds'
    BY <2>3, <2>4 DEF ModuleEnds, Up
  <2>6. TypeOK'
    BY <2>1, <2>3, <1>20, ZenonT(60) DEF RevokeEdit, TypeOK, Entry, Steps, Trying, Revoking,
         Candidates, Wants, EditOrNone, Selection
  <2> QED
    BY <2>3, <2>5, <2>6
<1>21. CASE EditRevoked
  <2>1. PICK heard \in BOOLEAN : Answered("phase", heard)
    BY <1>21 DEF EditRevoked
  <2>2. pending' \in Seq(Entry) /\ routed' \in BOOLEAN /\ held' \subseteq Holders
    BY <2>1, AnsweredTypes
  <2>3. phase' \in T
    BY <1>21, PhaseMovesFit DEF EditRevoked, TypeOK
  <2>4. ProcessInv'
    BY <1>21 DEF EditRevoked, ModuleEnds, Up
  <2>5. TypeOK'
    BY <2>2, <2>3, <1>21 DEF EditRevoked, TypeOK, Entry
  <2> QED
    BY <2>4, <2>5
<1>22. CASE NothingRestored
  <2>1. UNCHANGED <<blocker, want, pending, held, routed, browser>>
    BY <1>22 DEF NothingRestored, served
  <2>2. phase' \in T
    BY <1>22, PhaseMovesFit DEF NothingRestored, TypeOK, Steps, Trying, Revoking, Proceed,
         NextLabel, Candidates
  <2>3. leases' \subseteq Session
    BY <1>22 DEF NothingRestored, served, TypeOK, Lease, Session
  <2>4. ProcessInv'
    BY <2>1, <1>22 DEF NothingRestored, ModuleEnds, Up
  <2>5. TypeOK'
    BY <2>1, <2>2, <2>3, <1>22 DEF NothingRestored, TypeOK, Limited, Selection
  <2> QED
    BY <2>4, <2>5
<1>23. CASE NothingToRevoke
  <2>1. UNCHANGED <<blocker, want, pending, held, routed, browser>>
    BY <1>23 DEF NothingToRevoke, served
  <2>2. phase' \in T
    BY <1>23, PhaseMovesFit DEF NothingToRevoke, TypeOK, Steps, Trying, Revoking, Proceed,
         NextLabel, Candidates
  <2>3. leases' \subseteq Session
    BY <1>23 DEF NothingToRevoke, served, TypeOK, Lease, Session
  <2>4. ProcessInv'
    BY <2>1, <1>23 DEF NothingToRevoke, ModuleEnds, Up
  <2>5. TypeOK'
    BY <2>1, <2>2, <2>3, <1>23 DEF NothingToRevoke, TypeOK, Limited, Selection
  <2> QED
    BY <2>4, <2>5
<1>24. CASE EndExperiment
  <2>1. UNCHANGED <<blocker, want, pending, held, routed, browser>>
    BY <1>24 DEF EndExperiment, served
  <2>2. phase' \in T
    BY <1>24, PhaseMovesFit DEF EndExperiment, TypeOK, Steps, Trying, Revoking, Proceed,
         NextLabel, Candidates
  <2>3. leases' \subseteq Session
    BY <1>24 DEF EndExperiment, served, TypeOK, Lease, Session
  <2>4. ProcessInv'
    BY <2>1, <1>24 DEF EndExperiment, ModuleEnds, Up
  <2>5. TypeOK'
    BY <2>1, <2>2, <2>3, <1>24, ZenonT(60) DEF EndExperiment, TypeOK, Limited, Selection
  <2> QED
    BY <2>4, <2>5
<1>25. CASE Cleanup
  <2>1. UNCHANGED <<blocker, want, pending, held, routed, browser>>
    BY <1>25 DEF Cleanup, served
  <2>2. phase' \in T
    BY <1>25, PhaseMovesFit DEF Cleanup, TypeOK, Steps, Trying, Revoking, Proceed,
         NextLabel, Candidates
  <2>3. leases' \subseteq Session
    BY <1>25 DEF Cleanup, served, TypeOK, Lease, Session
  <2>4. ProcessInv'
    BY <2>1, <1>25 DEF Cleanup, ModuleEnds, Up
  <2>5. TypeOK'
    BY <2>1, <2>2, <2>3, <1>25 DEF Cleanup, TypeOK, Limited, Selection
  <2> QED
    BY <2>4, <2>5
<1>26. CASE EndCleanup
  <2>1. UNCHANGED <<blocker, want, pending, held, routed, browser>>
    BY <1>26 DEF EndCleanup, served
  <2>2. phase' \in T
    BY <1>26, PhaseMovesFit DEF EndCleanup, TypeOK, Steps, Trying, Revoking, Proceed,
         NextLabel, Candidates
  <2>3. leases' \subseteq Session
    BY <1>26 DEF EndCleanup, served, TypeOK, Lease, Session
  <2>4. ProcessInv'
    BY <2>1, <1>26 DEF EndCleanup, ModuleEnds, Up
  <2>5. TypeOK'
    BY <2>1, <2>2, <2>3, <1>26 DEF EndCleanup, TypeOK, Limited, Selection
  <2> QED
    BY <2>4, <2>5
<1>27. CASE StopRoute
  <2>1. /\ WellFormed(blocker)' /\ blocker'.module = blocker.module
        /\ ~Up => blocker' = blocker
    BY <1>27, StopFits DEF StopRoute, Up
  <2>2. leases' \subseteq Session
    BY <1>27, CutFits DEF StopRoute, TypeOK
  <2>3. stage' = "stopping"
    BY <1>27 DEF StopRoute
  <2>4. ModuleEnds'
    BY <2>1, <2>3 DEF ModuleEnds, Up
  <2>5. TypeOK'
    BY <2>2, <1>27, ZenonT(60) DEF StopRoute, TypeOK
  <2> QED
    BY <2>1, <2>4, <2>5
<1>28. CASE LaunchLate
  <2>1. want \in Wants /\ catalog \in Selection
    BY <1>28 DEF LaunchLate, TypeOK, Wants, EditOrNone, Selection, Candidates
  <2>2. Reconcile("browser", want, catalog)
    BY <1>28 DEF LaunchLate
  <2>3. /\ WellFormed(blocker)' /\ pending' \in Seq(Entry)
        /\ held' \subseteq Holders /\ leases' \subseteq Session
        /\ blocker'.module = blocker.module
        /\ ~Up => blocker' = blocker
    BY <2>1, <2>2, ReconcileTypes
  <2>4. stage' = stage
    BY <1>28 DEF LaunchLate
  <2>5. ModuleEnds'
    BY <2>3, <2>4 DEF ModuleEnds, Up
  <2>6. TypeOK'
    BY <2>1, <2>3, <1>28 DEF LaunchLate, TypeOK, Entry, Steps, Trying, Revoking,
         Candidates, Wants, EditOrNone, Selection
  <2> QED
    BY <2>3, <2>5, <2>6
<1>29. CASE ModuleExits
  <2>1. TypeOK'
    BY <1>29 DEF ModuleExits, TypeOK
  <2>2. CASE ~Up
    BY <2>1, <2>2, <1>29 DEF ModuleExits, ModuleEnds, Up
  <2>3. CASE Up
    <3>1. PICK resets \in BOOLEAN : blocker' = [Stop(blocker, resets) EXCEPT !.module = "exited"]
      BY <2>3, <1>29 DEF ModuleExits, ServeEnds, Up
    <3> DEFINE b == Stop(blocker, resets)
    <3>2. /\ WellFormed(b) /\ b.child = "none" /\ b.licence # "held"
          /\ blocker' = [b EXCEPT !.module = "exited"]
      BY <3>1, StopFits
    <3> HIDE DEF b
    <3>3. /\ blocker' \in Module /\ blocker'.module = "exited" /\ blocker'.child = "none"
          /\ blocker'.licence = b.licence /\ blocker'.ran = b.ran
          /\ blocker'.addressed = b.addressed /\ blocker'.serving = b.serving
          /\ blocker'.started = b.started /\ blocker'.rules = b.rules
          /\ blocker'.file = b.file /\ blocker'.known = b.known
      BY <3>1, <3>2 DEF WellFormed, Module
    <3>4. WellFormed(blocker')
      BY <3>2, <3>3 DEF WellFormed
    <3>5. ModuleEnds'
      BY <3>2, <3>3 DEF ModuleEnds, Up
    <3> QED
      BY <2>1, <3>4, <3>5
  <2> QED
    BY <2>2, <2>3
<1>30. CASE ProxyDies
  <2>1. TypeOK'
    BY <1>30 DEF ProxyDies, TypeOK
  <2>2. blocker \in Module /\ blocker.child = "live" /\ blocker' = [blocker EXCEPT !.child = "dead"]
    BY <1>30 DEF ProxyDies, WellFormed
  <2>3. /\ blocker' \in Module /\ blocker'.child = "dead" /\ blocker'.module = blocker.module
        /\ blocker'.licence = blocker.licence /\ blocker'.ran = blocker.ran
        /\ blocker'.addressed = blocker.addressed /\ blocker'.serving = blocker.serving
        /\ blocker'.started = blocker.started /\ blocker'.rules = blocker.rules
        /\ blocker'.file = blocker.file /\ blocker'.known = blocker.known
        /\ blocker'.enabled = blocker.enabled
    BY <2>2 DEF Module
  <2>4. WellFormed(blocker')
    BY <2>2, <2>3 DEF WellFormed, Spawned
  <2>5. ModuleEnds'
    BY <2>3, <1>30 DEF ProxyDies, ModuleEnds, Up
  <2> QED
    BY <2>1, <2>4, <2>5
<1>31. CASE ModuleDies
  <2>1. TypeOK'
    BY <1>31 DEF ModuleDies, TypeOK
  <2>2. PICK killed \in BOOLEAN : blocker' = Perish(blocker, killed)
    BY <1>31 DEF ModuleDies
  <2>3. /\ blocker' \in Module /\ blocker'.module = IF killed THEN "killed" ELSE "died"
        /\ blocker'.child = IF blocker.child = "live" /\ ~killed THEN "dead" ELSE blocker.child
        /\ blocker'.licence = blocker.licence /\ blocker'.ran = blocker.ran
        /\ blocker'.addressed = blocker.addressed /\ blocker'.serving = blocker.serving
        /\ blocker'.started = blocker.started /\ blocker'.rules = blocker.rules
        /\ blocker'.file = blocker.file /\ blocker'.known = blocker.known
        /\ blocker'.enabled = blocker.enabled
    BY <2>2 DEF Perish, WellFormed, Module
  <2>4. WellFormed(blocker')
    BY <2>3 DEF WellFormed, Spawned
  <2>5. ModuleEnds'
    BY <2>3 DEF ModuleEnds, Up
  <2> QED
    BY <2>1, <2>4, <2>5
<1> QED
  BY <1>1, <1>2, <1>3, <1>4, <1>5, <1>6, <1>7, <1>8, <1>9, <1>10, <1>11, <1>12, <1>13,
       <1>14, <1>15, <1>16, <1>17, <1>18, <1>19, <1>20, <1>21, <1>22, <1>23, <1>24, <1>25,
       <1>26, <1>27, <1>28, <1>29, <1>30, <1>31 DEF Next

\* A step that changes nothing keeps both.
LEMMA ProcessRests ==
  ASSUME TypeOK, ProcessInv, UNCHANGED vars
  PROVE  TypeOK' /\ ProcessInv'
<1>1. TypeOK'
  BY DEF TypeOK, vars
<1>2. ProcessInv'
  BY DEF ProcessInv, ModuleEnds, Up, vars
<1> QED
  BY <1>1, <1>2

\* The variables keep their types, and a process of the module was always
\* spawned with what the module remembers (BlockerProcess).
THEOREM Environment == Spec => [](TypeOK /\ ProcessInv)
<1>1. Init => TypeOK /\ ProcessInv
  BY InitFits
<1>2. TypeOK /\ ProcessInv /\ [Next]_vars => (TypeOK /\ ProcessInv)'
  BY ProcessStays, ProcessRests
<1> QED
  BY <1>1, <1>2, PTL DEF Spec

\* No proxy of the run and no licence device of a module that ended by itself
\* outlives the run, for every number of lists and candidates, whatever
\* requests are still on their way and whether or not deadlines end experiments.
THEOREM NoProxyOutlives == Spec => []NoProxyOutlivesRun
<1>1. TypeOK /\ ProcessInv => NoProxyOutlivesRun
  BY DEF ProcessInv, ModuleEnds, WellFormed, Module, Up, NoProxyOutlivesRun
<1> QED
  BY <1>1, Environment, PTL
-----------------------------------------------------------------------------
(* The control of the run, deadlines aside. *)

\* A request of the browser does not touch what the phase awaits; a request of
\* the phase is the only one it awaits.
LEMMA AskedAwaits ==
  ASSUME pending \in Seq(Entry), NEW e \in Entry, pending' = Append(pending, e)
  PROVE  /\ e.by = "browser" => Awaited' = Awaited /\ (Promised' <=> Promised)
         /\ e.by = "phase" /\ Awaited = {} =>
              (\A i, j \in Awaited' : i = j) /\ (Promised' <=> e.ok)
<1> DEFINE n == Len(pending) + 1
<1>1. /\ DOMAIN pending = 1..Len(pending) /\ DOMAIN pending' = 1..n /\ Len(pending) \in Nat
      /\ pending'[n] = e /\ \A i \in DOMAIN pending : pending'[i] = pending[i]
  OBVIOUS
<1>2. CASE e.by = "browser"
  <2>1. Awaited' = Awaited
    BY <1>1, <1>2 DEF Awaited
  <2>2. \A i \in Awaited : pending'[i] = pending[i]
    BY <1>1 DEF Awaited
  <2> QED
    BY <2>1, <2>2, <1>2 DEF Promised
<1>3. CASE e.by = "phase" /\ Awaited = {}
  <2>1. Awaited' = {n}
    BY <1>1, <1>3 DEF Awaited
  <2> QED
    BY <2>1, <1>1, <1>3 DEF Promised
<1> QED
  BY <1>2, <1>3 DEF Entry

\* What is answered to the phase is all it awaited, and is heard only if it was
\* a success; an answer to the browser leaves what the phase awaits.
LEMMA AnsweredAwaits ==
  ASSUME pending \in Seq(Entry), \A i, j \in Awaited : i = j,
         NEW who \in {"phase", "browser"}, NEW heard \in BOOLEAN, Answered(who, heard)
  PROVE  /\ \A i, j \in Awaited' : i = j
         /\ Awaited = {} => Awaited' = {}
         /\ who = "phase" => Awaited' = {} /\ Promised' /\ (heard => Promised)
         /\ who = "browser" => (Promised' <=> Promised)
<1>1. pending # <<>> /\ pending' = Tail(pending) /\ Head(pending).by = who
      /\ (heard => Head(pending).ok)
  BY DEF Answered
<1>2. /\ DOMAIN pending = 1..Len(pending) /\ Len(pending) \in Nat /\ 1 \in DOMAIN pending
      /\ Head(pending) = pending[1]
      /\ DOMAIN pending' = 1..(Len(pending) - 1)
      /\ \A i \in DOMAIN pending' : pending'[i] = pending[i + 1] /\ i + 1 \in DOMAIN pending
  BY <1>1
<1>3. \A i \in Awaited' : i \in DOMAIN pending' /\ i + 1 \in Awaited /\ pending'[i] = pending[i + 1]
  BY <1>2 DEF Awaited
<1>4. \A i, j \in Awaited' : i = j
  <2> SUFFICES ASSUME NEW i \in Awaited', NEW j \in Awaited' PROVE i = j
    OBVIOUS
  <2>1. i + 1 = j + 1
    BY <1>3
  <2>2. i \in Nat /\ j \in Nat
    BY <1>2, <1>3
  <2> QED
    BY <2>1, <2>2
<1>5. Awaited = {} => Awaited' = {}
  BY <1>3
<1>6. CASE who = "phase"
  <2>1. 1 \in Awaited
    BY <1>1, <1>2, <1>6 DEF Awaited
  <2>2. Awaited' = {}
    <3> SUFFICES ASSUME NEW i \in Awaited' PROVE FALSE
      OBVIOUS
    <3>1. i + 1 = 1 /\ i \in 1..(Len(pending) - 1)
      BY <2>1, <1>2, <1>3
    <3> QED
      BY <3>1, <1>2
  <2>3. heard => Promised
    BY <2>1, <1>1, <1>2 DEF Promised
  <2>4. Promised'
    BY <2>2 DEF Promised
  <2> QED
    BY <2>2, <2>3, <2>4, <1>4, <1>5, <1>6
<1>7. CASE who = "browser"
  <2>1. 1 \notin Awaited
    BY <1>1, <1>2, <1>7 DEF Awaited
  <2>2. \A k \in Awaited : \E i \in Awaited' : k = i + 1
    <3> SUFFICES ASSUME NEW k \in Awaited PROVE \E i \in Awaited' : k = i + 1
      OBVIOUS
    <3>1. k \in 2..Len(pending) /\ pending[k].by = "phase"
      BY <2>1, <1>2 DEF Awaited
    <3>2. k - 1 \in DOMAIN pending' /\ (k - 1) + 1 = k
      BY <3>1, <1>2
    <3>3. k - 1 \in Awaited'
      BY <3>1, <3>2, <1>2 DEF Awaited
    <3> QED
      BY <3>2, <3>3
  <2>3. Promised' => Promised
    BY <2>2, <1>3 DEF Promised
  <2>4. Promised => Promised'
    BY <1>3 DEF Promised
  <2> QED
    BY <2>3, <2>4, <1>4, <1>5, <1>7
<1> QED
  BY <1>6, <1>7

\* What a request is, for those who ask what it leaves.
LEMMA ReconcileFits ==
  ASSUME TypeOK, WellFormed(blocker), NEW who \in {"phase", "browser"}, NEW w \in Wants,
         NEW lists \in Selection, Reconcile(who, w, lists)
  PROVE  \E r \in Answers(w, lists) :
           /\ blocker' = r.to
           /\ leases' = IF r.cut THEN Cut(leases) ELSE leases
           /\ held' = (IF r.cut THEN {} ELSE held) \cup
                      (IF r.ok /\ r.to.addressed THEN {who} ELSE {})
           /\ who = "browser" => Awaited' = Awaited /\ (Promised' <=> Promised)
           /\ who = "phase" /\ Awaited = {} =>
                (\A i, j \in Awaited' : i = j) /\ (Promised' <=> r.ok)
<1>1. PICK r \in Answers(w, lists) :
        /\ blocker' = r.to
        /\ pending' = Append(pending, [by |-> who, ok |-> r.ok, restarted |-> r.restarted])
        /\ leases' = IF r.cut THEN Cut(leases) ELSE leases
        /\ held' = (IF r.cut THEN {} ELSE held) \cup
                   (IF r.ok /\ r.to.addressed THEN {who} ELSE {})
  BY DEF Reconcile
<1> DEFINE e == [by |-> who, ok |-> r.ok, restarted |-> r.restarted]
<1>2. r \in Answer /\ pending \in Seq(Entry)
  BY AnswersFit DEF TypeOK, Entry
<1>3. e \in Entry /\ e.by = who /\ e.ok = r.ok
  BY <1>2 DEF Entry, Answer
<1> HIDE DEF e
<1>4. pending' = Append(pending, e)
  BY <1>1 DEF e
<1>5. /\ e.by = "browser" => Awaited' = Awaited /\ (Promised' <=> Promised)
      /\ e.by = "phase" /\ Awaited = {} =>
           (\A i, j \in Awaited' : i = j) /\ (Promised' <=> e.ok)
  BY <1>2, <1>3, <1>4, AskedAwaits
<1> QED
  BY <1>1, <1>3, <1>5

\* The module, once started, stays started.
LEMMA StartedStays ==
  ASSUME TypeOK, ProcessInv, Next, blocker.started
  PROVE  blocker'.started
<1>1. CASE LaunchBrowser
  <2>1. want \in Wants /\ catalog \in Selection /\ Reconcile("browser", want, catalog)
    BY <1>1 DEF LaunchBrowser, TypeOK, Wants, EditOrNone, Selection, Candidates
  <2> QED
    BY <2>1, AnswersFit DEF Reconcile, ProcessInv, TypeOK
<1>2. CASE LaunchLate
  <2>1. want \in Wants /\ catalog \in Selection /\ Reconcile("browser", want, catalog)
    BY <1>2 DEF LaunchLate, TypeOK, Wants, EditOrNone, Selection, Candidates
  <2> QED
    BY <2>1, AnswersFit DEF Reconcile, ProcessInv, TypeOK
<1>3. CASE OpenPhase
  <2>1. want \in Wants /\ catalog' \in Selection /\ Reconcile("phase", want, catalog')
    BY <1>3 DEF OpenPhase, TypeOK, Wants, EditOrNone, Selection, Candidates
  <2> QED
    BY <2>1, AnswersFit DEF Reconcile, ProcessInv, TypeOK
<1>4. CASE ApplyCandidate
  <2>1. want' \in Wants /\ catalog \in Selection /\ Reconcile("phase", want', catalog)
    BY <1>4 DEF ApplyCandidate, TypeOK, Wants, EditOrNone, Selection, Candidates
  <2> QED
    BY <2>1, AnswersFit DEF Reconcile, ProcessInv, TypeOK
<1>5. CASE ApplyEdit
  <2>1. want' \in Wants /\ catalog \in Selection /\ Reconcile("phase", want', catalog)
    BY <1>5 DEF ApplyEdit, TypeOK, Wants, EditOrNone, Selection, Candidates
  <2> QED
    BY <2>1, AnswersFit DEF Reconcile, ProcessInv, TypeOK
<1>6. CASE ReadReceipt
  <2>1. want \in Wants /\ catalog \in Selection /\ Reconcile("phase", want, catalog)
    BY <1>6 DEF ReadReceipt, TypeOK, Wants, EditOrNone, Selection, Candidates
  <2> QED
    BY <2>1, AnswersFit DEF Reconcile, ProcessInv, TypeOK
<1>7. CASE RevokeCandidate
  <2>1. want' \in Wants /\ catalog \in Selection /\ Reconcile("phase", want', catalog)
    BY <1>7 DEF RevokeCandidate, TypeOK, Wants, EditOrNone, Selection, Candidates
  <2> QED
    BY <2>1, AnswersFit DEF Reconcile, ProcessInv, TypeOK
<1>8. CASE RevokeEdit
  <2>1. want' \in Wants /\ catalog \in Selection /\ Reconcile("phase", want', catalog)
    BY <1>8 DEF RevokeEdit, TypeOK, Wants, EditOrNone, Selection, Candidates
  <2> QED
    BY <2>1, AnswersFit DEF Reconcile, ProcessInv, TypeOK
<1>9. CASE StopRoute \/ ModuleExits
  <2>1. \A resets \in BOOLEAN :
          /\ Stop(blocker, resets) \in Module /\ Stop(blocker, resets).started
    BY StopFits DEF ProcessInv, WellFormed
  <2>2. \A resets \in BOOLEAN : [Stop(blocker, resets) EXCEPT !.module = "exited"].started
    BY <2>1 DEF Module
  <2> QED
    BY <2>1, <2>2, <1>9 DEF StopRoute, ModuleExits, ServeEnds
<1>10. CASE ProxyDies \/ ModuleDies
  BY <1>10 DEF ProxyDies, ModuleDies, Perish, ProcessInv, WellFormed, Module
<1>11. CASE UNCHANGED blocker
  BY <1>11
<1> QED
  BY <1>1, <1>2, <1>3, <1>4, <1>5, <1>6, <1>7, <1>8, <1>9, <1>10, <1>11
     DEF Next, BrowserAnswered, CreateAdapter, PrepareAdapter, BeginExperiment, EditRefused,
         CandidateAnswered, ReceiptRejected, SessionAnswered, CreateSession, SessionFails,
         ClosePhase, CloseFails, CandidateRevoked, EditRevoked, NothingRestored,
         NothingToRevoke, EndExperiment, Cleanup, EndCleanup, served

\* The phase awaits one answer at most, and none unless it waits.
LEMMA OneAwaitedStays ==
  ASSUME TypeOK, ProcessInv, OneAwaited, CatalogFollows, Next
  PROVE  OneAwaited'
<1>1. WellFormed(blocker) /\ pending \in Seq(Entry)
  BY DEF ProcessInv, TypeOK, Entry
<1>2. CASE LaunchBrowser
  <2>1. want \in Wants /\ catalog \in Selection /\ Reconcile("browser", want, catalog)
    BY <1>2 DEF LaunchBrowser, TypeOK, Wants, EditOrNone, Selection, Candidates
  <2>2. Awaited' = Awaited /\ phase' = phase
    BY <1>1, <1>2, <2>1, ReconcileFits DEF LaunchBrowser
  <2> QED
    BY <2>2 DEF OneAwaited
<1>3. CASE BrowserAnswered
  <2>1. PICK heard \in BOOLEAN : Answered("browser", heard)
    BY <1>3 DEF BrowserAnswered
  <2>2. /\ \A i, j \in Awaited' : i = j
        /\ Awaited = {} => Awaited' = {}
    BY <1>1, <2>1, AnsweredAwaits DEF OneAwaited
  <2> QED
    BY <2>2, <1>3 DEF OneAwaited, BrowserAnswered
<1>4. CASE CreateAdapter
  <2>1. pending' = pending /\ phase.at \notin Waiting
    BY <1>4 DEF CreateAdapter, served, Waiting, CatalogFollows
  <2> QED
    BY <2>1 DEF OneAwaited, Awaited
<1>5. CASE PrepareAdapter
  <2>1. pending' = pending /\ phase.at \notin Waiting
    BY <1>5 DEF PrepareAdapter, served, Waiting
  <2> QED
    BY <2>1 DEF OneAwaited, Awaited
<1>6. CASE BeginExperiment
  <2>1. pending' = pending /\ phase.at \notin Waiting
    BY <1>6 DEF BeginExperiment, served, Waiting
  <2> QED
    BY <2>1 DEF OneAwaited, Awaited
<1>7. CASE OpenPhase
  <2>1. want \in Wants /\ catalog' \in Selection /\ Reconcile("phase", want, catalog')
    BY <1>7 DEF OpenPhase, TypeOK, Wants, EditOrNone, Selection, Candidates
  <2>2. phase.at \notin Waiting /\ phase'.at \in Waiting
    BY <1>7 DEF OpenPhase, TypeOK, Waiting
  <2>3. \A i, j \in Awaited' : i = j
    BY <1>1, <2>1, <2>2, ReconcileFits DEF OneAwaited
  <2> QED
    BY <2>2, <2>3 DEF OneAwaited
<1>8. CASE ApplyCandidate
  <2>1. want' \in Wants /\ catalog \in Selection /\ Reconcile("phase", want', catalog)
    BY <1>8 DEF ApplyCandidate, TypeOK, Wants, EditOrNone, Selection, Candidates
  <2>2. phase.at \notin Waiting /\ phase'.at \in Waiting
    BY <1>8 DEF ApplyCandidate, TypeOK, Waiting
  <2>3. \A i, j \in Awaited' : i = j
    BY <1>1, <2>1, <2>2, ReconcileFits DEF OneAwaited
  <2> QED
    BY <2>2, <2>3 DEF OneAwaited
<1>9. CASE ApplyEdit
  <2>1. want' \in Wants /\ catalog \in Selection /\ Reconcile("phase", want', catalog)
    BY <1>9 DEF ApplyEdit, TypeOK, Wants, EditOrNone, Selection, Candidates
  <2>2. phase.at \notin Waiting /\ phase'.at \in Waiting
    BY <1>9 DEF ApplyEdit, TypeOK, Waiting
  <2>3. \A i, j \in Awaited' : i = j
    BY <1>1, <2>1, <2>2, ReconcileFits DEF OneAwaited
  <2> QED
    BY <2>2, <2>3 DEF OneAwaited
<1>10. CASE EditRefused
  <2>1. pending' = pending /\ phase.at \notin Waiting
    BY <1>10 DEF EditRefused, served, Waiting
  <2> QED
    BY <2>1 DEF OneAwaited, Awaited
<1>11. CASE CandidateAnswered
  <2>1. PICK heard \in BOOLEAN : Answered("phase", heard)
    BY <1>11 DEF CandidateAnswered
  <2>2. /\ \A i, j \in Awaited' : i = j
        /\ Awaited = {} => Awaited' = {}
        /\ Awaited' = {}
    BY <1>1, <2>1, AnsweredAwaits DEF OneAwaited
  <2> QED
    BY <2>2, <1>11 DEF OneAwaited
<1>12. CASE ReadReceipt
  <2>1. want \in Wants /\ catalog \in Selection /\ Reconcile("phase", want, catalog)
    BY <1>12 DEF ReadReceipt, TypeOK, Wants, EditOrNone, Selection, Candidates
  <2>2. phase.at \notin Waiting /\ phase'.at \in Waiting
    BY <1>12 DEF ReadReceipt, TypeOK, Waiting
  <2>3. \A i, j \in Awaited' : i = j
    BY <1>1, <2>1, <2>2, ReconcileFits DEF OneAwaited
  <2> QED
    BY <2>2, <2>3 DEF OneAwaited
<1>13. CASE ReceiptRejected
  <2>1. pending' = pending /\ phase.at \notin Waiting
    BY <1>13 DEF ReceiptRejected, served, Waiting
  <2> QED
    BY <2>1 DEF OneAwaited, Awaited
<1>14. CASE SessionAnswered
  <2>1. PICK heard \in BOOLEAN : Answered("phase", heard)
    BY <1>14 DEF SessionAnswered
  <2>2. /\ \A i, j \in Awaited' : i = j
        /\ Awaited = {} => Awaited' = {}
        /\ Awaited' = {}
    BY <1>1, <2>1, AnsweredAwaits DEF OneAwaited
  <2> QED
    BY <2>2, <1>14 DEF OneAwaited
<1>15. CASE CreateSession
  <2>1. pending' = pending /\ phase.at \notin Waiting
    BY <1>15 DEF CreateSession, served, Waiting
  <2> QED
    BY <2>1 DEF OneAwaited, Awaited
<1>16. CASE SessionFails
  <2>1. pending' = pending /\ phase.at \notin Waiting
    BY <1>16 DEF SessionFails, served, Waiting
  <2> QED
    BY <2>1 DEF OneAwaited, Awaited
<1>17. CASE ClosePhase
  <2>1. pending' = pending /\ phase.at \notin Waiting
    BY <1>17 DEF ClosePhase, served, Waiting
  <2> QED
    BY <2>1 DEF OneAwaited, Awaited
<1>18. CASE CloseFails
  <2>1. pending' = pending /\ phase.at \notin Waiting
    BY <1>18 DEF CloseFails, served, Waiting
  <2> QED
    BY <2>1 DEF OneAwaited, Awaited
<1>19. CASE RevokeCandidate
  <2>1. want' \in Wants /\ catalog \in Selection /\ Reconcile("phase", want', catalog)
    BY <1>19 DEF RevokeCandidate, TypeOK, Wants, EditOrNone, Selection, Candidates
  <2>2. phase.at \notin Waiting /\ phase'.at \in Waiting
    BY <1>19 DEF RevokeCandidate, TypeOK, Waiting
  <2>3. \A i, j \in Awaited' : i = j
    BY <1>1, <2>1, <2>2, ReconcileFits DEF OneAwaited
  <2> QED
    BY <2>2, <2>3 DEF OneAwaited
<1>20. CASE CandidateRevoked
  <2>1. PICK heard \in BOOLEAN : Answered("phase", heard)
    BY <1>20 DEF CandidateRevoked
  <2>2. /\ \A i, j \in Awaited' : i = j
        /\ Awaited = {} => Awaited' = {}
        /\ Awaited' = {}
    BY <1>1, <2>1, AnsweredAwaits DEF OneAwaited
  <2> QED
    BY <2>2, <1>20 DEF OneAwaited
<1>21. CASE RevokeEdit
  <2>1. want' \in Wants /\ catalog \in Selection /\ Reconcile("phase", want', catalog)
    BY <1>21 DEF RevokeEdit, TypeOK, Wants, EditOrNone, Selection, Candidates
  <2>2. phase.at \notin Waiting /\ phase'.at \in Waiting
    BY <1>21 DEF RevokeEdit, TypeOK, Waiting
  <2>3. \A i, j \in Awaited' : i = j
    BY <1>1, <2>1, <2>2, ReconcileFits DEF OneAwaited
  <2> QED
    BY <2>2, <2>3 DEF OneAwaited
<1>22. CASE EditRevoked
  <2>1. PICK heard \in BOOLEAN : Answered("phase", heard)
    BY <1>22 DEF EditRevoked
  <2>2. /\ \A i, j \in Awaited' : i = j
        /\ Awaited = {} => Awaited' = {}
        /\ Awaited' = {}
    BY <1>1, <2>1, AnsweredAwaits DEF OneAwaited
  <2> QED
    BY <2>2, <1>22 DEF OneAwaited
<1>23. CASE NothingRestored
  <2>1. pending' = pending /\ phase.at \notin Waiting
    BY <1>23 DEF NothingRestored, served, Waiting
  <2> QED
    BY <2>1 DEF OneAwaited, Awaited
<1>24. CASE NothingToRevoke
  <2>1. pending' = pending /\ phase.at \notin Waiting
    BY <1>24 DEF NothingToRevoke, served, Waiting
  <2> QED
    BY <2>1 DEF OneAwaited, Awaited
<1>25. CASE EndExperiment
  <2>1. pending' = pending /\ phase.at \notin Waiting
    BY <1>25 DEF EndExperiment, served, Waiting
  <2> QED
    BY <2>1 DEF OneAwaited, Awaited
<1>26. CASE Cleanup
  <2>1. pending' = pending /\ phase.at \notin Waiting
    BY <1>26 DEF Cleanup, served, Waiting
  <2> QED
    BY <2>1 DEF OneAwaited, Awaited
<1>27. CASE EndCleanup
  <2>1. pending' = pending /\ phase.at \notin Waiting
    BY <1>27 DEF EndCleanup, served, Waiting
  <2> QED
    BY <2>1 DEF OneAwaited, Awaited
<1>28. CASE StopRoute
  <2>1. pending' = pending /\ phase' = phase
    BY <1>28 DEF StopRoute
  <2> QED
    BY <2>1 DEF OneAwaited, Awaited
<1>29. CASE LaunchLate
  <2>1. want \in Wants /\ catalog \in Selection /\ Reconcile("browser", want, catalog)
    BY <1>29 DEF LaunchLate, TypeOK, Wants, EditOrNone, Selection, Candidates
  <2>2. Awaited' = Awaited /\ phase' = phase
    BY <1>1, <1>29, <2>1, ReconcileFits DEF LaunchLate
  <2> QED
    BY <2>2 DEF OneAwaited
<1>30. CASE ModuleExits
  <2>1. pending' = pending /\ phase' = phase
    BY <1>30 DEF ModuleExits
  <2> QED
    BY <2>1 DEF OneAwaited, Awaited
<1>31. CASE ProxyDies
  <2>1. pending' = pending /\ phase' = phase
    BY <1>31 DEF ProxyDies
  <2> QED
    BY <2>1 DEF OneAwaited, Awaited
<1>32. CASE ModuleDies
  <2>1. pending' = pending /\ phase' = phase
    BY <1>32 DEF ModuleDies
  <2> QED
    BY <2>1 DEF OneAwaited, Awaited
<1> QED
  BY <1>2, <1>3, <1>4, <1>5, <1>6, <1>7, <1>8, <1>9, <1>10, <1>11, <1>12, <1>13, <1>14,
       <1>15, <1>16, <1>17, <1>18, <1>19, <1>20, <1>21, <1>22, <1>23, <1>24, <1>25, <1>26,
       <1>27, <1>28, <1>29, <1>30, <1>31, <1>32 DEF Next

\* The stages follow one another, and a limited adapter begins nothing.
LEMMA ProgressStays ==
  ASSUME TypeOK, ProcessInv, Progress, CatalogFollows, ~Deadlines, Next
  PROVE  Progress'
<1>1. CASE LaunchBrowser
  BY <1>1 DEF LaunchBrowser, Progress, CatalogFollows, TypeOK, Steps, Trying, Revoking
<1>2. CASE BrowserAnswered
  BY <1>2 DEF BrowserAnswered, Progress, CatalogFollows, TypeOK, Steps, Trying, Revoking
<1>3. CASE CreateAdapter
  BY <1>3 DEF CreateAdapter, Progress, CatalogFollows, TypeOK, Steps, Trying, Revoking
<1>4. CASE PrepareAdapter
  BY <1>4 DEF PrepareAdapter, Limited, Progress, CatalogFollows, TypeOK, Steps, Trying,
       Revoking
<1>5. CASE BeginExperiment
  BY <1>5 DEF BeginExperiment, Progress, CatalogFollows, TypeOK, Steps, Trying, Revoking
<1>6. CASE OpenPhase
  BY <1>6 DEF OpenPhase, Progress, CatalogFollows, TypeOK, Steps, Trying, Revoking
<1>7. CASE ApplyCandidate
  BY <1>7 DEF ApplyCandidate, Progress, CatalogFollows, TypeOK, Steps, Trying, Revoking
<1>8. CASE ApplyEdit
  BY <1>8 DEF ApplyEdit, Progress, CatalogFollows, TypeOK, Steps, Trying, Revoking
<1>9. CASE EditRefused
  BY <1>9 DEF EditRefused, TakeBack, Candidates, Progress, CatalogFollows, TypeOK, Steps,
       Trying, Revoking
<1>10. CASE CandidateAnswered
  BY <1>10 DEF CandidateAnswered, TakeBack, Progress, CatalogFollows, TypeOK, Steps,
       Trying, Revoking
<1>11. CASE ReadReceipt
  BY <1>11 DEF ReadReceipt, Progress, CatalogFollows, TypeOK, Steps, Trying, Revoking
<1>12. CASE ReceiptRejected
  BY <1>12 DEF ReceiptRejected, TakeBack, Progress, CatalogFollows, TypeOK, Steps, Trying,
       Revoking
<1>13. CASE SessionAnswered
  BY <1>13 DEF SessionAnswered, Unopened, TakeBack, Progress, CatalogFollows, TypeOK,
       Steps, Trying, Revoking
<1>14. CASE CreateSession
  BY <1>14 DEF CreateSession, Progress, CatalogFollows, TypeOK, Steps, Trying, Revoking
<1>15. CASE SessionFails
  BY <1>15 DEF SessionFails, Unopened, TakeBack, Progress, CatalogFollows, TypeOK, Steps,
       Trying, Revoking
<1>16. CASE ClosePhase
  <2>1. PICK observed \in BOOLEAN :
          IF phase.label = "C" THEN phase' = TakeBack(phase, ~observed)
          ELSE IF observed THEN phase' \in Proceed(phase)
          ELSE phase' = [phase EXCEPT !.at = "ended", !.failed = TRUE]
    BY <1>16 DEF ClosePhase
  <2>2. phase.at = "observing" /\ UNCHANGED <<want, catalog, routed, adapter, stage, blocker>>
    BY <1>16 DEF ClosePhase
  <2>3. stage = "running" /\ ~adapter.limited /\ adapter.cleanup # "completed"
    BY <2>2 DEF Progress, TypeOK, Trying, Revoking
  <2>4. CASE phase.label = "C"
    <3>1. phase'.at \in {"revokeRule", "revokeEdit"}
      BY <2>1, <2>4 DEF TakeBack, TypeOK
    <3> QED
      BY <2>1, <2>2, <2>4, <2>3, <3>1 DEF TakeBack, Progress, CatalogFollows, TypeOK,
           Steps, Trying, Revoking
  <2>5. CASE phase.label # "C" /\ ~observed
    <3>1. phase' = [phase EXCEPT !.at = "ended", !.failed = TRUE]
      BY <2>1, <2>5
    <3> QED
      BY <3>1, <2>2, <2>3 DEF Progress, CatalogFollows, TypeOK, Steps, Trying, Revoking
  <2>6. CASE phase.label # "C" /\ observed /\ phase' = [phase EXCEPT !.at = "ended"]
    BY <2>2, <2>6 DEF Progress, CatalogFollows, TypeOK, Steps, Trying, Revoking
  <2>7. CASE phase.label # "C" /\ observed /\ phase' # [phase EXCEPT !.at = "ended"]
    <3>1. phase' = [phase EXCEPT !.at = "next", !.label = NextLabel[phase.label]]
      BY <2>1, <2>7 DEF Proceed
    <3>2. NextLabel["A"] = "B" /\ NextLabel["B"] = "C" /\ phase.label \in {"A", "B"}
      BY <2>7 DEF NextLabel, TypeOK
    <3> QED
      BY <3>1, <3>2, <2>2 DEF Progress, CatalogFollows, TypeOK, Steps, Trying, Revoking
  <2> QED
    BY <2>1, <2>4, <2>5, <2>6, <2>7
<1>17. CASE CloseFails
  BY <1>17 DEF CloseFails, Progress, CatalogFollows, TypeOK, Steps, Trying, Revoking
<1>18. CASE RevokeCandidate
  BY <1>18 DEF RevokeCandidate, Progress, CatalogFollows, TypeOK, Steps, Trying, Revoking
<1>19. CASE CandidateRevoked
  BY <1>19 DEF CandidateRevoked, Revoked, Progress, CatalogFollows, TypeOK, Steps, Trying,
       Revoking
<1>20. CASE RevokeEdit
  BY <1>20 DEF RevokeEdit, Progress, CatalogFollows, TypeOK, Steps, Trying, Revoking
<1>21. CASE EditRevoked
  BY <1>21 DEF EditRevoked, Revoked, Progress, CatalogFollows, TypeOK, Steps, Trying,
       Revoking
<1>22. CASE NothingRestored
  BY <1>22 DEF NothingRestored, Revoked, Progress, CatalogFollows, TypeOK, Steps, Trying,
       Revoking
<1>23. CASE NothingToRevoke
  BY <1>23 DEF NothingToRevoke, Revoked, Progress, CatalogFollows, TypeOK, Steps, Trying,
       Revoking
<1>24. CASE EndExperiment
  BY <1>24 DEF EndExperiment, Limited, Progress, CatalogFollows, TypeOK, Steps, Trying,
       Revoking
<1>25. CASE Cleanup
  BY <1>25 DEF Cleanup, Progress, CatalogFollows, TypeOK, Steps, Trying, Revoking
<1>26. CASE EndCleanup
  BY <1>26 DEF EndCleanup, Progress, CatalogFollows, TypeOK, Steps, Trying, Revoking
<1>27. CASE StopRoute
  BY <1>27 DEF StopRoute, Progress, CatalogFollows, TypeOK, Steps, Trying, Revoking
<1>28. CASE LaunchLate
  BY <1>28 DEF LaunchLate, Progress, CatalogFollows, TypeOK, Steps, Trying, Revoking
<1>29. CASE ModuleExits
  BY <1>29 DEF ModuleExits, Progress, CatalogFollows, TypeOK, Steps, Trying, Revoking
<1>30. CASE ProxyDies
  BY <1>30 DEF ProxyDies, Progress, CatalogFollows, TypeOK, Steps, Trying, Revoking
<1>31. CASE ModuleDies
  BY <1>31 DEF ModuleDies, Progress, CatalogFollows, TypeOK, Steps, Trying, Revoking
<1> QED
  BY <1>1, <1>2, <1>3, <1>4, <1>5, <1>6, <1>7, <1>8, <1>9, <1>10, <1>11, <1>12, <1>13,
       <1>14, <1>15, <1>16, <1>17, <1>18, <1>19, <1>20, <1>21, <1>22, <1>23, <1>24, <1>25,
       <1>26, <1>27, <1>28, <1>29, <1>30, <1>31 DEF Next

\* What is tried is wanted, and only a running experiment tries.
LEMMA TriedIsAsked ==
  ASSUME TypeOK, WantFollows, Progress, phase.at \in Trying \cup {"next"}
  PROVE  /\ stage = "running" /\ ~adapter.limited /\ ~phase.failed
         /\ phase.candidate \in Rules => want.edit = NoEdit
         /\ phase.candidate \notin Rules => want.rules = {}
         /\ phase.label # "C" \/ phase.at = "next" => want = Idle
<1>1. stage = "running" /\ ~adapter.limited /\ ~phase.failed
  BY DEF Progress, TypeOK, Trying, Revoking
<1>2. want = Idle \/ want = Asked(phase.candidate)
  BY <1>1 DEF WantFollows
<1>3. phase.candidate \in Rules => want.edit = NoEdit
  BY <1>2, EnvironmentAssumption DEF Idle, Asked
<1>4. phase.candidate \notin Rules => want.rules = {}
  BY <1>2 DEF Idle, Asked
<1>5. phase.label # "C" \/ phase.at = "next" => want = Idle
  BY <1>1 DEF WantFollows, Trying
<1> QED
  BY <1>1, <1>3, <1>4, <1>5

\* What the route wants is what the adapter has asked for and not taken back.
LEMMA WantFollowsStays ==
  ASSUME TypeOK, ProcessInv, WantFollows, Progress, RouteFollows, CatalogFollows, ~Deadlines, Next
  PROVE  WantFollows'
<1>1. blocker.started => blocker'.started
  BY StartedStays
<1>2. want = Idle <=> want.rules = {} /\ want.edit = NoEdit
  BY DEF TypeOK, Wants, Idle
<1>3. want' = Idle <=> want'.rules = {} /\ want'.edit = NoEdit
  <2>1. want' \in Wants
    BY ProcessStays DEF TypeOK
  <2> QED
    BY <2>1 DEF Wants, Idle
<1>4. phase.at \in Trying \cup {"next"} =>
         /\ stage = "running" /\ ~adapter.limited /\ ~phase.failed
         /\ phase.candidate \in Rules => want.edit = NoEdit
         /\ phase.candidate \notin Rules => want.rules = {}
         /\ phase.label # "C" \/ phase.at = "next" => want = Idle
  BY TriedIsAsked
<1>5. CASE LaunchBrowser
  BY <1>5, <1>1, <1>2, <1>3, <1>4 DEF LaunchBrowser, WantFollows, RouteFollows, Progress,
       TypeOK, Steps, Trying, Revoking, CatalogFollows
<1>6. CASE BrowserAnswered
  BY <1>6, <1>1, <1>2, <1>3, <1>4 DEF BrowserAnswered, Answered, WantFollows,
       RouteFollows, Progress, TypeOK, Steps, Trying, Revoking, CatalogFollows
<1>7. CASE CreateAdapter
  BY <1>7, <1>1, <1>2, <1>3, <1>4 DEF CreateAdapter, WantFollows, RouteFollows, Progress,
       TypeOK, Steps, Trying, Revoking, CatalogFollows
<1>8. CASE PrepareAdapter
  BY <1>8, <1>1, <1>2, <1>3, <1>4 DEF PrepareAdapter, Limited, WantFollows, RouteFollows,
       Progress, TypeOK, Steps, Trying, Revoking, CatalogFollows
<1>9. CASE BeginExperiment
  BY <1>9, <1>1, <1>2, <1>3, <1>4 DEF BeginExperiment, WantFollows, RouteFollows,
       Progress, TypeOK, Steps, Trying, Revoking, CatalogFollows
<1>10. CASE OpenPhase
  BY <1>10, <1>1, <1>2, <1>3, <1>4 DEF OpenPhase, WantFollows, RouteFollows, Progress,
       TypeOK, Steps, Trying, Revoking, CatalogFollows
<1>11. CASE ApplyCandidate
  <2>1. /\ phase.at = "next" /\ phase.label = "C" /\ phase.candidate \in Rules
        /\ want' = [want EXCEPT !.rules = {phase.candidate}]
        /\ adapter' = [adapter EXCEPT !.added = TRUE]
        /\ phase' = [phase EXCEPT !.at = "applying"]
        /\ routed' = routed /\ stage' = stage
    BY <1>11, <1>1, <1>2, <1>3, <1>4 DEF ApplyCandidate
  <2>2. want = Idle /\ routed /\ blocker'.started /\ stage = "running"
    BY <2>1, <1>1, <1>4 DEF RouteFollows
  <2>3. want' = Asked(phase.candidate) /\ want'.edit = NoEdit
    BY <2>1, <2>2, EnvironmentAssumption DEF Idle, Asked
  <2> QED
    BY <2>1, <2>2, <2>3 DEF WantFollows, TypeOK, Trying
<1>12. CASE ApplyEdit
  <2>1. /\ phase.at = "next" /\ phase.label = "C" /\ phase.candidate \in Edits
        /\ want' = [want EXCEPT !.edit = phase.candidate]
        /\ adapter' = [adapter EXCEPT !.edited = TRUE]
        /\ phase' = [phase EXCEPT !.at = "applying"]
        /\ routed' = routed /\ stage' = stage
    BY <1>12, <1>1, <1>2, <1>3, <1>4 DEF ApplyEdit
  <2>2. want = Idle /\ routed /\ blocker'.started /\ stage = "running"
    BY <2>1, <1>1, <1>4 DEF RouteFollows
  <2>3. want' = Asked(phase.candidate) /\ want'.rules = {}
    BY <2>1, <2>2, EnvironmentAssumption DEF Idle, Asked
  <2> QED
    BY <2>1, <2>2, <2>3 DEF WantFollows, TypeOK, Trying
<1>13. CASE EditRefused
  BY <1>13, <1>1, <1>2, <1>3, <1>4 DEF EditRefused, TakeBack, Candidates, WantFollows,
       RouteFollows, Progress, TypeOK, Steps, Trying, Revoking, CatalogFollows
<1>14. CASE CandidateAnswered
  BY <1>14, <1>1, <1>2, <1>3, <1>4 DEF CandidateAnswered, Answered, TakeBack, WantFollows,
       RouteFollows, Progress, TypeOK, Steps, Trying, Revoking, CatalogFollows
<1>15. CASE ReadReceipt
  BY <1>15, <1>1, <1>2, <1>3, <1>4 DEF ReadReceipt, WantFollows, RouteFollows, Progress,
       TypeOK, Steps, Trying, Revoking, CatalogFollows
<1>16. CASE ReceiptRejected
  BY <1>16, <1>1, <1>2, <1>3, <1>4 DEF ReceiptRejected, TakeBack, WantFollows,
       RouteFollows, Progress, TypeOK, Steps, Trying, Revoking, CatalogFollows
<1>17. CASE SessionAnswered
  BY <1>17, <1>1, <1>2, <1>3, <1>4 DEF SessionAnswered, Answered, Unopened, TakeBack,
       WantFollows, RouteFollows, Progress, TypeOK, Steps, Trying, Revoking,
       CatalogFollows
<1>18. CASE CreateSession
  BY <1>18, <1>1, <1>2, <1>3, <1>4 DEF CreateSession, WantFollows, RouteFollows, Progress,
       TypeOK, Steps, Trying, Revoking, CatalogFollows
<1>19. CASE SessionFails
  BY <1>19, <1>1, <1>2, <1>3, <1>4 DEF SessionFails, Unopened, TakeBack, WantFollows,
       RouteFollows, Progress, TypeOK, Steps, Trying, Revoking, CatalogFollows
<1>20. CASE ClosePhase
  <2>1. PICK observed \in BOOLEAN :
          IF phase.label = "C" THEN phase' = TakeBack(phase, ~observed)
          ELSE IF observed THEN phase' \in Proceed(phase)
          ELSE phase' = [phase EXCEPT !.at = "ended", !.failed = TRUE]
    BY <1>20, <1>1, <1>2, <1>3, <1>4 DEF ClosePhase
  <2>2. phase.at = "observing" /\ UNCHANGED <<want, catalog, routed, adapter, stage, blocker>>
    BY <1>20, <1>1, <1>2, <1>3, <1>4 DEF ClosePhase
  <2>3. stage = "running" /\ ~adapter.limited /\ adapter.cleanup # "completed"
    BY <2>2 DEF Progress, TypeOK, Trying, Revoking
  <2>4. /\ want.rules = {} \/ want.edit = NoEdit
        /\ want.rules # {} => adapter.added
        /\ want.edit # NoEdit => adapter.edited
        /\ want # Idle => routed /\ blocker'.started
    BY <1>1, <1>1, <1>2, <1>3, <1>4 DEF WantFollows
  <2>5. CASE phase.label = "C"
    <3>1. phase'.at \in {"revokeRule", "revokeEdit"}
      BY <2>1, <2>5 DEF TakeBack, TypeOK
    <3> QED
      BY <2>1, <2>2, <2>5, <2>3, <2>4, <3>1, <1>2, <1>4 DEF TakeBack, WantFollows, TypeOK,
           Trying
  <2>6. CASE phase.label # "C" /\ ~observed
    <3>1. phase' = [phase EXCEPT !.at = "ended", !.failed = TRUE]
      BY <2>1, <2>6
    <3> QED
      BY <3>1, <2>2, <2>3, <2>4, <1>2, <1>4 DEF WantFollows, TypeOK, Trying
  <2>7. CASE phase.label # "C" /\ observed /\ phase' = [phase EXCEPT !.at = "ended"]
    BY <2>2, <2>7, <2>3, <2>4, <1>2, <1>4 DEF WantFollows, TypeOK, Trying
  <2>8. CASE phase.label # "C" /\ observed /\ phase' # [phase EXCEPT !.at = "ended"]
    <3>1. phase' = [phase EXCEPT !.at = "next", !.label = NextLabel[phase.label]]
      BY <2>1, <2>8 DEF Proceed
    <3>2. NextLabel["A"] = "B" /\ NextLabel["B"] = "C" /\ phase.label \in {"A", "B"}
      BY <2>8 DEF NextLabel, TypeOK
    <3> QED
      BY <3>1, <3>2, <2>2, <2>8, <2>3, <2>4, <1>2, <1>4 DEF WantFollows, TypeOK, Trying
  <2> QED
    BY <2>1, <2>5, <2>6, <2>7, <2>8
<1>21. CASE CloseFails
  BY <1>21, <1>1, <1>2, <1>3, <1>4 DEF CloseFails, WantFollows, RouteFollows, Progress,
       TypeOK, Steps, Trying, Revoking, CatalogFollows
<1>22. CASE RevokeCandidate
  BY <1>22, <1>1, <1>2, <1>3, <1>4 DEF RevokeCandidate, WantFollows, RouteFollows,
       Progress, TypeOK, Steps, Trying, Revoking, CatalogFollows
<1>23. CASE CandidateRevoked
  BY <1>23, <1>1, <1>2, <1>3, <1>4 DEF CandidateRevoked, Answered, Revoked, WantFollows,
       RouteFollows, Progress, TypeOK, Steps, Trying, Revoking, CatalogFollows
<1>24. CASE RevokeEdit
  BY <1>24, <1>1, <1>2, <1>3, <1>4 DEF RevokeEdit, WantFollows, RouteFollows, Progress,
       TypeOK, Steps, Trying, Revoking, CatalogFollows
<1>25. CASE EditRevoked
  BY <1>25, <1>1, <1>2, <1>3, <1>4 DEF EditRevoked, Answered, Revoked, WantFollows,
       RouteFollows, Progress, TypeOK, Steps, Trying, Revoking, CatalogFollows
<1>26. CASE NothingRestored
  BY <1>26, <1>1, <1>2, <1>3, <1>4 DEF NothingRestored, Revoked, WantFollows,
       RouteFollows, Progress, TypeOK, Steps, Trying, Revoking, CatalogFollows
<1>27. CASE NothingToRevoke
  BY <1>27, <1>1, <1>2, <1>3, <1>4 DEF NothingToRevoke, Revoked, WantFollows,
       RouteFollows, Progress, TypeOK, Steps, Trying, Revoking, CatalogFollows
<1>28. CASE EndExperiment
  BY <1>28, <1>1, <1>2, <1>3, <1>4 DEF EndExperiment, Limited, WantFollows, RouteFollows,
       Progress, TypeOK, Steps, Trying, Revoking, CatalogFollows
<1>29. CASE Cleanup
  BY <1>29, <1>1, <1>2, <1>3, <1>4 DEF Cleanup, WantFollows, RouteFollows, Progress,
       TypeOK, Steps, Trying, Revoking, CatalogFollows
<1>30. CASE EndCleanup
  BY <1>30, <1>1, <1>2, <1>3, <1>4 DEF EndCleanup, WantFollows, RouteFollows, Progress,
       TypeOK, Steps, Trying, Revoking, CatalogFollows
<1>31. CASE StopRoute
  BY <1>31, <1>1, <1>2, <1>3, <1>4 DEF StopRoute, WantFollows, RouteFollows, Progress,
       TypeOK, Steps, Trying, Revoking, CatalogFollows
<1>32. CASE LaunchLate
  BY <1>32, <1>1, <1>2, <1>3, <1>4 DEF LaunchLate, WantFollows, RouteFollows, Progress,
       TypeOK, Steps, Trying, Revoking, CatalogFollows
<1>33. CASE ModuleExits
  BY <1>33, <1>1, <1>2, <1>3, <1>4 DEF ModuleExits, WantFollows, RouteFollows, Progress,
       TypeOK, Steps, Trying, Revoking, CatalogFollows
<1>34. CASE ProxyDies
  BY <1>34, <1>1, <1>2, <1>3, <1>4 DEF ProxyDies, WantFollows, RouteFollows, Progress,
       TypeOK, Steps, Trying, Revoking, CatalogFollows
<1>35. CASE ModuleDies
  BY <1>35, <1>1, <1>2, <1>3, <1>4 DEF ModuleDies, WantFollows, RouteFollows, Progress,
       TypeOK, Steps, Trying, Revoking, CatalogFollows
<1> QED
  BY <1>5, <1>6, <1>7, <1>8, <1>9, <1>10, <1>11, <1>12, <1>13, <1>14, <1>15, <1>16, <1>17,
       <1>18, <1>19, <1>20, <1>21, <1>22, <1>23, <1>24, <1>25, <1>26, <1>27, <1>28, <1>29,
       <1>30, <1>31, <1>32, <1>33, <1>34, <1>35 DEF Next

\* The lists selected are those of the phase.
LEMMA CatalogFollowsStays ==
  ASSUME TypeOK, ProcessInv, CatalogFollows, Progress, Next
  PROVE  CatalogFollows'
<1>1. Lists # Every /\ \A lists \in SUBSET Lists : lists # Every
  BY EnvironmentAssumption
<1>2. CASE LaunchBrowser
  BY <1>2 DEF LaunchBrowser, CatalogFollows, Progress, TypeOK, Steps, Trying, Revoking
<1>3. CASE BrowserAnswered
  BY <1>3 DEF BrowserAnswered, CatalogFollows, Progress, TypeOK, Steps, Trying, Revoking
<1>4. CASE CreateAdapter
  BY <1>4, <1>1 DEF CreateAdapter, CatalogFollows, Progress, TypeOK, Steps, Trying, Revoking
<1>5. CASE PrepareAdapter
  BY <1>5, <1>1 DEF PrepareAdapter, Limited, CatalogFollows, Progress, TypeOK, Steps,
       Trying, Revoking
<1>6. CASE BeginExperiment
  BY <1>6 DEF BeginExperiment, CatalogFollows, Progress, TypeOK, Steps, Trying, Revoking
<1>7. CASE OpenPhase
  BY <1>7, <1>1 DEF OpenPhase, CatalogFollows, Progress, TypeOK, Steps, Trying, Revoking
<1>8. CASE ApplyCandidate
  BY <1>8 DEF ApplyCandidate, CatalogFollows, Progress, TypeOK, Steps, Trying, Revoking
<1>9. CASE ApplyEdit
  BY <1>9 DEF ApplyEdit, CatalogFollows, Progress, TypeOK, Steps, Trying, Revoking
<1>10. CASE EditRefused
  BY <1>10 DEF EditRefused, TakeBack, Candidates, CatalogFollows, Progress, TypeOK, Steps,
       Trying, Revoking
<1>11. CASE CandidateAnswered
  BY <1>11 DEF CandidateAnswered, TakeBack, CatalogFollows, Progress, TypeOK, Steps,
       Trying, Revoking
<1>12. CASE ReadReceipt
  BY <1>12 DEF ReadReceipt, CatalogFollows, Progress, TypeOK, Steps, Trying, Revoking
<1>13. CASE ReceiptRejected
  BY <1>13 DEF ReceiptRejected, TakeBack, CatalogFollows, Progress, TypeOK, Steps, Trying,
       Revoking
<1>14. CASE SessionAnswered
  BY <1>14 DEF SessionAnswered, Unopened, TakeBack, CatalogFollows, Progress, TypeOK,
       Steps, Trying, Revoking
<1>15. CASE CreateSession
  BY <1>15 DEF CreateSession, CatalogFollows, Progress, TypeOK, Steps, Trying, Revoking
<1>16. CASE SessionFails
  BY <1>16 DEF SessionFails, Unopened, TakeBack, CatalogFollows, Progress, TypeOK, Steps,
       Trying, Revoking
<1>17. CASE ClosePhase
  <2>1. PICK observed \in BOOLEAN :
          IF phase.label = "C" THEN phase' = TakeBack(phase, ~observed)
          ELSE IF observed THEN phase' \in Proceed(phase)
          ELSE phase' = [phase EXCEPT !.at = "ended", !.failed = TRUE]
    BY <1>17 DEF ClosePhase
  <2>2. phase.at = "observing" /\ UNCHANGED <<want, catalog, routed, adapter, stage, blocker>>
    BY <1>17 DEF ClosePhase
  <2>3. stage = "running" /\ ~adapter.limited /\ adapter.cleanup # "completed"
    BY <2>2 DEF Progress, TypeOK, Trying, Revoking
  <2>4. CASE phase.label = "C"
    <3>1. phase'.at \in {"revokeRule", "revokeEdit"}
      BY <2>1, <2>4 DEF TakeBack, TypeOK
    <3> QED
      BY <2>1, <2>2, <2>4, <2>3, <3>1 DEF TakeBack, CatalogFollows, Progress, TypeOK,
           Steps, Trying, Revoking
  <2>5. CASE phase.label # "C" /\ ~observed
    <3>1. phase' = [phase EXCEPT !.at = "ended", !.failed = TRUE]
      BY <2>1, <2>5
    <3> QED
      BY <3>1, <2>2, <2>3 DEF CatalogFollows, Progress, TypeOK, Steps, Trying, Revoking
  <2>6. CASE phase.label # "C" /\ observed /\ phase' = [phase EXCEPT !.at = "ended"]
    BY <2>2, <2>6 DEF CatalogFollows, Progress, TypeOK, Steps, Trying, Revoking
  <2>7. CASE phase.label # "C" /\ observed /\ phase' # [phase EXCEPT !.at = "ended"]
    <3>1. phase' = [phase EXCEPT !.at = "next", !.label = NextLabel[phase.label]]
      BY <2>1, <2>7 DEF Proceed
    <3>2. NextLabel["A"] = "B" /\ NextLabel["B"] = "C" /\ phase.label \in {"A", "B"}
      BY <2>7 DEF NextLabel, TypeOK
    <3> QED
      BY <3>1, <3>2, <2>2 DEF CatalogFollows, Progress, TypeOK, Steps, Trying, Revoking
  <2> QED
    BY <2>1, <2>4, <2>5, <2>6, <2>7
<1>18. CASE CloseFails
  BY <1>18 DEF CloseFails, CatalogFollows, Progress, TypeOK, Steps, Trying, Revoking
<1>19. CASE RevokeCandidate
  BY <1>19 DEF RevokeCandidate, CatalogFollows, Progress, TypeOK, Steps, Trying, Revoking
<1>20. CASE CandidateRevoked
  BY <1>20 DEF CandidateRevoked, Revoked, CatalogFollows, Progress, TypeOK, Steps, Trying,
       Revoking
<1>21. CASE RevokeEdit
  BY <1>21 DEF RevokeEdit, CatalogFollows, Progress, TypeOK, Steps, Trying, Revoking
<1>22. CASE EditRevoked
  BY <1>22 DEF EditRevoked, Revoked, CatalogFollows, Progress, TypeOK, Steps, Trying,
       Revoking
<1>23. CASE NothingRestored
  BY <1>23 DEF NothingRestored, Revoked, CatalogFollows, Progress, TypeOK, Steps, Trying,
       Revoking
<1>24. CASE NothingToRevoke
  BY <1>24 DEF NothingToRevoke, Revoked, CatalogFollows, Progress, TypeOK, Steps, Trying,
       Revoking
<1>25. CASE EndExperiment
  BY <1>25 DEF EndExperiment, Limited, CatalogFollows, Progress, TypeOK, Steps, Trying,
       Revoking
<1>26. CASE Cleanup
  BY <1>26 DEF Cleanup, CatalogFollows, Progress, TypeOK, Steps, Trying, Revoking
<1>27. CASE EndCleanup
  BY <1>27 DEF EndCleanup, CatalogFollows, Progress, TypeOK, Steps, Trying, Revoking
<1>28. CASE StopRoute
  BY <1>28 DEF StopRoute, CatalogFollows, Progress, TypeOK, Steps, Trying, Revoking
<1>29. CASE LaunchLate
  BY <1>29 DEF LaunchLate, CatalogFollows, Progress, TypeOK, Steps, Trying, Revoking
<1>30. CASE ModuleExits
  BY <1>30 DEF ModuleExits, CatalogFollows, Progress, TypeOK, Steps, Trying, Revoking
<1>31. CASE ProxyDies
  BY <1>31 DEF ProxyDies, CatalogFollows, Progress, TypeOK, Steps, Trying, Revoking
<1>32. CASE ModuleDies
  BY <1>32 DEF ModuleDies, CatalogFollows, Progress, TypeOK, Steps, Trying, Revoking
<1> QED
  BY <1>2, <1>3, <1>4, <1>5, <1>6, <1>7, <1>8, <1>9, <1>10, <1>11, <1>12, <1>13, <1>14,
       <1>15, <1>16, <1>17, <1>18, <1>19, <1>20, <1>21, <1>22, <1>23, <1>24, <1>25, <1>26,
       <1>27, <1>28, <1>29, <1>30, <1>31, <1>32 DEF Next

\* After the first session of an experiment there is a route.
LEMMA RouteFollowsStays ==
  ASSUME TypeOK, ProcessInv, RouteFollows, Progress, CatalogFollows, Next
  PROVE  RouteFollows'
<1>1. blocker.started => blocker'.started
  BY StartedStays
<1>2. CASE LaunchBrowser
  BY <1>2, <1>1 DEF LaunchBrowser, RouteFollows, Progress, TypeOK, Steps, Trying,
       Revoking, Told
<1>3. CASE BrowserAnswered
  BY <1>3, <1>1 DEF BrowserAnswered, Answered, RouteFollows, Progress, TypeOK, Steps,
       Trying, Revoking, Told
<1>4. CASE CreateAdapter
  BY <1>4, <1>1 DEF CreateAdapter, RouteFollows, Progress, TypeOK, Steps, Trying,
       Revoking, Told
<1>5. CASE PrepareAdapter
  BY <1>5, <1>1 DEF PrepareAdapter, Limited, RouteFollows, Progress, TypeOK, Steps,
       Trying, Revoking, Told
<1>6. CASE BeginExperiment
  BY <1>6, <1>1 DEF BeginExperiment, RouteFollows, Progress, TypeOK, Steps, Trying,
       Revoking, Told
<1>7. CASE OpenPhase
  BY <1>7, <1>1 DEF OpenPhase, RouteFollows, Progress, TypeOK, Steps, Trying, Revoking, Told
<1>8. CASE ApplyCandidate
  BY <1>8, <1>1 DEF ApplyCandidate, RouteFollows, Progress, TypeOK, Steps, Trying,
       Revoking, Told
<1>9. CASE ApplyEdit
  BY <1>9, <1>1 DEF ApplyEdit, RouteFollows, Progress, TypeOK, Steps, Trying, Revoking, Told
<1>10. CASE EditRefused
  BY <1>10, <1>1 DEF EditRefused, TakeBack, Candidates, RouteFollows, Progress, TypeOK,
       Steps, Trying, Revoking, Told
<1>11. CASE CandidateAnswered
  BY <1>11, <1>1 DEF CandidateAnswered, Answered, TakeBack, RouteFollows, Progress,
       TypeOK, Steps, Trying, Revoking, Told
<1>12. CASE ReadReceipt
  BY <1>12, <1>1 DEF ReadReceipt, RouteFollows, Progress, TypeOK, Steps, Trying, Revoking,
       Told
<1>13. CASE ReceiptRejected
  BY <1>13, <1>1 DEF ReceiptRejected, TakeBack, RouteFollows, Progress, TypeOK, Steps,
       Trying, Revoking, Told
<1>14. CASE SessionAnswered
  BY <1>14, <1>1 DEF SessionAnswered, Answered, Unopened, TakeBack, RouteFollows,
       Progress, TypeOK, Steps, Trying, Revoking, Told
<1>15. CASE CreateSession
  BY <1>15, <1>1 DEF CreateSession, RouteFollows, Progress, TypeOK, Steps, Trying,
       Revoking, Told
<1>16. CASE SessionFails
  BY <1>16, <1>1 DEF SessionFails, Unopened, TakeBack, RouteFollows, Progress, TypeOK,
       Steps, Trying, Revoking, Told
<1>17. CASE ClosePhase
  <2>1. PICK observed \in BOOLEAN :
          IF phase.label = "C" THEN phase' = TakeBack(phase, ~observed)
          ELSE IF observed THEN phase' \in Proceed(phase)
          ELSE phase' = [phase EXCEPT !.at = "ended", !.failed = TRUE]
    BY <1>17, <1>1 DEF ClosePhase
  <2>2. phase.at = "observing" /\ UNCHANGED <<want, catalog, routed, adapter, stage, blocker>>
    BY <1>17, <1>1 DEF ClosePhase
  <2>3. stage = "running" /\ ~adapter.limited /\ adapter.cleanup # "completed"
    BY <2>2 DEF Progress, TypeOK, Trying, Revoking
  <2>4. CASE phase.label = "C"
    <3>1. phase'.at \in {"revokeRule", "revokeEdit"}
      BY <2>1, <2>4 DEF TakeBack, TypeOK
    <3> QED
      BY <2>1, <2>2, <2>4, <2>3, <3>1 DEF TakeBack, RouteFollows, Progress, TypeOK, Steps,
           Trying, Revoking, Told
  <2>5. CASE phase.label # "C" /\ ~observed
    <3>1. phase' = [phase EXCEPT !.at = "ended", !.failed = TRUE]
      BY <2>1, <2>5
    <3> QED
      BY <3>1, <2>2, <2>3 DEF RouteFollows, Progress, TypeOK, Steps, Trying, Revoking, Told
  <2>6. CASE phase.label # "C" /\ observed /\ phase' = [phase EXCEPT !.at = "ended"]
    BY <2>2, <2>6 DEF RouteFollows, Progress, TypeOK, Steps, Trying, Revoking, Told
  <2>7. CASE phase.label # "C" /\ observed /\ phase' # [phase EXCEPT !.at = "ended"]
    <3>1. phase' = [phase EXCEPT !.at = "next", !.label = NextLabel[phase.label]]
      BY <2>1, <2>7 DEF Proceed
    <3>2. NextLabel["A"] = "B" /\ NextLabel["B"] = "C" /\ phase.label \in {"A", "B"}
      BY <2>7 DEF NextLabel, TypeOK
    <3> QED
      BY <3>1, <3>2, <2>2 DEF RouteFollows, Progress, TypeOK, Steps, Trying, Revoking, Told
  <2> QED
    BY <2>1, <2>4, <2>5, <2>6, <2>7
<1>18. CASE CloseFails
  BY <1>18, <1>1 DEF CloseFails, RouteFollows, Progress, TypeOK, Steps, Trying, Revoking,
       Told
<1>19. CASE RevokeCandidate
  BY <1>19, <1>1 DEF RevokeCandidate, RouteFollows, Progress, TypeOK, Steps, Trying,
       Revoking, Told
<1>20. CASE CandidateRevoked
  BY <1>20, <1>1 DEF CandidateRevoked, Answered, Revoked, RouteFollows, Progress, TypeOK,
       Steps, Trying, Revoking, Told
<1>21. CASE RevokeEdit
  BY <1>21, <1>1 DEF RevokeEdit, RouteFollows, Progress, TypeOK, Steps, Trying, Revoking,
       Told
<1>22. CASE EditRevoked
  BY <1>22, <1>1 DEF EditRevoked, Answered, Revoked, RouteFollows, Progress, TypeOK,
       Steps, Trying, Revoking, Told
<1>23. CASE NothingRestored
  BY <1>23, <1>1 DEF NothingRestored, Revoked, RouteFollows, Progress, TypeOK, Steps,
       Trying, Revoking, Told
<1>24. CASE NothingToRevoke
  BY <1>24, <1>1 DEF NothingToRevoke, Revoked, RouteFollows, Progress, TypeOK, Steps,
       Trying, Revoking, Told
<1>25. CASE EndExperiment
  BY <1>25, <1>1 DEF EndExperiment, Limited, RouteFollows, Progress, TypeOK, Steps,
       Trying, Revoking, Told
<1>26. CASE Cleanup
  BY <1>26, <1>1 DEF Cleanup, RouteFollows, Progress, TypeOK, Steps, Trying, Revoking, Told
<1>27. CASE EndCleanup
  BY <1>27, <1>1 DEF EndCleanup, RouteFollows, Progress, TypeOK, Steps, Trying, Revoking,
       Told
<1>28. CASE StopRoute
  BY <1>28, <1>1 DEF StopRoute, RouteFollows, Progress, TypeOK, Steps, Trying, Revoking,
       Told
<1>29. CASE LaunchLate
  BY <1>29, <1>1 DEF LaunchLate, RouteFollows, Progress, TypeOK, Steps, Trying, Revoking,
       Told
<1>30. CASE ModuleExits
  BY <1>30, <1>1 DEF ModuleExits, RouteFollows, Progress, TypeOK, Steps, Trying, Revoking,
       Told
<1>31. CASE ProxyDies
  BY <1>31, <1>1 DEF ProxyDies, RouteFollows, Progress, TypeOK, Steps, Trying, Revoking,
       Told
<1>32. CASE ModuleDies
  BY <1>32, <1>1 DEF ModuleDies, RouteFollows, Progress, TypeOK, Steps, Trying, Revoking,
       Told
<1> QED
  BY <1>2, <1>3, <1>4, <1>5, <1>6, <1>7, <1>8, <1>9, <1>10, <1>11, <1>12, <1>13, <1>14,
       <1>15, <1>16, <1>17, <1>18, <1>19, <1>20, <1>21, <1>22, <1>23, <1>24, <1>25, <1>26,
       <1>27, <1>28, <1>29, <1>30, <1>31, <1>32 DEF Next

-----------------------------------------------------------------------------
(* The module, the route and the sessions. *)

\* The facts the control rests on, together.
Control ==
  /\ TypeOK /\ ProcessInv /\ OneAwaited /\ Progress /\ WantFollows
  /\ CatalogFollows /\ RouteFollows

\* What a fault leaves of the module: everything but the processes.
LEMMA FaultFits ==
  ASSUME WellFormed(blocker), ProxyDies \/ ModuleDies
  PROVE  /\ blocker'.started = blocker.started /\ blocker'.enabled = blocker.enabled
         /\ blocker'.rules = blocker.rules /\ blocker'.file = blocker.file
         /\ blocker'.known = blocker.known /\ blocker'.ran = blocker.ran
         /\ blocker'.addressed = blocker.addressed
         /\ Up' => Up
  BY DEF ProxyDies, ModuleDies, Perish, WellFormed, Module, Up

\* Modules that agree on what is configured, executed and addressed are the
\* same to the predicates below.
LEMMA AlikeFits ==
  ASSUME NEW b, NEW c, NEW w, NEW lists,
         c.started = b.started, c.enabled = b.enabled, c.rules = b.rules, c.file = b.file,
         c.known = b.known, c.ran = b.ran, c.addressed = b.addressed
  PROVE  /\ Clean(b) => Clean(c)
         /\ Settled(b, w, lists) => Settled(c, w, lists)
         /\ Executes(b, w, lists) => Executes(c, w, lists)
         /\ Contained(b, w, lists) => Contained(c, w, lists)
  BY DEF Clean, Settled, Executes, Contained, Harmless, Leftover, Revocable

\* While the experiment tries, or is about to, nothing has failed.
LEMMA TryingIsNotDoomed ==
  ASSUME Control, phase.at \in {"preparing", "next", "receipt", "creating", "observing"}
  PROVE  ~Doomed
<1>1. Awaited = {}
  BY DEF Control, OneAwaited, Waiting
<1>2. Promised
  BY <1>1 DEF Promised
<1>3. stage = "running" /\ ~adapter.limited /\ ~phase.failed
  BY DEF Control, Progress, TypeOK, Trying, Revoking
<1> QED
  BY <1>2, <1>3 DEF Doomed

\* What the requests of both actors ask, in the model's actions.
Browsing ==
  /\ LaunchBrowser \/ LaunchLate
  /\ Reconcile("browser", want, catalog)
  /\ UNCHANGED <<want, catalog, routed, adapter, phase, stage>>

Requesting(w, lists) ==
  /\ OpenPhase \/ ApplyCandidate \/ ApplyEdit \/ ReadReceipt \/ RevokeCandidate \/ RevokeEdit
  /\ w = want' /\ lists = catalog'
  /\ w \in Wants /\ lists \in Selection
  /\ Reconcile("phase", w, lists)
  /\ Awaited = {}
  /\ UNCHANGED <<routed, stage>>

\* The steps of the experiment ask once, for what is wanted and selected
\* afterwards.
LEMMA RequestsFit ==
  ASSUME Control
  PROVE  /\ LaunchBrowser \/ LaunchLate => Browsing
         /\ OpenPhase \/ ApplyCandidate \/ ApplyEdit \/ ReadReceipt \/ RevokeCandidate
              \/ RevokeEdit => Requesting(want', catalog')
<1> USE DEF Control
<1>1. LaunchBrowser \/ LaunchLate => Browsing
  BY DEF LaunchBrowser, LaunchLate, Browsing
<1>2. ASSUME OpenPhase \/ ApplyCandidate \/ ApplyEdit \/ ReadReceipt \/ RevokeCandidate
               \/ RevokeEdit
      PROVE  Requesting(want', catalog')
  <2>1. want' \in Wants /\ catalog' \in Selection
    BY <1>2, ProcessStays DEF Next, TypeOK
  <2>2. phase.at \notin Waiting /\ UNCHANGED <<routed, stage>>
    BY <1>2 DEF OpenPhase, ApplyCandidate, ApplyEdit, ReadReceipt, RevokeCandidate,
         RevokeEdit, Waiting
  <2>3. Awaited = {}
    BY <2>2 DEF OneAwaited
  <2>4. CASE OpenPhase \/ ReadReceipt
    <3>1. want' = want
      BY <2>4 DEF OpenPhase, ReadReceipt
    <3>2. Reconcile("phase", want, catalog')
      <4>1. CASE OpenPhase
        BY <4>1 DEF OpenPhase
      <4>2. CASE ReadReceipt
        <5>1. catalog' = catalog /\ Reconcile("phase", want, catalog)
          BY <4>2 DEF ReadReceipt
        <5> QED
          BY <5>1
      <4> QED
        BY <4>1, <4>2, <2>4
    <3> QED
      BY <3>1, <3>2, <2>1, <2>2, <2>3, <1>2 DEF Requesting
  <2>5. CASE ApplyCandidate \/ ApplyEdit \/ RevokeCandidate \/ RevokeEdit
    <3>1. catalog' = catalog /\ Reconcile("phase", want', catalog)
      BY <2>5 DEF ApplyCandidate, ApplyEdit, RevokeCandidate, RevokeEdit
    <3> QED
      BY <3>1, <2>1, <2>2, <2>3, <1>2 DEF Requesting
  <2> QED
    BY <2>4, <2>5, <1>2
<1> QED
  BY <1>1, <1>2

\* The steps that leave the module alone.
Apart ==
  \/ BrowserAnswered \/ CreateAdapter \/ PrepareAdapter \/ BeginExperiment \/ EditRefused
  \/ CandidateAnswered \/ ReceiptRejected \/ SessionAnswered \/ CreateSession \/ SessionFails
  \/ ClosePhase \/ CloseFails \/ CandidateRevoked \/ EditRevoked \/ NothingRestored
  \/ NothingToRevoke \/ EndExperiment \/ Cleanup \/ EndCleanup

\* Every step is one of these.
LEMMA StepsFit ==
  ASSUME Control, Next
  PROVE  \/ Browsing \/ Requesting(want', catalog') \/ Apart
         \/ StopRoute \/ ModuleExits \/ ProxyDies \/ ModuleDies
  BY RequestsFit DEF Next, Apart

\* They leave the module, what is wanted and, but for the adapter's
\* preparation, the selection; the doomed stay doomed.
LEMMA ApartFits ==
  ASSUME Control, ~Deadlines, Apart
  PROVE  /\ blocker' = blocker /\ want' = want
         /\ catalog' = catalog \/ CreateAdapter \/ PrepareAdapter
         /\ ~Doomed' => ~Doomed
         /\ held = {} => held' = {}
<1> USE DEF Control
<1>1. blocker' = blocker /\ want' = want
  BY DEF Apart, BrowserAnswered, CreateAdapter, PrepareAdapter, BeginExperiment,
         EditRefused, CandidateAnswered, ReceiptRejected, SessionAnswered, CreateSession,
         SessionFails, ClosePhase, CloseFails, CandidateRevoked, EditRevoked,
         NothingRestored, NothingToRevoke, EndExperiment, Cleanup, EndCleanup, served
<1>2. catalog' = catalog \/ CreateAdapter \/ PrepareAdapter
  BY DEF Apart, BrowserAnswered, BeginExperiment,
         EditRefused, CandidateAnswered, ReceiptRejected, SessionAnswered, CreateSession,
         SessionFails, ClosePhase, CloseFails, CandidateRevoked, EditRevoked,
         NothingRestored, NothingToRevoke, EndExperiment, Cleanup, EndCleanup
<1>3. CASE BrowserAnswered
  <2>1. PICK heard \in BOOLEAN : Answered("browser", heard)
    BY <1>3 DEF BrowserAnswered
  <2>2. Promised' <=> Promised
    BY <2>1, AnsweredAwaits DEF OneAwaited, TypeOK, Entry
  <2>3. held = {} => held' = {}
    BY <2>1, AnsweredTypes
  <2> QED
    BY <2>2, <2>3, <1>1, <1>2, <1>3 DEF BrowserAnswered, Doomed
<1>4. CASE CandidateAnswered \/ SessionAnswered \/ CandidateRevoked \/ EditRevoked
  <2>1. PICK heard \in BOOLEAN : Answered("phase", heard) /\ (~phase'.failed => heard)
    BY <1>4 DEF CandidateAnswered, SessionAnswered, CandidateRevoked, EditRevoked, TakeBack,
         Unopened, Revoked, TypeOK
  <2>2. heard => Promised
    BY <2>1, AnsweredAwaits DEF OneAwaited, TypeOK, Entry
  <2>3. held = {} => held' = {}
    BY <2>1, AnsweredTypes
  <2>4. stage' = stage /\ adapter'.limited = adapter.limited
    BY <1>4 DEF CandidateAnswered, SessionAnswered, CandidateRevoked, EditRevoked, TypeOK
  <2>5. ~phase'.failed => ~phase.failed
    BY <1>4 DEF CandidateAnswered, SessionAnswered, CandidateRevoked, EditRevoked, TakeBack,
         Unopened, Revoked, TypeOK, Progress, Trying
  <2> QED
    BY <2>1, <2>2, <2>3, <2>4, <2>5, <1>1, <1>2 DEF Doomed
<1>5. CASE /\ Apart /\ ~BrowserAnswered
           /\ ~(CandidateAnswered \/ SessionAnswered \/ CandidateRevoked \/ EditRevoked)
  <2>1. pending' = pending /\ held' = held
    BY <1>5 DEF Apart, CreateAdapter, PrepareAdapter, BeginExperiment,
         EditRefused, ReceiptRejected, CreateSession, SessionFails, ClosePhase, CloseFails,
         NothingRestored, NothingToRevoke, EndExperiment, Cleanup, EndCleanup, served
  <2>2. Promised' <=> Promised
    BY <2>1 DEF Promised, Awaited
  <2>3. ~adapter'.limited => ~adapter.limited
    BY <1>5 DEF Apart, CreateAdapter, PrepareAdapter, BeginExperiment,
         EditRefused, ReceiptRejected, CreateSession, SessionFails, ClosePhase, CloseFails,
         NothingRestored, NothingToRevoke, EndExperiment, Cleanup, EndCleanup, Limited, TypeOK
  <2>4. stage' = "running" => stage = "running"
    BY <1>5 DEF Apart, CreateAdapter, PrepareAdapter, BeginExperiment,
         EditRefused, ReceiptRejected, CreateSession, SessionFails, ClosePhase, CloseFails,
         NothingRestored, NothingToRevoke, EndExperiment, Cleanup, EndCleanup
  <2>5. ~phase'.failed /\ ~adapter'.limited /\ stage' = "running" => ~phase.failed
    <3>1. CASE CreateAdapter
      BY <3>1 DEF CreateAdapter, TypeOK
    <3>2. CASE PrepareAdapter \/ BeginExperiment
      BY <3>2 DEF PrepareAdapter, BeginExperiment, Progress
    <3>3. CASE EditRefused \/ ReceiptRejected \/ CreateSession \/ SessionFails \/ ClosePhase
               \/ CloseFails
      BY <3>3 DEF EditRefused, ReceiptRejected, CreateSession, SessionFails, ClosePhase,
           CloseFails, Progress, Trying
    <3>4. CASE NothingRestored \/ NothingToRevoke
      BY <3>4 DEF NothingRestored, NothingToRevoke, Revoked, TypeOK
    <3>5. CASE EndExperiment
      BY <3>5 DEF EndExperiment, Limited, TypeOK
    <3>6. CASE Cleanup \/ EndCleanup
      BY <3>6 DEF Cleanup, EndCleanup, TypeOK
    <3> QED
      BY <3>1, <3>2, <3>3, <3>4, <3>5, <3>6, <1>5 DEF Apart
  <2> QED
    BY <2>1, <2>2, <2>3, <2>4, <2>5, <1>1, <1>2 DEF Doomed
<1> QED
  BY <1>3, <1>4, <1>5
\* What the present module is to a request made now (Reconcile): the request is
\* one of the answers, and it does not end the module.
LEMMA ServedFits ==
  ASSUME Control, NEW who \in {"phase", "browser"}, NEW w \in Wants,
         NEW lists \in Selection, Reconcile(who, w, lists)
  PROVE  \E r \in Answers(w, lists) :
           /\ blocker' = r.to
           /\ leases' = IF r.cut THEN Cut(leases) ELSE leases
           /\ held' = (IF r.cut THEN {} ELSE held) \cup
                      (IF r.ok /\ r.to.addressed THEN {who} ELSE {})
           /\ who = "browser" => Awaited' = Awaited /\ (Promised' <=> Promised)
           /\ who = "phase" /\ Awaited = {} => (Promised' <=> r.ok)
           /\ r \in Answer /\ WellFormed(r.to) /\ (Up' <=> Up)
           /\ blocker.started => r.to.started
           /\ ~r.cut => r.to.addressed = blocker.addressed
           /\ r.cut => r.to.addressed = r.ok
<1> USE DEF Control
<1>1. TypeOK /\ WellFormed(blocker)
  BY DEF ProcessInv
<1>2. PICK r \in Answers(w, lists) :
           /\ blocker' = r.to
           /\ leases' = IF r.cut THEN Cut(leases) ELSE leases
           /\ held' = (IF r.cut THEN {} ELSE held) \cup
                      (IF r.ok /\ r.to.addressed THEN {who} ELSE {})
           /\ who = "browser" => Awaited' = Awaited /\ (Promised' <=> Promised)
           /\ who = "phase" /\ Awaited = {} =>
                (\A i, j \in Awaited' : i = j) /\ (Promised' <=> r.ok)
  BY <1>1, ReconcileFits
<1>3. /\ r \in Answer /\ WellFormed(r.to) /\ r.to.module = blocker.module
      /\ blocker.started => r.to.started
      /\ ~r.cut => r.to.addressed = blocker.addressed
      /\ r.cut => r.to.addressed = r.ok
  BY <1>1, AnswersFit DEF TypeOK
<1>4. Up' <=> Up
  BY <1>2, <1>3 DEF Up
<1> QED
  BY <1>2, <1>3, <1>4

\* The end of the module's input ends the module.
LEMMA ExitEnds ==
  ASSUME Control, ModuleExits
  PROVE  ~Up'
<1>1. WellFormed(blocker)
  BY DEF Control, ProcessInv
<1>2. PICK resets \in BOOLEAN :
        blocker' = IF blocker.module = "up"
                   THEN [ServeEnds(blocker, resets) EXCEPT !.module = "exited"] ELSE blocker
  BY DEF ModuleExits
<1>3. ServeEnds(blocker, resets) \in Module
  BY <1>1, StopFits DEF ServeEnds, WellFormed
<1>4. [ServeEnds(blocker, resets) EXCEPT !.module = "exited"].module = "exited"
  BY <1>3 DEF Module
<1> QED
  BY <1>2, <1>4 DEF Up

\* An address is held only while the last launch of a module that runs has one
\* (held of Reconcile and Answered).
LEMMA HeldIsPresentStays ==
  ASSUME Control, HeldIsPresent, ~Deadlines, Next
  PROVE  HeldIsPresent'
<1>1. ASSUME NEW who \in {"phase", "browser"}, NEW w \in Wants, NEW lists \in Selection,
             Reconcile(who, w, lists)
      PROVE  HeldIsPresent'
  <2>1. PICK r \in Answers(w, lists) :
           /\ blocker' = r.to
           /\ held' = (IF r.cut THEN {} ELSE held) \cup
                      (IF r.ok /\ r.to.addressed THEN {who} ELSE {})
           /\ Up' <=> Up
           /\ ~r.cut => r.to.addressed = blocker.addressed
    BY <1>1, ServedFits
  <2>2. CASE r.ok /\ r.to.addressed
    BY <2>1, <2>2 DEF HeldIsPresent
  <2>3. CASE ~(r.ok /\ r.to.addressed)
    BY <2>1, <2>3 DEF HeldIsPresent
  <2> QED
    BY <2>2, <2>3
<1>2. CASE Browsing
  BY <1>1, <1>2 DEF Browsing, Control, TypeOK
<1>3. CASE Requesting(want', catalog')
  BY <1>1, <1>3 DEF Requesting
<1>4. CASE Apart
  BY <1>4, ApartFits DEF HeldIsPresent, Up
<1>5. CASE StopRoute
  BY <1>5 DEF StopRoute, HeldIsPresent
<1>6. CASE ModuleExits
  BY <1>6, ExitEnds DEF HeldIsPresent
<1>7. CASE ProxyDies \/ ModuleDies
  <2>1. held' = held
    BY <1>7 DEF ProxyDies, ModuleDies
  <2> QED
    BY <2>1, <1>7, FaultFits DEF HeldIsPresent, Control, ProcessInv
<1> QED
  BY <1>2, <1>3, <1>4, <1>5, <1>6, <1>7, StepsFit

\* What the route wants when a request of the experiment is made, by the step
\* that makes it.
LEMMA RequestsWant ==
  ASSUME Control, Requesting(want', catalog')
  PROVE  /\ want' # Idle => routed /\ blocker.started
         /\ want'.rules = {} \/ want'.edit = NoEdit
         /\ want' = want \/ want = Idle \/ want' = Idle
         /\ want' # want => catalog' = catalog
         /\ phase'.failed = phase.failed /\ adapter'.limited = adapter.limited
         /\ want' # want /\ want = Idle => phase.at = "next"
         /\ catalog' # catalog => phase.at = "next" /\ want' = want /\ want = Idle
<1> USE DEF Control
<1>1. CASE OpenPhase
  <2>1. want = Idle /\ phase.at = "next"
    BY <1>1, TriedIsAsked DEF OpenPhase
  <2>2. want' = want /\ UNCHANGED adapter /\ phase' = [phase EXCEPT !.at = "launching"]
    BY <1>1 DEF OpenPhase
  <2> QED
    BY <2>1, <2>2 DEF Idle, TypeOK
<1>2. CASE ApplyCandidate
  <2>1. want = Idle /\ routed /\ blocker.started
    BY <1>2, TriedIsAsked DEF ApplyCandidate, RouteFollows
  <2>2. /\ want' = [want EXCEPT !.rules = {phase.candidate}] /\ catalog' = catalog
        /\ adapter' = [adapter EXCEPT !.added = TRUE]
        /\ phase' = [phase EXCEPT !.at = "applying"] /\ phase.at = "next"
    BY <1>2 DEF ApplyCandidate
  <2> QED
    BY <2>1, <2>2 DEF Idle, TypeOK
<1>3. CASE ApplyEdit
  <2>1. want = Idle /\ routed /\ blocker.started
    BY <1>3, TriedIsAsked DEF ApplyEdit, RouteFollows
  <2>2. /\ want' = [want EXCEPT !.edit = phase.candidate] /\ catalog' = catalog
        /\ adapter' = [adapter EXCEPT !.edited = TRUE]
        /\ phase' = [phase EXCEPT !.at = "applying"] /\ phase.at = "next"
    BY <1>3 DEF ApplyEdit
  <2> QED
    BY <2>1, <2>2 DEF Idle, TypeOK
<1>4. CASE ReadReceipt
  <2>1. want' = want /\ catalog' = catalog /\ phase' = [phase EXCEPT !.at = "launching"]
    BY <1>4 DEF ReadReceipt
  <2>2. adapter'.limited = adapter.limited
    BY <1>4 DEF ReadReceipt, TypeOK
  <2> QED
    BY <2>1, <2>2 DEF WantFollows, TypeOK
<1>5. CASE RevokeCandidate
  <2>1. /\ want' = [want EXCEPT !.rules = {}] /\ catalog' = catalog
        /\ phase' = [phase EXCEPT !.at = "revokingRule"] /\ UNCHANGED adapter
    BY <1>5 DEF RevokeCandidate
  <2>2. want \in Wants /\ want' \in Wants /\ want'.rules = {} /\ want'.edit = want.edit
    BY <2>1, <1>5 DEF TypeOK, Requesting, Wants
  <2>3. want' # Idle => want' = want
    BY <2>1, <2>2 DEF WantFollows, Idle, Wants
  <2> QED
    BY <2>1, <2>2, <2>3 DEF WantFollows, TypeOK
<1>6. CASE RevokeEdit
  <2>1. /\ want' = [want EXCEPT !.edit = NoEdit] /\ catalog' = catalog
        /\ phase.at = "revokeEdit"
        /\ phase' = [phase EXCEPT !.at = "revokingEdit", !.candidate = want.edit]
        /\ UNCHANGED adapter
    BY <1>6 DEF RevokeEdit
  <2>2. want'.rules = {} /\ want'.edit = NoEdit /\ want' = Idle
    BY <2>1 DEF WantFollows, TypeOK, Wants, Idle
  <2> QED
    BY <2>1, <2>2 DEF TypeOK
<1> QED
  BY <1>1, <1>2, <1>3, <1>4, <1>5, <1>6 DEF Requesting

\* Creating and preparing the adapter select lists while nothing failed and
\* nothing is wanted.
LEMMA PreparingIsClean ==
  ASSUME Control, FaithfulUntilDoomed, CreateAdapter \/ PrepareAdapter
  PROVE  ~Doomed /\ want = Idle /\ (Up => Clean(blocker))
<1> USE DEF Control
<1>1. CASE CreateAdapter
  <2>1. stage = "running" /\ phase.at = "idle" /\ ~adapter.limited
    BY <1>1 DEF CreateAdapter, CatalogFollows
  <2>2. ~phase.failed /\ want = Idle
    BY <2>1 DEF Progress, WantFollows
  <2>3. Promised
    BY <2>1 DEF Promised, OneAwaited, Waiting
  <2> QED
    BY <2>1, <2>2, <2>3 DEF Doomed, FaithfulUntilDoomed
<1>2. CASE PrepareAdapter
  <2>1. phase.at = "preparing" /\ ~adapter.limited
    BY <1>2 DEF PrepareAdapter, Progress
  <2>2. ~Doomed /\ want = Idle
    BY <2>1, TryingIsNotDoomed DEF WantFollows
  <2> QED
    BY <2>2 DEF FaithfulUntilDoomed
<1> QED
  BY <1>1, <1>2

\* Before anything failed, file and rules are those of the process.
LEMMA FaithfulIsInStep ==
  ASSUME Control, FaithfulUntilDoomed, ~Doomed, Up
  PROVE  blocker.file = blocker.known /\ blocker.ran.rules = blocker.rules
<1>1. CASE want = Idle
  BY <1>1, CleanIsInStep DEF FaithfulUntilDoomed, Control, ProcessInv
<1>2. CASE want # Idle
  BY <1>2 DEF FaithfulUntilDoomed, Executes
<1> QED
  BY <1>1, <1>2

\* As long as nothing failed, the module is where the last heard request left
\* it, whoever made it.
LEMMA FaithfulStays ==
  ASSUME Control, FaithfulUntilDoomed, ~Deadlines, Next
  PROVE  FaithfulUntilDoomed'
<1> USE DEF Control
<1>1. TypeOK /\ WellFormed(blocker) /\ want \in Wants /\ catalog \in Selection /\ routed \in BOOLEAN
  BY DEF ProcessInv, TypeOK
<1>2. SUFFICES ASSUME ~Doomed', Up'
               PROVE  IF want' = Idle THEN Clean(blocker')
                      ELSE Executes(blocker', want', catalog')
  BY DEF FaithfulUntilDoomed
<1>3. CASE Browsing
  <2>1. PICK r \in Answers(want, catalog) :
          blocker' = r.to /\ (Promised' <=> Promised) /\ (Up' <=> Up)
    BY <1>1, <1>3, ServedFits DEF Browsing
  <2>2. UNCHANGED <<want, catalog, adapter, phase, stage>>
    BY <1>3 DEF Browsing
  <2>3. ~Doomed /\ Up
    BY <1>2, <2>1, <2>2 DEF Doomed
  <2>4. CASE want = Idle
    <3>1. Clean(blocker)
      BY <2>3, <2>4 DEF FaithfulUntilDoomed
    <3>2. r \in Answers(Idle, catalog)
      BY <2>4
    <3> QED
      BY <3>1, <3>2, <2>1, <2>2, <2>4, <1>1, CleanStays
  <2>5. CASE want # Idle
    <3>1. Executes(blocker, want, catalog)
      BY <2>3, <2>5 DEF FaithfulUntilDoomed
    <3>2. blocker.started /\ Settled(blocker, want, catalog)
      BY <3>1 DEF Executes, Settled
    <3>3. blocker' = blocker
      BY <3>2, <2>1, <1>1, UndisturbedFits
    <3> QED
      BY <3>1, <3>3, <2>2, <2>5
  <2> QED
    BY <2>4, <2>5
<1>4. CASE Requesting(want', catalog')
  <2>1. want' \in Wants /\ catalog' \in Selection /\ Awaited = {} /\ stage' = stage
        /\ Reconcile("phase", want', catalog')
    BY <1>4 DEF Requesting
  <2>2. PICK r \in Answers(want', catalog') :
          blocker' = r.to /\ (Promised' <=> r.ok) /\ (Up' <=> Up)
    BY <2>1, ServedFits
  <2>3. ~Doomed /\ Up /\ r.ok
    BY <1>2, <1>4, <2>1, <2>2, RequestsWant DEF Doomed, Promised
  <2>4. blocker.file = blocker.known /\ blocker.ran.rules = blocker.rules
    BY <2>3, FaithfulIsInStep
  <2>5. want' # Idle => blocker.started
    BY <1>4, RequestsWant
  <2>6. Executes(blocker', want', catalog')
    BY <2>1, <2>2, <2>3, <2>4, <2>5, <1>1, HeardExecutes
  <2> QED
    BY <2>6 DEF Executes, Clean, Idle
<1>5. CASE Apart
  <2>1. /\ blocker' = blocker /\ want' = want /\ ~Doomed
        /\ catalog' = catalog \/ CreateAdapter \/ PrepareAdapter
    BY <1>2, <1>5, ApartFits
  <2>2. Up
    BY <1>2, <2>1 DEF Up
  <2> QED
    BY <2>1, <2>2, PreparingIsClean DEF FaithfulUntilDoomed
<1>6. CASE StopRoute
  BY <1>2, <1>6 DEF StopRoute, Doomed
<1>7. CASE ModuleExits
  BY <1>2, <1>7, ExitEnds
<1>8. CASE ProxyDies \/ ModuleDies
  <2>1. UNCHANGED <<want, catalog, pending, phase, adapter, stage>>
    BY <1>8 DEF ProxyDies, ModuleDies
  <2>2. ~Doomed
    BY <1>2, <2>1 DEF Doomed, Promised, Awaited
  <2>3. Up
    BY <1>1, <1>2, <1>8, FaultFits
  <2>4. /\ Clean(blocker) => Clean(blocker')
        /\ Executes(blocker, want, catalog) => Executes(blocker', want, catalog)
    BY <1>1, <1>8, FaultFits, AlikeFits
  <2> QED
    BY <2>1, <2>2, <2>3, <2>4 DEF FaithfulUntilDoomed
<1> QED
  BY <1>3, <1>4, <1>5, <1>6, <1>7, <1>8, StepsFit

\* A session is launched only where its request was heard, and until it is
\* created nothing else comes between: launch_browser finds nothing to do.
LEMMA PhaseReadyStays ==
  ASSUME Control, FaithfulUntilDoomed, PhaseReady, ~Deadlines, Next
  PROVE  PhaseReady'
<1> USE DEF Control
<1>1. TypeOK /\ WellFormed(blocker) /\ want \in Wants /\ catalog \in Selection /\ routed \in BOOLEAN
  BY DEF ProcessInv, TypeOK
<1>2. SUFFICES ASSUME Up', Promised', phase'.at \in {"launching", "creating"}
               PROVE  Executes(blocker', want', catalog')
  BY DEF PhaseReady
<1>3. CASE Browsing
  <2>1. PICK r \in Answers(want, catalog) :
          blocker' = r.to /\ (Promised' <=> Promised) /\ (Up' <=> Up)
    BY <1>1, <1>3, ServedFits DEF Browsing
  <2>2. UNCHANGED <<want, catalog, phase>>
    BY <1>3 DEF Browsing
  <2>3. Executes(blocker, want, catalog)
    BY <1>2, <2>1, <2>2 DEF PhaseReady
  <2>4. blocker.started /\ Settled(blocker, want, catalog)
    BY <2>3 DEF Executes, Settled
  <2>5. blocker' = blocker
    BY <2>4, <2>1, <1>1, UndisturbedFits
  <2> QED
    BY <2>2, <2>3, <2>5
<1>4. CASE Requesting(want', catalog')
  <2>1. want' \in Wants /\ catalog' \in Selection /\ Awaited = {}
        /\ Reconcile("phase", want', catalog')
    BY <1>4 DEF Requesting
  <2>2. PICK r \in Answers(want', catalog') :
          blocker' = r.to /\ (Promised' <=> r.ok) /\ (Up' <=> Up)
    BY <2>1, ServedFits
  <2>3. phase.at \in {"next", "receipt"}
    BY <1>2, <1>4 DEF Requesting, OpenPhase, ApplyCandidate, ApplyEdit, ReadReceipt,
         RevokeCandidate, RevokeEdit, TypeOK
  <2>4. ~Doomed /\ Up /\ r.ok
    BY <1>2, <2>2, <2>3, TryingIsNotDoomed
  <2>5. blocker.file = blocker.known /\ blocker.ran.rules = blocker.rules
    BY <2>4, FaithfulIsInStep
  <2>6. want' # Idle => blocker.started
    BY <1>4, RequestsWant
  <2> QED
    BY <2>1, <2>2, <2>4, <2>5, <2>6, <1>1, HeardExecutes
<1>5. CASE Apart
  <2>1. blocker' = blocker /\ want' = want
    BY <1>5, ApartFits
  <2>2. CASE BrowserAnswered
    <3>1. PICK heard \in BOOLEAN : Answered("browser", heard)
      BY <2>2 DEF BrowserAnswered
    <3>2. Promised' <=> Promised
      BY <3>1, AnsweredAwaits DEF OneAwaited, TypeOK, Entry
    <3>3. phase' = phase /\ catalog' = catalog
      BY <2>2 DEF BrowserAnswered
    <3> QED
      BY <1>2, <2>1, <3>2, <3>3 DEF PhaseReady, Up
  <2>3. CASE SessionAnswered
    <3>1. PICK heard \in BOOLEAN :
            /\ Answered("phase", heard)
            /\ phase' = IF heard THEN [phase EXCEPT !.at = "creating"] ELSE Unopened
      BY <2>3 DEF SessionAnswered
    <3>2. heard
      BY <1>2, <3>1 DEF Unopened, TakeBack, TypeOK
    <3>3. Promised
      BY <3>1, <3>2, AnsweredAwaits DEF OneAwaited, TypeOK, Entry
    <3>4. phase.at = "launching" /\ catalog' = catalog
      BY <2>3 DEF SessionAnswered
    <3> QED
      BY <1>2, <2>1, <3>3, <3>4 DEF PhaseReady, Up
  <2>4. CASE Apart /\ ~BrowserAnswered /\ ~SessionAnswered
    <3>1. phase'.at \notin {"launching", "creating"}
      <4>1. CASE ClosePhase
        <5>1. PICK observed \in BOOLEAN :
                IF phase.label = "C" THEN phase' = TakeBack(phase, ~observed)
                ELSE IF observed THEN phase' \in Proceed(phase)
                ELSE phase' = [phase EXCEPT !.at = "ended", !.failed = TRUE]
          BY <4>1 DEF ClosePhase
        <5> QED
          BY <5>1 DEF TakeBack, Proceed, TypeOK
      <4>2. CASE CreateAdapter \/ PrepareAdapter \/ BeginExperiment \/ EndExperiment
        <5>1. CASE CreateAdapter \/ PrepareAdapter
          BY <5>1 DEF CreateAdapter, PrepareAdapter, TypeOK
        <5>2. CASE BeginExperiment
          BY <5>2 DEF BeginExperiment
        <5>3. CASE EndExperiment
          BY <5>3 DEF EndExperiment, TypeOK
        <5> QED
          BY <4>2, <5>1, <5>2, <5>3
      <4>3. CASE EditRefused \/ CandidateAnswered \/ ReceiptRejected
        BY <4>3 DEF EditRefused, CandidateAnswered, ReceiptRejected, TakeBack, TypeOK
      <4>4. CASE CreateSession \/ SessionFails \/ CloseFails
        BY <4>4 DEF CreateSession, SessionFails, CloseFails, Unopened, TakeBack, TypeOK
      <4>5. CASE CandidateRevoked \/ EditRevoked \/ NothingRestored \/ NothingToRevoke
        BY <4>5, ZenonT(60) DEF CandidateRevoked, EditRevoked, NothingRestored, NothingToRevoke,
             Revoked,
             TypeOK
      <4>6. CASE Cleanup \/ EndCleanup
        BY <4>6 DEF Cleanup, EndCleanup, TypeOK
      <4> QED
        BY <4>1, <4>2, <4>3, <4>4, <4>5, <4>6, <2>4 DEF Apart
    <3> QED
      BY <1>2, <3>1
  <2> QED
    BY <2>2, <2>3, <2>4, <1>5
<1>6. CASE StopRoute
  BY <1>2, <1>6 DEF StopRoute
<1>7. CASE ModuleExits
  BY <1>2, <1>7, ExitEnds
<1>8. CASE ProxyDies \/ ModuleDies
  <2>1. UNCHANGED <<want, catalog, pending, phase>>
    BY <1>8 DEF ProxyDies, ModuleDies
  <2>2. Promised
    BY <1>2, <2>1 DEF Promised, Awaited
  <2>3. Up
    BY <1>1, <1>2, <1>8, FaultFits
  <2>4. Executes(blocker, want, catalog) => Executes(blocker', want, catalog)
    BY <1>1, <1>8, FaultFits, AlikeFits
  <2> QED
    BY <1>2, <2>1, <2>2, <2>3, <2>4 DEF PhaseReady
<1> QED
  BY <1>3, <1>4, <1>5, <1>6, <1>7, <1>8, StepsFit

\* What a failed request leaves is taken back, or is out of use as long as
\* nothing is wanted.
LEMMA FailureContainedStays ==
  ASSUME Control, FaithfulUntilDoomed, FailureContained, ~Deadlines, Next
  PROVE  FailureContained'
<1> USE DEF Control
<1>1. TypeOK /\ WellFormed(blocker) /\ want \in Wants /\ catalog \in Selection /\ routed \in BOOLEAN
  BY DEF ProcessInv, TypeOK
<1>2. SUFFICES ASSUME Up' PROVE Contained(blocker', want', catalog')
  BY DEF FailureContained
<1>3. ASSUME Up, NEW r \in Answers(want, catalog)
      PROVE  Contained(r.to, want, catalog)
  <2>1. /\ Contained(blocker, want, catalog)
        /\ want.rules = {} \/ want.edit = NoEdit
        /\ want # Idle => routed /\ blocker.started
    BY <1>3 DEF FailureContained, WantFollows
  <2>2. CASE want = Idle
    <3>1. r \in Answers(Idle, catalog)
      BY <1>3, <2>2
    <3> QED
      BY <3>1, <2>1, <2>2, <1>1, <1>3, TakenBackIsContained
  <2>3. CASE want # Idle
    BY <2>1, <2>3, <1>1, <1>3, AskedIsRevocable DEF Contained
  <2> QED
    BY <2>2, <2>3
<1>4. CASE Browsing
  <2>1. PICK r \in Answers(want, catalog) : blocker' = r.to /\ (Up' <=> Up)
    BY <1>1, <1>4, ServedFits DEF Browsing
  <2> QED
    BY <1>2, <1>3, <1>4, <2>1 DEF Browsing
<1>5. CASE Requesting(want', catalog')
  <2>1. want' \in Wants /\ catalog' \in Selection /\ Reconcile("phase", want', catalog')
    BY <1>5 DEF Requesting
  <2>2. PICK r \in Answers(want', catalog') : blocker' = r.to /\ (Up' <=> Up)
    BY <2>1, ServedFits
  <2>3. /\ want' # Idle => routed /\ blocker.started
        /\ want'.rules = {} \/ want'.edit = NoEdit
        /\ want' = want \/ want = Idle \/ want' = Idle
        /\ want' # want => catalog' = catalog
        /\ want' # want /\ want = Idle => phase.at = "next"
        /\ catalog' # catalog => phase.at = "next" /\ want' = want /\ want = Idle
    BY <1>5, RequestsWant
  <2>4. CASE want' = want /\ catalog' = catalog
    BY <1>2, <1>3, <2>2, <2>4
  <2>5. CASE catalog' # catalog
    <3>1. Clean(blocker) /\ want' = Idle
      BY <1>2, <2>2, <2>3, <2>5, TryingIsNotDoomed DEF FaithfulUntilDoomed
    <3>2. r \in Answers(Idle, catalog')
      BY <3>1
    <3>3. Clean(r.to)
      BY <3>1, <3>2, <2>1, <1>1, CleanStays
    <3> QED
      BY <3>1, <3>3, <2>2 DEF Contained, Clean, Harmless
  <2>6. CASE want' # want /\ want = Idle
    <3>1. Clean(blocker)
      BY <1>2, <2>2, <2>3, <2>6, TryingIsNotDoomed DEF FaithfulUntilDoomed
    <3> QED
      BY <3>1, <2>1, <2>2, <2>3, <2>6, <1>1, <1>2, AskedIsRevocable
  <2>7. CASE want' # want /\ want' = Idle
    <3>1. r \in Answers(Idle, catalog) /\ catalog' = catalog
      BY <2>3, <2>7
    <3>2. /\ Contained(blocker, want, catalog) /\ Up
          /\ want.rules = {} \/ want.edit = NoEdit
          /\ want # Idle => routed /\ blocker.started
      BY <1>2, <2>2 DEF FailureContained, WantFollows
    <3> QED
      BY <3>1, <3>2, <2>2, <2>7, <1>1, TakenBackIsContained
  <2> QED
    BY <2>3, <2>4, <2>5, <2>6, <2>7
<1>6. CASE Apart
  <2>1. blocker' = blocker /\ want' = want
        /\ (catalog' = catalog \/ CreateAdapter \/ PrepareAdapter)
    BY <1>6, ApartFits
  <2>2. Up
    BY <1>2, <2>1 DEF Up
  <2>3. CASE CreateAdapter \/ PrepareAdapter
    BY <2>1, <2>2, <2>3, PreparingIsClean DEF Contained, Clean, Harmless
  <2> QED
    BY <2>1, <2>2, <2>3 DEF FailureContained
<1>7. CASE StopRoute
  <2>1. PICK resets \in BOOLEAN :
          blocker' = IF blocker.module = "up" THEN Stop(blocker, resets) ELSE blocker
    BY <1>7 DEF StopRoute
  <2>2. Up
    BY <1>2, <2>1 DEF Up
  <2>3. /\ blocker'.enabled = blocker.enabled /\ blocker'.rules = blocker.rules
        /\ blocker'.file = blocker.file /\ blocker'.known = blocker.known
        /\ ~blocker'.addressed /\ blocker'.ran = Nothing
    BY <2>1, <2>2, <1>1, StopFits DEF Up
  <2>4. want = Idle /\ want' = want /\ catalog' = catalog
    BY <1>7 DEF StopRoute, WantFollows
  <2>5. Contained(blocker, want, catalog)
    BY <2>2 DEF FailureContained
  <2> QED
    BY <2>3, <2>4, <2>5 DEF Contained, Harmless, Leftover, Settled, Nothing, Idle
<1>8. CASE ModuleExits
  BY <1>2, <1>8, ExitEnds
<1>9. CASE ProxyDies \/ ModuleDies
  <2>1. UNCHANGED <<want, catalog>>
    BY <1>9 DEF ProxyDies, ModuleDies
  <2>2. Up
    BY <1>1, <1>2, <1>9, FaultFits
  <2>3. Contained(blocker, want, catalog) => Contained(blocker', want, catalog)
    BY <1>1, <1>9, FaultFits, AlikeFits
  <2> QED
    BY <2>1, <2>2, <2>3 DEF FailureContained
<1> QED
  BY <1>4, <1>5, <1>6, <1>7, <1>8, <1>9, StepsFit

\* What a session of the present phase is.
LEMMA LeaseIsSession ==
  ASSUME TypeOK, NEW s \in Session, s.of = phase.experiments, s.label = phase.label,
         s.candidate = phase.candidate
  PROVE  s \in {Lease(TRUE), Lease(FALSE)}
<1>1. s = [of |-> s.of, label |-> s.label, candidate |-> s.candidate, reaches |-> s.reaches]
  BY DEF Session
<1>2. s = Lease(s.reaches)
  BY <1>1 DEF Lease
<1>3. s.reaches = TRUE \/ s.reaches = FALSE
  BY DEF Session
<1> QED
  BY <1>2, <1>3

\* A new session is one of the present phase, whether it reaches the proxy.
LEMMA NewLeaseIsSession ==
  ASSUME TypeOK, phase.candidate \in Candidates, NEW reaches \in BOOLEAN
  PROVE  /\ Lease(reaches) \in Session /\ Lease(reaches) \in {Lease(TRUE), Lease(FALSE)}
         /\ Lease(reaches).reaches = reaches
<1>1. Lease(reaches) \in Session /\ Lease(reaches).reaches = reaches
  BY DEF Lease, Session, TypeOK
<1>2. reaches = TRUE \/ reaches = FALSE
  OBVIOUS
<1> QED
  BY <1>1, <1>2

\* Cutting the sessions of a phase leaves sessions of that phase.
LEMMA CutStaysOfPhase ==
  ASSUME TypeOK, NEW sessions \in SUBSET Session,
         sessions \subseteq {Lease(TRUE), Lease(FALSE)}
  PROVE  Cut(sessions) \subseteq {Lease(TRUE), Lease(FALSE)}
<1> SUFFICES ASSUME NEW s \in sessions
             PROVE  [s EXCEPT !.reaches = FALSE] \in {Lease(TRUE), Lease(FALSE)}
  BY DEF Cut
<1>1. s.of = phase.experiments /\ s.label = phase.label /\ s.candidate = phase.candidate
  BY DEF Lease
<1>2. s \in Session
  OBVIOUS
<1> DEFINE t == [s EXCEPT !.reaches = FALSE]
<1>3. t \in Session /\ t.of = s.of /\ t.label = s.label /\ t.candidate = s.candidate
  BY <1>2 DEF Session
<1> QED
  BY <1>1, <1>3, LeaseIsSession

\* Sessions are open while their phase is observed; one that is left open after
\* a failure ends the experiments, and the end of the run cuts it off.
LEMMA LeasesClosedStays ==
  ASSUME Control, LeasesClosed, ~Deadlines, Next
  PROVE  LeasesClosed'
<1> USE DEF Control
<1>1. TypeOK /\ leases \in SUBSET Session
  BY DEF TypeOK
<1>2. CASE Browsing
  <2>1. PICK r \in Answers(want, catalog) : leases' = IF r.cut THEN Cut(leases) ELSE leases
    BY <1>1, <1>2, ServedFits DEF Browsing, TypeOK
  <2>2. UNCHANGED <<adapter, phase, stage>>
    BY <1>2 DEF Browsing
  <2>3. Cut({}) = {}
    BY DEF Cut
  <2>4. (\A l \in leases : ~l.reaches) => (\A l \in leases' : ~l.reaches)
    BY <2>1, <1>1, CutFits
  <2>5. leases' # {} => leases # {}
    BY <2>1, <2>3
  <2>6. /\ Lease(TRUE)' = Lease(TRUE) /\ Lease(FALSE)' = Lease(FALSE)
    BY <2>2 DEF Lease
  <2>7. leases \subseteq {Lease(TRUE), Lease(FALSE)} =>
          leases' \subseteq {Lease(TRUE), Lease(FALSE)}
    BY <1>1, <2>1, CutStaysOfPhase
  <2> QED
    BY <2>2, <2>4, <2>5, <2>6, <2>7 DEF LeasesClosed
<1>3. CASE Requesting(want', catalog')
  <2>1. want' \in Wants /\ catalog' \in Selection /\ Reconcile("phase", want', catalog')
        /\ stage' = stage
    BY <1>3 DEF Requesting
  <2>2. PICK r \in Answers(want', catalog') : leases' = IF r.cut THEN Cut(leases) ELSE leases
    BY <2>1, ServedFits
  <2>3. Cut({}) = {}
    BY DEF Cut
  <2>4. leases' # {} => leases # {}
    BY <2>2, <2>3
  <2>5. adapter'.limited = adapter.limited
    BY <1>3, RequestsWant
  <2>6. phase.at \notin {"observing", "ended", "done"} /\ phase'.at # "observing"
    BY <1>3 DEF Requesting, OpenPhase, ApplyCandidate, ApplyEdit, ReadReceipt,
         RevokeCandidate, RevokeEdit, TypeOK
  <2>7. stage \notin {"stopping", "over"}
    BY <2>6 DEF Progress
  <2> QED
    BY <2>1, <2>4, <2>5, <2>6, <2>7 DEF LeasesClosed
<1>4. CASE BrowserAnswered
  <2>1. UNCHANGED <<adapter, phase, stage, leases>>
    BY <1>4 DEF BrowserAnswered
  <2> QED
    BY <2>1 DEF LeasesClosed, Lease
<1>5. CASE CreateAdapter \/ PrepareAdapter \/ BeginExperiment
  <2>1. UNCHANGED <<stage, leases>> /\ phase'.at # "observing"
    BY <1>5 DEF CreateAdapter, PrepareAdapter, BeginExperiment, served, TypeOK
  <2>2. stage = "running" /\ phase.at \in {"idle", "preparing"} /\ ~adapter.limited
    BY <1>5 DEF CreateAdapter, PrepareAdapter, BeginExperiment, CatalogFollows, Progress,
         TypeOK, Revoking
  <2>3. leases = {}
    BY <2>2 DEF LeasesClosed
  <2> QED
    BY <2>1, <2>2, <2>3 DEF LeasesClosed
<1>6. CASE \/ EditRefused \/ CandidateAnswered \/ ReceiptRejected \/ SessionAnswered
           \/ SessionFails
  <2>1. UNCHANGED <<stage, leases>> /\ phase.at \in Trying \cup {"next"}
        /\ phase.at # "observing"
    BY <1>6 DEF EditRefused, CandidateAnswered, ReceiptRejected, SessionAnswered,
         SessionFails, served, Trying
  <2>2. phase'.at # "observing"
    BY <1>6 DEF EditRefused, CandidateAnswered, ReceiptRejected, SessionAnswered,
         SessionFails, TakeBack, Unopened, TypeOK
  <2>3. stage = "running" /\ ~adapter.limited
    BY <2>1 DEF Progress, TypeOK, Trying, Revoking
  <2>4. leases = {}
    BY <2>1, <2>3 DEF LeasesClosed, Trying
  <2> QED
    BY <2>1, <2>2, <2>3, <2>4 DEF LeasesClosed
<1>7. CASE CreateSession
  <2>1. /\ leases' = leases \cup {Lease("route" \in held)} /\ phase.at = "creating"
        /\ phase' = [phase EXCEPT !.at = "observing"] /\ UNCHANGED <<adapter, stage>>
    BY <1>7 DEF CreateSession
  <2>2. stage = "running" /\ ~adapter.limited
    BY <2>1 DEF Progress, TypeOK, Trying, Revoking
  <2>3. leases = {}
    BY <2>1, <2>2 DEF LeasesClosed
  <2>4. phase'.at = "observing" /\ Lease(TRUE)' = Lease(TRUE) /\ Lease(FALSE)' = Lease(FALSE)
    BY <2>1 DEF Lease, TypeOK
  <2>5. Lease("route" \in held) \in {Lease(TRUE), Lease(FALSE)}
    <3>1. phase.candidate \in Candidates
      BY <2>1 DEF Progress, Trying
    <3>2. ("route" \in held) \in BOOLEAN
      OBVIOUS
    <3> QED
      BY <1>1, <3>1, <3>2, NewLeaseIsSession
  <2>6. leases' \subseteq {Lease(TRUE), Lease(FALSE)}
    BY <2>1, <2>3, <2>5
  <2> QED
    BY <2>1, <2>2, <2>4, <2>6 DEF LeasesClosed
<1>8. CASE ClosePhase
  <2>1. leases' = {} /\ phase.at = "observing" /\ UNCHANGED <<adapter, stage>>
    BY <1>8 DEF ClosePhase, LeasesClosed
  <2> QED
    BY <2>1 DEF LeasesClosed
<1>9. CASE CloseFails
  <2>1. /\ phase.at = "observing" /\ phase' = [phase EXCEPT !.at = "ended", !.failed = TRUE]
        /\ UNCHANGED <<adapter, stage, leases>>
    BY <1>9 DEF CloseFails, served
  <2>2. phase'.at = "ended" /\ phase'.failed
    BY <2>1 DEF TypeOK
  <2> QED
    BY <2>1, <2>2 DEF LeasesClosed
<1>10. CASE CandidateRevoked \/ EditRevoked \/ NothingRestored \/ NothingToRevoke
  <2>1. UNCHANGED <<stage, leases>> /\ phase.at \in Revoking
    BY <1>10 DEF CandidateRevoked, EditRevoked, NothingRestored, NothingToRevoke, served,
         Revoking
  <2>2. phase'.at # "observing"
    BY <1>10 DEF CandidateRevoked, EditRevoked, NothingRestored, NothingToRevoke, Revoked,
         TypeOK
  <2>3. adapter'.limited = adapter.limited
    BY <1>10 DEF CandidateRevoked, EditRevoked, NothingRestored, NothingToRevoke, TypeOK
  <2> QED
    BY <2>1, <2>2, <2>3 DEF LeasesClosed, Revoking
<1>11. CASE EndExperiment
  <2>1. /\ phase.at = "ended" /\ UNCHANGED <<stage, leases>>
        /\ adapter' = IF phase.failed THEN Limited(adapter) ELSE adapter
    BY <1>11 DEF EndExperiment, served
  <2>2. phase'.at = "idle"
    BY <1>11 DEF EndExperiment, TypeOK
  <2>3. (adapter.limited \/ phase.failed) => adapter'.limited
    BY <2>1 DEF Limited, TypeOK
  <2> QED
    BY <2>1, <2>2, <2>3 DEF LeasesClosed
<1>12. CASE Cleanup
  <2>1. stage' = "cleaning" /\ phase'.at = "revokeRule"
    BY <1>12 DEF Cleanup, TypeOK
  <2> QED
    BY <2>1 DEF LeasesClosed
<1>13. CASE EndCleanup
  <2>1. UNCHANGED <<stage, leases>> /\ phase.at = "cleaned"
    BY <1>13 DEF EndCleanup, served
  <2>2. phase'.at = "done" /\ adapter'.limited = adapter.limited
    BY <1>13 DEF EndCleanup, TypeOK
  <2> QED
    BY <2>1, <2>2 DEF LeasesClosed
<1>14. CASE StopRoute
  <2>1. leases' = Cut(leases) /\ stage' = "stopping" /\ phase'.at = "done"
    BY <1>14 DEF StopRoute
  <2> QED
    BY <2>1, <1>1, CutFits DEF LeasesClosed
<1>15. CASE ModuleExits
  <2>1. stage = "stopping" /\ stage' = "over" /\ UNCHANGED <<leases, phase>>
    BY <1>15 DEF ModuleExits
  <2>2. phase.at = "done"
    BY <2>1 DEF Progress
  <2> QED
    BY <2>1, <2>2 DEF LeasesClosed
<1>16. CASE ProxyDies \/ ModuleDies
  <2>1. UNCHANGED <<adapter, phase, stage, leases>>
    BY <1>16 DEF ProxyDies, ModuleDies
  <2> QED
    BY <2>1 DEF LeasesClosed, Lease
<1> QED
  BY <1>2, <1>3, <1>4, <1>5, <1>6, <1>7, <1>8, <1>9, <1>10, <1>11, <1>12, <1>13, <1>14,
       <1>15, <1>16, StepsFit
     DEF Apart

\* What the module executes for a phase is what the proof of the phase names
\* (Proven): an edit is of a list that is selected.
LEMMA ExecutedIsProven ==
  ASSUME Control, phase.at = "creating", blocker.addressed,
         Executes(blocker, want, catalog)
  PROVE  blocker.ran = Proven(Lease(TRUE))
<1> USE DEF Control
<1> DEFINE l == Lease(TRUE)
<1>1. l.label = phase.label /\ l.candidate = phase.candidate
  BY DEF Lease
<1>2. /\ catalog = (IF phase.label = "A" THEN {} ELSE Lists)
      /\ want = IF phase.label = "C" THEN Asked(phase.candidate) ELSE Idle
  BY DEF CatalogFollows, WantFollows, Trying
<1>3. catalog # Every
  BY <1>2, EnvironmentAssumption
<1>4. WellFormed(blocker) /\ blocker.child # "none"
  BY DEF ProcessInv, WellFormed
<1>5. blocker.ran = Spawned(blocker)
  BY <1>4 DEF WellFormed
<1>6. Active(blocker.enabled) = catalog /\ blocker.rules = want.rules /\ blocker.file = want.edit
  BY <1>3 DEF Executes, Active
<1>7. CASE phase.label # "C"
  <2>1. blocker.ran = [lists |-> catalog, rules |-> {}, edit |-> NoEdit]
    BY <1>2, <1>5, <1>6, <1>7 DEF Spawned, Idle
  <2> QED
    BY <2>1, <1>1, <1>2, <1>7 DEF Proven
<1>8. CASE phase.label = "C"
  <2>1. catalog = Lists /\ want.rules = {phase.candidate} \cap Rules
        /\ want.edit = IF phase.candidate \in Edits THEN phase.candidate ELSE NoEdit
    BY <1>2, <1>8 DEF Asked
  <2>2. phase.candidate \in Edits => ListOf[phase.candidate] \in Lists
    BY EnvironmentAssumption
  <2>3. blocker.ran = [lists |-> Lists, rules |-> {phase.candidate} \cap Rules,
                       edit |-> IF phase.candidate \in Edits THEN phase.candidate ELSE NoEdit]
    BY <2>1, <2>2, <1>5, <1>6 DEF Spawned
  <2> QED
    BY <2>3, <1>1, <1>8 DEF Proven
<1> QED
  BY <1>7, <1>8

\* A request that replaces the proxy cuts every session of it off; one that
\* does not finds what it asks for.
LEMMA ServedLeasesFit ==
  ASSUME Control, LeasesFit, NEW who \in {"phase", "browser"},
         want' \in Wants, catalog' \in Selection, Reconcile(who, want', catalog'),
         routed' = routed
  PROVE  LeasesFit'
<1> USE DEF Control
<1>1. TypeOK /\ WellFormed(blocker) /\ leases \in SUBSET Session /\ routed \in BOOLEAN
  BY DEF ProcessInv, TypeOK
<1>2. PICK r \in Answers(want', catalog') :
        /\ blocker' = r.to /\ (Up' <=> Up)
        /\ leases' = IF r.cut THEN Cut(leases) ELSE leases
        /\ blocker.started => r.to.started
  BY ServedFits
<1>3. SUFFICES ASSUME NEW l \in leases', l.reaches
               PROVE  /\ blocker'.started /\ routed' /\ blocker'.addressed
                      /\ blocker'.ran = Proven(l)
                      /\ Up' => Settled(blocker', want', catalog')
  <2>1. \A l \in leases' : l.reaches =>
               /\ blocker'.started /\ routed' /\ blocker'.addressed
               /\ blocker'.ran = Proven(l)
               /\ Up' => Settled(blocker', want', catalog')
    BY <1>3
  <2> QED
    BY <2>1 DEF LeasesFit, Proven
<1>4. ~r.cut /\ l \in leases
  BY <1>1, <1>2, <1>3, CutFits
<1>5. blocker.started /\ routed /\ blocker.addressed /\ blocker.ran = Proven(l)
  BY <1>3, <1>4 DEF LeasesFit
<1>6. /\ r.to.addressed = blocker.addressed /\ r.to.ran = blocker.ran
      /\ Up => Settled(r.to, want', catalog')
  BY <1>1, <1>4, <1>5, UncutFits
<1> QED
  BY <1>2, <1>5, <1>6

\* A session reaches the proxy of its own phase and no other, whatever asks the
\* module meanwhile and whatever fails (leases of the adapter).
LEMMA LeasesFitStays ==
  ASSUME Control, LeasesFit, LeasesClosed, PhaseReady, HeldIsPresent, FaithfulUntilDoomed,
         ~Deadlines, Next
  PROVE  LeasesFit'
<1> USE DEF Control
<1>1. TypeOK /\ WellFormed(blocker) /\ leases \in SUBSET Session /\ routed \in BOOLEAN
  BY DEF ProcessInv, TypeOK
<1>2. CASE Browsing
  <2>1. /\ want' = want /\ catalog' = catalog /\ routed' = routed
        /\ Reconcile("browser", want, catalog) /\ want \in Wants /\ catalog \in Selection
    BY <1>2 DEF Browsing, TypeOK
  <2>2. Reconcile("browser", want', catalog')
    BY <2>1
  <2> QED
    BY <2>1, <2>2, ServedLeasesFit
<1>3. CASE Requesting(want', catalog')
  BY <1>3, ServedLeasesFit DEF Requesting
<1>4. CASE CreateSession
  <2>1. /\ leases' = leases \cup {Lease("route" \in held)} /\ phase.at = "creating" /\ Told
        /\ UNCHANGED <<blocker, want, catalog, routed>>
    BY <1>4 DEF CreateSession
  <2>2. CASE "route" \in held
    <3>1. Up /\ blocker.started /\ blocker.addressed /\ routed
      BY <2>1, <2>2 DEF HeldIsPresent, Told, Up, RouteFollows
    <3>2. Promised
      BY <2>1 DEF Promised, OneAwaited, Waiting
    <3>3. Executes(blocker, want, catalog)
      BY <2>1, <3>1, <3>2 DEF PhaseReady
    <3>4. blocker.ran = Proven(Lease(TRUE)) /\ Settled(blocker, want, catalog)
      BY <2>1, <3>1, <3>3, ExecutedIsProven DEF Executes, Settled
    <3>5. Lease("route" \in held) = Lease(TRUE)
      BY <2>2 DEF Lease
    <3> QED
      BY <2>1, <3>1, <3>4, <3>5 DEF LeasesFit, Proven, Up
  <2>3. CASE "route" \notin held
    <3>1. ~Lease("route" \in held).reaches
      BY <2>3 DEF Lease
    <3> QED
      BY <2>1, <3>1 DEF LeasesFit, Proven, Up
  <2> QED
    BY <2>2, <2>3
<1>5. CASE CreateAdapter \/ PrepareAdapter
  <2>1. stage = "running" /\ phase.at \in {"idle", "preparing"} /\ ~adapter.limited
    BY <1>5 DEF CreateAdapter, PrepareAdapter, CatalogFollows, Progress, TypeOK, Revoking
  <2>2. leases' = {}
    BY <1>5, <2>1 DEF CreateAdapter, PrepareAdapter, served, LeasesClosed
  <2> QED
    BY <2>2 DEF LeasesFit
<1>6. CASE Apart /\ ~CreateSession /\ ~CreateAdapter /\ ~PrepareAdapter
  <2>1. blocker' = blocker /\ want' = want /\ catalog' = catalog
    BY <1>6, ApartFits
  <2>2. leases' \subseteq leases
    BY <1>6 DEF Apart, BrowserAnswered, BeginExperiment, EditRefused, CandidateAnswered,
         ReceiptRejected, SessionAnswered, SessionFails, ClosePhase, CloseFails,
         CandidateRevoked, EditRevoked, NothingRestored, NothingToRevoke, EndExperiment,
         Cleanup, EndCleanup, served
  <2>3. routed => routed'
    BY <1>6 DEF Apart, BrowserAnswered, BeginExperiment, EditRefused, CandidateAnswered,
         ReceiptRejected, SessionAnswered, SessionFails, ClosePhase, CloseFails,
         CandidateRevoked, EditRevoked, NothingRestored, NothingToRevoke, EndExperiment,
         Cleanup, EndCleanup, Answered
  <2> QED
    BY <2>1, <2>2, <2>3 DEF LeasesFit, Proven, Up
<1>7. CASE StopRoute
  <2>1. leases' = Cut(leases)
    BY <1>7 DEF StopRoute
  <2> QED
    BY <2>1, <1>1, CutFits DEF LeasesFit
<1>8. CASE ModuleExits
  <2>1. leases' = leases /\ stage = "stopping"
    BY <1>8 DEF ModuleExits
  <2> QED
    BY <2>1 DEF LeasesFit, LeasesClosed
<1>9. CASE ProxyDies \/ ModuleDies
  <2>1. UNCHANGED <<want, catalog, routed, leases>>
    BY <1>9 DEF ProxyDies, ModuleDies
  <2>2. /\ blocker'.started = blocker.started /\ blocker'.ran = blocker.ran
        /\ blocker'.addressed = blocker.addressed /\ (Up' => Up)
    BY <1>1, <1>9, FaultFits
  <2>3. Settled(blocker, want, catalog) => Settled(blocker', want, catalog)
    BY <1>1, <1>9, FaultFits, AlikeFits
  <2> QED
    BY <2>1, <2>2, <2>3 DEF LeasesFit, Proven
<1> QED
  BY <1>2, <1>3, <1>4, <1>5, <1>6, <1>7, <1>8, <1>9, StepsFit
-----------------------------------------------------------------------------
(* The theorems of a run whose experiments no deadline ends. *)

\* At first nothing is wanted, asked, routed or open.
LEMMA InitIsQuiet == Init => RunInv
<1> SUFFICES ASSUME Init PROVE RunInv
  OBVIOUS
<1>1. TypeOK /\ ProcessInv
  BY InitFits
<1>2. /\ want = Idle /\ catalog = Every /\ pending = <<>> /\ held = {} /\ leases = {}
      /\ stage = "running" /\ phase.at = "idle" /\ phase.label = "A" /\ ~phase.failed
      /\ ~adapter.limited /\ ~adapter.ready /\ adapter.cleanup = "none"
  BY DEF Init, Idle
<1>3. Awaited = {}
  BY <1>2 DEF Awaited
<1>4. OneAwaited /\ HeldIsPresent /\ Progress /\ LeasesClosed /\ LeasesFit /\ PhaseReady
  BY <1>2, <1>3 DEF OneAwaited, HeldIsPresent, Progress, LeasesClosed, LeasesFit,
       PhaseReady,
       Trying, Revoking
<1>5. WantFollows /\ CatalogFollows /\ RouteFollows
  BY <1>2 DEF WantFollows, CatalogFollows, RouteFollows, Idle, Trying, Revoking
<1>6. Clean(blocker)
  BY DEF Init, NewModule, Clean
<1>7. FaithfulUntilDoomed /\ FailureContained
  BY <1>2, <1>6 DEF FaithfulUntilDoomed, FailureContained, Contained, Clean, Harmless
<1> QED
  BY <1>1, <1>4, <1>5, <1>7 DEF RunInv

\* Every step keeps the inductive invariant.
LEMMA RunStays ==
  ASSUME RunInv, ~Deadlines, Next
  PROVE  RunInv'
<1> USE DEF RunInv
<1>1. Control
  BY DEF Control
<1>2. TypeOK' /\ ProcessInv'
  BY ProcessStays
<1>3. OneAwaited' /\ Progress' /\ WantFollows'
  BY OneAwaitedStays, ProgressStays, WantFollowsStays
<1>4. CatalogFollows' /\ RouteFollows'
  BY CatalogFollowsStays, RouteFollowsStays
<1>5. HeldIsPresent' /\ FaithfulUntilDoomed' /\ PhaseReady'
  BY <1>1, HeldIsPresentStays, FaithfulStays, PhaseReadyStays
<1>6. FailureContained' /\ LeasesClosed' /\ LeasesFit'
  BY <1>1, FailureContainedStays, LeasesClosedStays, LeasesFitStays
<1> QED
  BY <1>2, <1>3, <1>4, <1>5, <1>6

\* A step that changes nothing keeps it.
LEMMA RunRests ==
  ASSUME RunInv, UNCHANGED vars
  PROVE  RunInv'
<1>1. TypeOK' /\ ProcessInv'
  BY ProcessRests DEF RunInv
<1>2. (OneAwaited /\ HeldIsPresent /\ Progress)'
  BY DEF RunInv, vars, OneAwaited, HeldIsPresent, Progress, Awaited, Up
<1>3. (WantFollows /\ CatalogFollows /\ RouteFollows)'
  BY DEF RunInv, vars, WantFollows, CatalogFollows, RouteFollows
<1>4. (FaithfulUntilDoomed /\ PhaseReady /\ FailureContained)'
  BY DEF RunInv, vars, FaithfulUntilDoomed, PhaseReady, FailureContained, Doomed, Promised,
         Awaited, Up
<1>5. (LeasesClosed /\ LeasesFit)'
  BY DEF RunInv, vars, LeasesClosed, LeasesFit, Lease, Proven, Up
<1> QED
  BY <1>1, <1>2, <1>3, <1>4, <1>5 DEF RunInv

\* As long as no deadline answers an experiment that failed, the module is in
\* every state where the route's requests, heard and unheard, left it: what
\* nothing failed executes what is wanted, and what failed is contained.
THEOREM RunIsContained ==
  ASSUME ~Deadlines
  PROVE  Spec => []RunInv
<1>1. Init => RunInv
  BY InitIsQuiet
<1>2. RunInv /\ [Next]_vars => RunInv'
  BY RunStays, RunRests
<1> QED
  BY <1>1, <1>2, PTL DEF Spec

\* Whatever launch, answer or close failed before, and whatever else asks the
\* module meanwhile, the proxy a phase session reaches executes exactly what
\* the proof of its phase names (openPhase of the adapter over apply of the
\* blocker).
THEOREM PhasesRunWhatTheyProve ==
  ASSUME ~Deadlines
  PROVE  Spec => []PhaseRunsWhatItProves
<1>1. RunInv => PhaseRunsWhatItProves
  BY DEF RunInv, LeasesFit, PhaseRunsWhatItProves
<1> QED
  BY <1>1, RunIsContained, PTL

\* A cleanup that reports completion leaves the route on a proxy that executes
\* nothing of a candidate, whichever attempt to take one back failed (cleanup).
THEOREM CleanupRestores ==
  ASSUME ~Deadlines
  PROVE  Spec => []CompletedCleanupRestores
<1>1. ASSUME RunInv PROVE CompletedCleanupRestores
  <2>1. SUFFICES ASSUME adapter.cleanup = "completed", "route" \in held, Up
                 PROVE  blocker.ran.rules = {} /\ blocker.ran.edit = NoEdit
    BY DEF CompletedCleanupRestores, Up
  <2>2. want = Idle
    BY <1>1, <2>1 DEF RunInv, Progress, WantFollows
  <2>3. blocker.addressed
    BY <1>1, <2>1 DEF RunInv, HeldIsPresent
  <2>4. Harmless(blocker)
    BY <1>1, <2>1, <2>2, <2>3 DEF RunInv, FailureContained, Contained, Leftover
  <2>5. blocker.ran = Spawned(blocker)
    BY <1>1, <2>3 DEF RunInv, ProcessInv, WellFormed
  <2> QED
    BY <2>4, <2>5 DEF Harmless, Spawned
<1> QED
  BY <1>1, RunIsContained, PTL

\* A launch_browser never cuts a phase session off its proxy: where one reaches
\* it, the request finds nothing to do (openBrowserSession of the route).
THEOREM EvidenceSpares ==
  ASSUME ~Deadlines
  PROVE  Spec => EvidenceSparesPhase
<1>1. ASSUME RunInv, Next, browser = "idle", browser' = "asking"
      PROVE  leases' = leases
  <2>1. Control
    BY <1>1 DEF RunInv, Control
  <2>2. LaunchBrowser \/ LaunchLate
    BY <1>1 DEF Next, BrowserAnswered, CreateAdapter, PrepareAdapter, BeginExperiment,
         OpenPhase, ApplyCandidate, ApplyEdit, EditRefused, CandidateAnswered, ReadReceipt,
         ReceiptRejected, SessionAnswered, CreateSession, SessionFails, ClosePhase, CloseFails,
         RevokeCandidate, CandidateRevoked, RevokeEdit, EditRevoked, NothingRestored,
         NothingToRevoke, EndExperiment, Cleanup, EndCleanup, StopRoute, ModuleExits,
         ProxyDies, ModuleDies
  <2>3. Reconcile("browser", want, catalog)
    BY <2>2 DEF LaunchBrowser, LaunchLate
  <2>4. /\ WellFormed(blocker) /\ want \in Wants /\ catalog \in Selection
        /\ routed \in BOOLEAN /\ leases \in SUBSET Session
    BY <2>1 DEF Control, ProcessInv, TypeOK
  <2>5. PICK r \in Answers(want, catalog) : leases' = IF r.cut THEN Cut(leases) ELSE leases
    BY <2>1, <2>3, <2>4, ServedFits
  <2>6. CASE \E l \in leases : l.reaches
    <3>1. blocker.started /\ (Up => Settled(blocker, want, catalog))
      BY <1>1, <2>6 DEF RunInv, LeasesFit
    <3>2. ~r.cut
      BY <2>4, <3>1, UndisturbedFits
    <3> QED
      BY <2>5, <3>2
  <2>7. CASE \A l \in leases : ~l.reaches
    BY <2>4, <2>5, <2>7, CutFits
  <2> QED
    BY <2>6, <2>7
<1>2. RunInv /\ [Next]_vars => [(browser = "idle" /\ browser' = "asking") => leases' = leases]_vars
  BY <1>1
<1> QED
  BY <1>2, RunIsContained, PTL DEF Spec, EvidenceSparesPhase
===============================================================================
