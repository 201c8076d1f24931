------------------------ MODULE CandidateLedgerProofs ------------------------
(***************************************************************************)
(* Proofs about CandidateLedger, for any number of candidates, plans and   *)
(* calls and for every limit, where the agent's apply_rule calls follow    *)
(* one another (MaxParallel = 1).  A call that has outlived its deadline   *)
(* goes on beside the next one, as often as the agent likes: it has lost   *)
(* its say, and what a call on time relies on (Entitled) outlasts it.      *)
(***************************************************************************)
EXTENDS CandidateLedger, FiniteSetTheorems, TLAPS

OnTime(c) == Working(c) /\ ~Aborted(c)

\* The agent waits for one answer at a time.
Alone == \A c, d \in Calls : Attended(c) /\ Attended(d) => c = d

Ranked ==
  /\ NumbersAreRanks
  /\ \A j, k \in Registered : attempt[j] = attempt[k] => j = k

\* The records of a candidate agree with each other.
Accounted(k) ==
  /\ attempt[k] = 0 => tried[k] = {} /\ outcome[k] = NoOutcome
  /\ attempt[k] # 0 => tried[k] # {}
  /\ outcome[k] = NoOutcome => executions[k] = 0
  /\ outcome[k] # NoOutcome => attempt[k] = outcome[k].number
  /\ executions[k] > 0 => executions[k] < MaxExecutions + Cardinality(tried[k])

\* What a call relies on: while it is on time nobody else renumbers or judges
\* its candidate, and there is room for its own verdict.
Entitled(c) ==
  LET k == call[c].candidate
  IN  /\ Working(c) => k \in Candidates /\ call[c].plan \in Plans /\ call[c].number # 0
      /\ OnTime(c) =>
           /\ attempt[k] = call[c].number
           /\ executions[k] + 1 < MaxExecutions + Cardinality(tried[k])
           /\ call[c].fresh =>
                call[c].number = Cardinality(Registered) /\ outcome[k] = NoOutcome

\* Experiments in progress.
Experimenting == {c \in Calls : call[c].at \in {"running", "opening"}}

\* Every verdict and every absent symptom is an experiment of the run that is over.
Counted ==
  /\ \A k \in Candidates : executions[k] + Cardinality(Experimenting) <= ordinal
  /\ \A kp \in Candidates \X Plans : absent[kp] + Cardinality(Experimenting) <= ordinal

\* As long as no call was left behind, the current experiment is the call's own.
OwnsExperiment(c) ==
  /\ c \in Experimenting => call[c].own # 0
  /\ ~overdue =>
       /\ call[c].deadline # "detached"
       /\ c \in Experimenting => call[c].own = ordinal
       /\ call[c].at = "opening" => call[c].opened = ordinal

IInv ==
  /\ TypeOK /\ Alone /\ Ranked /\ Counted
  /\ \A k \in Candidates : Accounted(k)
  /\ \A c \in Calls : Entitled(c) /\ OwnsExperiment(c)
------------------------------------------------------------------------------
(* The state a step starts from *)

\* The fields of a call and their types.
LEMMA Fields ==
  ASSUME TypeOK, NEW c \in Calls
  PROVE  /\ call \in [Calls -> Call] /\ call[c] \in Call
         /\ call[c].at \in {"idle", "preparing", "ready", "running", "opening"}
         /\ call[c].candidate \in Candidates \cup {NoCandidate}
         /\ call[c].plan \in Plans \cup {NoPlan}
         /\ call[c].number \in 0 .. MaxCandidates /\ call[c].fresh \in BOOLEAN
         /\ call[c].own \in Ordinals /\ call[c].opened \in Ordinals
         /\ call[c].deadline \in {"attended", "expired", "detached"}
  BY DEF TypeOK, Call

\* The limits are numbers.
LEMMA Limits ==
  /\ MaxCandidates \in Nat /\ MaxExecutions \in Nat \ {0} /\ MaxExperiments \in Nat
  /\ MaxParallel \in Nat /\ MaxSessions \in Nat \ {0}
  BY LedgerAssumption

\* A call that has not begun, in its record and in words.
LEMMA IdleCall ==
  /\ Idle \in Call /\ Idle.at = "idle" /\ Idle.deadline = "attended"
  BY Limits DEF Idle, Call, Ordinals

\* The call that is admitted, its type and its fields.
Admitted(at, k, p, a, fresh) ==
  [Idle EXCEPT !.at = at, !.candidate = k, !.plan = p, !.number = a, !.fresh = fresh]

\* The record of a call that starts is a call.
LEMMA NewCall ==
  ASSUME NEW at \in {"ready", "preparing"}, NEW k \in Candidates, NEW p \in Plans,
         NEW a \in 0 .. MaxCandidates, NEW fresh \in BOOLEAN, NEW x,
         x = Admitted(at, k, p, a, fresh)
  PROVE  /\ x \in Call /\ x.at = at /\ x.deadline = "attended"
         /\ x.candidate = k /\ x.plan = p /\ x.number = a /\ x.fresh = fresh
<1>1. 0 \in Ordinals
  BY Limits DEF Ordinals
<1>2. x = [at |-> at, candidate |-> k, plan |-> p, number |-> a, fresh |-> fresh,
           own |-> 0, opened |-> 0, deadline |-> "attended"]
  BY DEF Admitted, Idle
<1>3. x \in Call
  BY <1>1, <1>2 DEF Call
<1> QED
  BY <1>2, <1>3

\* The sets that are counted are finite.
LEMMA CountedSets ==
  ASSUME TypeOK
  PROVE  /\ IsFiniteSet(Registered) /\ Cardinality(Registered) \in Nat
         /\ IsFiniteSet(Experimenting) /\ Cardinality(Experimenting) \in Nat
         /\ \A k \in Candidates : IsFiniteSet(tried[k]) /\ Cardinality(tried[k]) \in Nat
<1>1. Registered \subseteq Candidates /\ Experimenting \subseteq Calls
  BY DEF Registered, Experimenting
<1>2. IsFiniteSet(Registered) /\ IsFiniteSet(Experimenting)
  BY <1>1, FS_Subset, LedgerAssumption
<1>3. ASSUME NEW k \in Candidates PROVE IsFiniteSet(tried[k])
  <2>1. IsFiniteSet(Sessions)
    BY FS_Interval, Limits DEF Sessions
  <2>2. tried[k] \subseteq Sessions
    BY DEF TypeOK
  <2> QED
    BY <2>1, <2>2, FS_Subset
<1> QED
  BY <1>2, <1>3, FS_CardinalityType

\* While the agent may call, no call is on time or its deadline expired.
LEMMA NoneAttended ==
  ASSUME MaxParallel = 1, MayCall
  PROVE  \A c \in Calls : ~Attended(c)
<1> SUFFICES ASSUME NEW c \in Calls, Attended(c) PROVE FALSE
  OBVIOUS
<1> DEFINE A == {d \in Calls : Attended(d)}
<1>1. IsFiniteSet(A)
  BY FS_Subset, LedgerAssumption
<1>2. A # {} /\ Cardinality(A) \in Nat /\ Cardinality(A) < 1
  BY <1>1, FS_CardinalityType DEF MayCall
<1> HIDE DEF A
<1> QED
  BY <1>1, <1>2, FS_EmptySet
------------------------------------------------------------------------------
(* Numbers of candidates *)

\* Registering a candidate gives it the next number.
LEMMA Registering ==
  ASSUME TypeOK, Ranked, NEW k \in Candidates, attempt[k] = 0,
         attempt' = [attempt EXCEPT ![k] = Cardinality(Registered) + 1]
  PROVE  Ranked' /\ Cardinality(Registered') = Cardinality(Registered) + 1
<1> DEFINE n == Cardinality(Registered)
<1>1. n \in Nat /\ IsFiniteSet(Registered) /\ k \notin Registered
  BY CountedSets DEF Registered
<1>2. /\ attempt \in [Candidates -> 0 .. MaxCandidates]
      /\ {attempt[j] : j \in Registered} = 1 .. n
  BY DEF TypeOK, Ranked, NumbersAreRanks
<1>3. attempt'[k] = n + 1 /\ \A j \in Candidates \ {k} : attempt'[j] = attempt[j]
  BY <1>2
<1>4. Registered' = Registered \cup {k}
  <2>1. n + 1 # 0
    BY <1>1
  <2>2. attempt'[k] # 0
    BY <1>3, <2>1
  <2>3. \A j \in Candidates : j \in Registered' <=> j \in Registered \cup {k}
    BY <1>3, <2>2 DEF Registered
  <2> QED
    BY <2>3 DEF Registered
<1>5. Cardinality(Registered') = n + 1
  BY <1>1, <1>4, FS_AddElement
<1>6. {attempt'[j] : j \in Registered'} = {attempt[j] : j \in Registered} \cup {n + 1}
  <2>1. \A j \in Registered : j # k /\ attempt'[j] = attempt[j]
    BY <1>1, <1>3 DEF Registered
  <2> HIDE DEF n
  <2> QED
    BY <1>3, <1>4, <2>1
<1>7. \A j \in Registered : attempt[j] \in 1 .. n
  BY <1>2
<1> HIDE DEF n
<1>8. (1 .. n) \cup {n + 1} = 1 .. n + 1
  BY <1>1
<1>9. NumbersAreRanks'
  BY <1>2, <1>5, <1>6, <1>8 DEF NumbersAreRanks
<1>10. ASSUME NEW i \in Registered', NEW j \in Registered', attempt'[i] = attempt'[j]
       PROVE  i = j
  <2>1. i \in Registered /\ j \in Registered => i = j
    BY <1>1, <1>3, <1>10 DEF Ranked, Registered
  <2>2. \A l \in Registered : attempt'[l] \in 1 .. n
    BY <1>1, <1>3, <1>7 DEF Registered
  <2> QED
    BY <1>1, <1>3, <1>4, <1>10, <2>1, <2>2
<1> QED
  BY <1>5, <1>9, <1>10 DEF Ranked, n

\* Releasing the candidate with the last number leaves the others numbered.
LEMMA Releasing ==
  ASSUME TypeOK, Ranked, NEW k \in Candidates, attempt[k] = Cardinality(Registered),
         attempt[k] # 0, attempt' = [attempt EXCEPT ![k] = 0]
  PROVE  Ranked'
<1> DEFINE n == Cardinality(Registered)
<1>1. n \in Nat \ {0} /\ IsFiniteSet(Registered) /\ k \in Registered
  BY CountedSets DEF Registered
<1>2. /\ attempt \in [Candidates -> 0 .. MaxCandidates]
      /\ {attempt[j] : j \in Registered} = 1 .. n
      /\ \A i, j \in Registered : attempt[i] = attempt[j] => i = j
  BY DEF TypeOK, Ranked, NumbersAreRanks
<1>3. attempt'[k] = 0 /\ \A j \in Candidates \ {k} : attempt'[j] = attempt[j]
  BY <1>2
<1>4. Registered' = Registered \ {k}
  BY <1>3 DEF Registered
<1>5. Cardinality(Registered') = n - 1
  BY <1>1, <1>4, FS_RemoveElement
<1>6. attempt[k] = n
  OBVIOUS
<1> HIDE DEF n
<1>7. {attempt'[j] : j \in Registered'} = 1 .. n - 1
  <2>1. ASSUME NEW j \in Registered' PROVE attempt'[j] \in 1 .. n - 1
    <3>1. j \in Registered /\ j # k /\ j \in Candidates
      BY <1>4, <2>1 DEF Registered
    <3>2. attempt[j] \in 1 .. n /\ attempt[j] # n
      BY <1>1, <1>2, <1>6, <3>1
    <3> QED
      BY <1>1, <1>3, <3>1, <3>2
  <2>2. ASSUME NEW i \in 1 .. n - 1 PROVE \E j \in Registered' : attempt'[j] = i
    <3>1. i \in 1 .. n /\ i # n
      BY <1>1, <2>2
    <3>2. PICK j \in Registered : attempt[j] = i
      BY <1>2, <3>1
    <3>3. j # k /\ j \in Candidates
      BY <1>6, <3>1, <3>2 DEF Registered
    <3> QED
      BY <1>3, <1>4, <3>2, <3>3
  <2> QED
    BY <2>1, <2>2
<1>8. NumbersAreRanks'
  BY <1>5, <1>7 DEF NumbersAreRanks
<1> QED
  BY <1>2, <1>3, <1>4, <1>8 DEF Ranked, Registered
------------------------------------------------------------------------------
(* The records and the steps of a call *)

Records ==
  /\ Alone /\ Ranked
  /\ \A k \in Candidates : Accounted(k)
  /\ \A c \in Calls : Entitled(c)

\* Nobody but c moves.
Only(c) == call' \in [Calls -> Call] /\ \A d \in Calls \ {c} : call'[d] = call[d]

\* c works on for the same answer, and a deadline that is over stays over.
Continues(c) ==
  /\ Working(c) /\ Working(c)'
  /\ call'[c].candidate = call[c].candidate /\ call'[c].plan = call[c].plan
  /\ call'[c].number = call[c].number /\ call'[c].fresh = call[c].fresh
  /\ Attended(c)' => Attended(c)
  /\ OnTime(c)' => OnTime(c)

\* Steps that leave the records of all candidates alone keep what is said of them.
LEMMA QuietKeeps ==
  ASSUME TypeOK, Records, NEW c \in Calls, UNCHANGED <<attempt, tried, executions, outcome>>,
         Only(c), call'[c] = Idle \/ Continues(c)
  PROVE  Records'
<1>1. call'[c] = Idle => ~Working(c)' /\ ~Attended(c)' /\ ~OnTime(c)'
  BY IdleCall DEF Working, Attended, OnTime
<1>2. \A d \in Calls : /\ Working(d)' => Working(d)
                       /\ Attended(d)' => Attended(d)
                       /\ OnTime(d)' => OnTime(d)
                       /\ Working(d)' => /\ call'[d].candidate = call[d].candidate
                                         /\ call'[d].plan = call[d].plan
                                         /\ call'[d].number = call[d].number
                                         /\ call'[d].fresh = call[d].fresh
  BY <1>1 DEF Only, Continues, Working, Attended, OnTime, Aborted
<1>3. Alone'
  BY <1>2 DEF Records, Alone
<1>4. Ranked' /\ Registered' = Registered
  BY DEF Records, Ranked, NumbersAreRanks, Registered
<1>5. \A k \in Candidates : Accounted(k)'
  BY DEF Records, Accounted
<1>6. ASSUME NEW d \in Calls PROVE Entitled(d)'
  <2>1. Entitled(d) /\ (OnTime(d)' => Working(d)')
    BY DEF Records, OnTime
  <2> QED
    BY <1>2, <1>4, <2>1 DEF Entitled
<1> QED
  BY <1>3, <1>4, <1>5, <1>6 DEF Records

\* An admitted call has the next number or its old one, and room for a verdict;
\* one that ends before its first await only leaves the registration behind.
LEMMA ApplyKeeps ==
  ASSUME MaxParallel = 1, TypeOK, Records, NEW c \in Calls, NEW k \in Candidates, NEW p \in Plans,
         Apply(c, k, p)
  PROVE  /\ Records' /\ Only(c)
         /\ attempt' \in [Candidates -> 0 .. MaxCandidates]
         /\ tried' \in [Candidates -> SUBSET Sessions]
         /\ \/ call' = call
            \/ /\ call'[c].at \in {"ready", "preparing"} /\ call'[c].deadline = "attended"
<1> DEFINE n == Cardinality(Registered)
           a == NumberOf(k)
           at == IF built THEN "ready" ELSE "preparing"
           fresh == attempt[k] = 0
           x == Admitted(at, k, p, a, fresh)
<1>1. /\ \A d \in Calls : ~Attended(d) /\ ~OnTime(d)
      /\ Admits(k, p)
      /\ attempt' = [attempt EXCEPT ![k] = a]
      /\ tried' = [tried EXCEPT ![k] = @ \cup {session}]
      /\ UNCHANGED <<executions, judged, outcome, absent>>
      /\ call' = call \/ call' = [call EXCEPT ![c] = x]
  BY NoneAttended DEF Apply, Attended, OnTime, Aborted, Admitted
<1>2. /\ n \in Nat /\ attempt \in [Candidates -> 0 .. MaxCandidates]
      /\ tried \in [Candidates -> SUBSET Sessions] /\ session \in Sessions
      /\ call \in [Calls -> Call] /\ executions \in [Candidates -> Ordinals]
      /\ IsFiniteSet(tried[k]) /\ Cardinality(tried[k]) \in Nat
  BY CountedSets DEF TypeOK
<1>3. /\ attempt[k] # 0 => a = attempt[k]
      /\ attempt[k] = 0 => a = n + 1 /\ n < MaxCandidates
      /\ a \in 1 .. MaxCandidates
  BY <1>1, <1>2, Limits DEF Admits, NumberOf
<1>4. Ranked' /\ (attempt[k] = 0 => Cardinality(Registered') = n + 1)
  <2>1. CASE attempt[k] = 0
    BY <1>1, <1>3, <2>1, Registering DEF Records
  <2>2. CASE attempt[k] # 0
    <3>1. attempt' = attempt
      BY <1>1, <1>2, <1>3, <2>2
    <3>2. Registered' = Registered
      BY <3>1 DEF Registered
    <3> QED
      BY <2>2, <3>1, <3>2 DEF Records, Ranked, NumbersAreRanks
  <2> QED
    BY <2>1, <2>2
<1>5. /\ attempt' \in [Candidates -> 0 .. MaxCandidates]
      /\ tried' \in [Candidates -> SUBSET Sessions]
      /\ attempt'[k] = a /\ tried'[k] = tried[k] \cup {session}
      /\ \A j \in Candidates \ {k} : attempt'[j] = attempt[j] /\ tried'[j] = tried[j]
  BY <1>1, <1>2, <1>3, Limits
<1>6. Accounted(k) /\ executions[k] \in Nat
  BY <1>2 DEF Records, Ordinals
<1>7. /\ Cardinality(tried'[k]) \in Nat /\ Cardinality(tried'[k]) >= Cardinality(tried[k])
      /\ session \notin tried[k] => Cardinality(tried'[k]) = Cardinality(tried[k]) + 1
      /\ Cardinality(tried'[k]) >= 1
  <2>1. CASE session \in tried[k]
    <3>1. tried'[k] = tried[k] /\ tried[k] # {}
      BY <1>5, <2>1
    <3>2. Cardinality(tried[k]) # 0
      BY <1>2, <3>1, FS_EmptySet
    <3> QED
      BY <1>2, <2>1, <3>1, <3>2
  <2>2. CASE session \notin tried[k]
    <3>1. Cardinality(tried[k] \cup {session}) = Cardinality(tried[k]) + 1
      BY <1>2, <2>2, FS_AddElement
    <3> QED
      BY <1>2, <1>5, <2>2, <3>1
  <2> QED
    BY <2>1, <2>2
<1>8. executions[k] + 1 < MaxExecutions + Cardinality(tried'[k])
  <2>1. CASE executions[k] = 0 \/ executions[k] < MaxExecutions
    BY <1>6, <1>7, <2>1, Limits
  <2>2. CASE executions[k] # 0 /\ ~(executions[k] < MaxExecutions)
    <3>1. attempt[k] # 0 /\ outcome[k] # NoOutcome
      BY <1>6, <2>2 DEF Accounted
    <3>2. session \notin tried[k]
      BY <1>1, <2>2, <3>1 DEF Admits, MayRetry, IsUntriedPlan
    <3> QED
      BY <1>2, <1>6, <1>7, <2>2, <3>2, Limits DEF Accounted
  <2> QED
    BY <2>1, <2>2
<1>9. ASSUME NEW j \in Candidates PROVE Accounted(j)'
  <2>1. CASE j = k
    <3>1. attempt'[k] # 0 /\ tried'[k] # {}
      BY <1>3, <1>5
    <3>2. executions[k] > 0 => executions[k] < MaxExecutions + Cardinality(tried'[k])
      BY <1>6, <1>7, <1>8, Limits
    <3>3. outcome[k] # NoOutcome => attempt'[k] = outcome[k].number
      BY <1>3, <1>5, <1>6 DEF Accounted
    <3> QED
      BY <1>1, <1>6, <2>1, <3>1, <3>2, <3>3 DEF Accounted
  <2>2. CASE j # k
    <3>1. Accounted(j)
      BY DEF Records
    <3> QED
      BY <1>1, <1>5, <2>2, <3>1 DEF Accounted
  <2> QED
    BY <2>1, <2>2
<1>10. /\ x \in Call /\ x.at \in {"ready", "preparing"} /\ x.deadline = "attended"
       /\ x.candidate = k /\ x.plan = p /\ x.number = a /\ x.fresh = fresh
  <2>1. at \in {"ready", "preparing"} /\ fresh \in BOOLEAN
    OBVIOUS
  <2>2. a \in 0 .. MaxCandidates
    BY <1>3, Limits
  <2> HIDE DEF at, fresh, a
  <2>3. x = Admitted(at, k, p, a, fresh)
    OBVIOUS
  <2> HIDE DEF x
  <2> QED
    BY <2>1, <2>2, <2>3, NewCall
<1> HIDE DEF x, a, n
<1>12. CASE call' = call
  <2>1. Only(c) /\ Alone'
    BY <1>2, <1>12 DEF Only, Records, Alone, Attended, Working
  <2>2. ASSUME NEW d \in Calls PROVE Entitled(d)'
    <3>1. Entitled(d) /\ ~OnTime(d)
      BY <1>1 DEF Records
    <3> QED
      BY <1>12, <3>1 DEF Entitled, OnTime, Working, Aborted
  <2> QED
    BY <1>4, <1>5, <1>9, <1>12, <2>1, <2>2 DEF Records
<1>13. CASE call' = [call EXCEPT ![c] = x]
  <2>1. Only(c) /\ call'[c] = x
    BY <1>2, <1>10, <1>13 DEF Only
  <2>2. Alone'
    BY <1>1, <2>1 DEF Only, Alone, Attended, Working
  <2>3. ASSUME NEW d \in Calls \ {c} PROVE Entitled(d)'
    <3>1. Entitled(d) /\ ~OnTime(d) /\ call'[d] = call[d]
      BY <1>1, <2>1 DEF Records, Only
    <3> QED
      BY <3>1 DEF Entitled, OnTime, Working, Aborted
  <2>4. Entitled(c)'
    <3>1. attempt[k] = 0 => a = Cardinality(Registered') /\ outcome[k] = NoOutcome
      BY <1>3, <1>4, <1>6 DEF Accounted, n
    <3>2. a # 0
      BY <1>3
    <3> QED
      BY <1>1, <1>5, <1>8, <1>10, <2>1, <3>1, <3>2 DEF Entitled
  <2> QED
    BY <1>4, <1>5, <1>9, <1>10, <2>1, <2>2, <2>3, <2>4 DEF Records
<1> QED
  BY <1>1, <1>12, <1>13

\* The end of a call.
LEMMA EndWrites ==
  ASSUME TypeOK, NEW c \in Calls, End(c)
  PROVE  Only(c) /\ call'[c] = Idle
  BY IdleCall DEF TypeOK, End, Only

\* Whoever is on time is alone.
LEMMA AloneOnTime ==
  ASSUME Alone, NEW c \in Calls, NEW d \in Calls, OnTime(c), OnTime(d)
  PROVE  c = d
  BY DEF Alone, OnTime, Attended, Aborted

\* An unsupported candidate is released by the call that registered it.
LEMMA UnsupportedKeeps ==
  ASSUME TypeOK, Records, NEW c \in Calls, Working(c), AnswerUnsupported(c)
  PROVE  /\ Records' /\ Only(c) /\ call'[c] = Idle
         /\ attempt' \in [Candidates -> 0 .. MaxCandidates]
         /\ tried' \in [Candidates -> SUBSET Sessions]
<1> DEFINE k == call[c].candidate
<1>1. /\ attempt \in [Candidates -> 0 .. MaxCandidates]
      /\ tried \in [Candidates -> SUBSET Sessions]
      /\ k \in Candidates /\ Accounted(k) /\ Entitled(c)
  BY DEF TypeOK, Records, Entitled
<1>2. /\ End(c)
      /\ attempt' = [attempt EXCEPT ![k] = IF Releases(c) THEN 0 ELSE @]
      /\ tried' = [tried EXCEPT ![k] = IF Releases(c) THEN {} ELSE @]
      /\ UNCHANGED <<executions, judged, outcome, absent>>
  BY DEF AnswerUnsupported
<1>3. Only(c) /\ call'[c] = Idle
  BY <1>2, EndWrites
<1>4. CASE ~Releases(c)
  <2>1. attempt' = attempt /\ tried' = tried
    BY <1>1, <1>2, <1>4
  <2> QED
    BY <1>1, <1>2, <1>3, <2>1, QuietKeeps
<1>5. CASE Releases(c)
  <2>1. attempt' = [attempt EXCEPT ![k] = 0] /\ tried' = [tried EXCEPT ![k] = {}]
    BY <1>1, <1>2, <1>5
  <2>2. /\ attempt' \in [Candidates -> 0 .. MaxCandidates]
        /\ tried' \in [Candidates -> SUBSET Sessions]
        /\ attempt'[k] = 0 /\ tried'[k] = {}
        /\ \A j \in Candidates \ {k} : attempt'[j] = attempt[j] /\ tried'[j] = tried[j]
    BY <1>1, <2>1, Limits
  <2>3. OnTime(c) /\ call[c].fresh
    BY <1>5 DEF Releases, OnTime
  <2>4. attempt[k] = Cardinality(Registered) /\ attempt[k] # 0 /\ outcome[k] = NoOutcome
    BY <1>1, <2>3, CountedSets DEF Entitled, OnTime
  <2>5. Ranked'
    BY <1>1, <2>1, <2>4, Releasing DEF Records
  <2>6. ASSUME NEW j \in Candidates PROVE Accounted(j)'
    <3>1. Accounted(j)
      BY DEF Records
    <3>2. CASE j = k
      BY <1>1, <1>2, <2>2, <2>4, <3>2 DEF Accounted
    <3>3. CASE j # k
      BY <1>2, <2>2, <3>1, <3>3 DEF Accounted
    <3> QED
      BY <3>2, <3>3
  <2>7. ~Working(c)' /\ ~Attended(c)' /\ ~OnTime(c)'
    BY <1>3, IdleCall DEF Working, Attended, OnTime
  <2>8. \A d \in Calls \ {c} : call'[d] = call[d] /\ ~OnTime(d)
    BY <1>3, <2>3, AloneOnTime DEF Only, Records
  <2>9. Alone'
    BY <2>7, <2>8 DEF Records, Alone, Attended, Working
  <2>10. ASSUME NEW d \in Calls PROVE Entitled(d)'
    <3>1. Entitled(d)
      BY DEF Records
    <3>2. d # c => ~OnTime(d)' /\ (Working(d)' => Working(d)) /\ call'[d] = call[d]
      BY <2>8 DEF OnTime, Working, Aborted
    <3> QED
      BY <2>7, <3>1, <3>2 DEF Entitled
  <2> QED
    BY <1>3, <2>2, <2>5, <2>6, <2>9, <2>10 DEF Records
<1> QED
  BY <1>4, <1>5

\* A verdict is entered under the number of the candidate.
LEMMA JudgedKeeps ==
  ASSUME TypeOK, Records, NEW c \in Calls, OnTime(c), NEW inconclusive \in BOOLEAN,
         AnswerJudged(c, inconclusive)
  PROVE  Records' /\ Only(c) /\ call'[c] = Idle
<1> DEFINE k == call[c].candidate
           verdict == [number |-> call[c].number, inconclusive |-> inconclusive]
<1>1. /\ k \in Candidates /\ call[c].number # 0 /\ attempt[k] = call[c].number
      /\ executions[k] + 1 < MaxExecutions + Cardinality(tried[k])
  BY DEF Records, Entitled, OnTime
<1>2. /\ executions \in [Candidates -> Ordinals]
      /\ outcome \in [Candidates -> [number : 0 .. MaxCandidates, inconclusive : BOOLEAN]]
  BY DEF TypeOK
<1>3. /\ End(c) /\ UNCHANGED <<attempt, tried, absent>>
      /\ executions' = [executions EXCEPT ![k] = @ + 1]
      /\ outcome' = [outcome EXCEPT ![k] = verdict]
  BY DEF AnswerJudged
<1>4. Only(c) /\ call'[c] = Idle
  BY <1>3, EndWrites
<1>5. verdict.number = call[c].number /\ verdict # NoOutcome
  BY <1>1 DEF NoOutcome
<1>6. /\ executions'[k] = executions[k] + 1 /\ outcome'[k] = verdict
      /\ \A j \in Candidates \ {k} : executions'[j] = executions[j] /\ outcome'[j] = outcome[j]
  BY <1>1, <1>2, <1>3
<1> HIDE DEF verdict
<1>7. ASSUME NEW j \in Candidates PROVE Accounted(j)'
  <2>1. Accounted(j)
    BY DEF Records
  <2>2. CASE j = k
    <3>1. attempt[k] # 0
      BY <1>1
    <3> QED
      BY <1>1, <1>3, <1>5, <1>6, <2>1, <2>2, <3>1 DEF Accounted
  <2>3. CASE j # k
    BY <1>3, <1>6, <2>1, <2>3 DEF Accounted
  <2> QED
    BY <2>2, <2>3
<1>8. ~Working(c)' /\ ~Attended(c)' /\ ~OnTime(c)'
  BY <1>4, IdleCall DEF Working, Attended, OnTime
<1>9. \A d \in Calls \ {c} : call'[d] = call[d] /\ ~OnTime(d)
  BY <1>4, AloneOnTime DEF Only, Records
<1>10. Alone'
  BY <1>8, <1>9 DEF Records, Alone, Attended, Working
<1>11. Ranked'
  BY <1>3 DEF Records, Ranked, NumbersAreRanks, Registered
<1>12. ASSUME NEW d \in Calls PROVE Entitled(d)'
  <2>1. Entitled(d)
    BY DEF Records
  <2>2. d # c => ~OnTime(d)' /\ (Working(d)' => Working(d)) /\ call'[d] = call[d]
    BY <1>9 DEF OnTime, Working, Aborted
  <2> QED
    BY <1>8, <2>1, <2>2 DEF Entitled
<1> QED
  BY <1>4, <1>7, <1>10, <1>11, <1>12 DEF Records
------------------------------------------------------------------------------
(* Experiments and the steps of a call *)

\* What a step of c makes of the counters: nothing, one experiment more, or one
\* that is over and may be counted.
Untallied(c) ==
  /\ UNCHANGED <<executions, absent, ordinal>>
  /\ c \in Experimenting \/ c \notin Experimenting'

Begins(c) ==
  /\ UNCHANGED <<executions, absent>>
  /\ c \notin Experimenting /\ ordinal < MaxExperiments /\ ordinal' = ordinal + 1

Tallied(c) ==
  /\ c \in Experimenting /\ c \notin Experimenting' /\ ordinal' = ordinal
  /\ \A k \in Candidates : executions'[k] \in {executions[k], executions[k] + 1}
  /\ \A kp \in Candidates \X Plans : absent'[kp] \in {absent[kp], absent[kp] + 1}
  /\ DOMAIN executions' = Candidates /\ DOMAIN absent' = Candidates \X Plans
  /\ executions' = [k \in Candidates |-> executions'[k]]
  /\ absent' = [kp \in Candidates \X Plans |-> absent'[kp]]

\* A step that begins, tallies or leaves alone the experiment of its call keeps the count.
LEMMA TallyKeeps ==
  ASSUME TypeOK, Counted, NEW c \in Calls, Only(c), Untallied(c) \/ Begins(c) \/ Tallied(c)
  PROVE  /\ Counted' /\ ordinal' \in Ordinals
         /\ executions' \in [Candidates -> Ordinals]
         /\ absent' \in [Candidates \X Plans -> Ordinals]
<1> DEFINE n == Cardinality(Experimenting)
           m == Cardinality(Experimenting')
<1>1. /\ executions \in [Candidates -> Ordinals] /\ absent \in [Candidates \X Plans -> Ordinals]
      /\ ordinal \in Ordinals /\ Ordinals = 0 .. MaxExperiments /\ MaxExperiments \in Nat
      /\ IsFiniteSet(Experimenting) /\ n \in Nat
  BY CountedSets, Limits DEF TypeOK, Ordinals
<1>2. Experimenting' \ {c} = Experimenting \ {c}
  BY DEF Only, Experimenting
<1>3. /\ \A k \in Candidates : executions[k] + n <= ordinal /\ executions[k] \in Nat
      /\ \A kp \in Candidates \X Plans : absent[kp] + n <= ordinal /\ absent[kp] \in Nat
  BY <1>1 DEF Counted
<1>4. CASE Untallied(c)
  <2>1. Experimenting' \subseteq Experimenting
    BY <1>2, <1>4 DEF Untallied
  <2>2. m \in Nat /\ m <= n
    BY <1>1, <2>1, FS_Subset, FS_CardinalityType
  <2> HIDE DEF n, m
  <2>3. /\ \A k \in Candidates : executions[k] + m <= ordinal
        /\ \A kp \in Candidates \X Plans : absent[kp] + m <= ordinal
    BY <1>1, <1>3, <2>2
  <2> QED
    BY <1>1, <1>4, <2>3 DEF Untallied, Counted, m
<1>5. CASE Begins(c)
  <2>1. \/ Experimenting' = Experimenting
        \/ Experimenting' = Experimenting \cup {c}
    BY <1>2, <1>5 DEF Begins
  <2>2. m \in Nat /\ m <= n + 1
    <3>1. Cardinality(Experimenting \cup {c}) = n + 1
      BY <1>1, <1>5, FS_AddElement DEF Begins
    <3>2. m = n \/ m = n + 1
      BY <2>1, <3>1
    <3> HIDE DEF n, m
    <3> QED
      BY <1>1, <3>2
  <2>3. ordinal + 1 \in Ordinals
    BY <1>1, <1>5 DEF Begins
  <2> HIDE DEF n, m
  <2>4. /\ \A k \in Candidates : executions[k] + m <= ordinal + 1
        /\ \A kp \in Candidates \X Plans : absent[kp] + m <= ordinal + 1
    BY <1>1, <1>3, <2>2, SMTT(60)
  <2> QED
    BY <1>1, <1>5, <2>3, <2>4 DEF Begins, Counted, m
<1>6. CASE Tallied(c)
  <2>1. Experimenting' = Experimenting \ {c} /\ c \in Experimenting
    BY <1>2, <1>6 DEF Tallied
  <2>2. m \in Nat /\ m = n - 1
    <3>1. Cardinality(Experimenting \ {c}) = n - 1 /\ IsFiniteSet(Experimenting \ {c})
      BY <1>1, <2>1, FS_RemoveElement
    <3>2. m = Cardinality(Experimenting \ {c})
      BY <2>1
    <3> QED
      BY <3>1, <3>2, FS_CardinalityType
  <2> HIDE DEF n, m
  <2>3. \A k \in Candidates : executions'[k] + m <= ordinal /\ executions'[k] \in Ordinals
    BY <1>1, <1>3, <1>6, <2>2 DEF Tallied
  <2>4. \A kp \in Candidates \X Plans : absent'[kp] + m <= ordinal /\ absent'[kp] \in Ordinals
    <3> TAKE kp \in Candidates \X Plans
    <3>1. /\ absent'[kp] \in {absent[kp], absent[kp] + 1}
          /\ absent[kp] + n <= ordinal /\ absent[kp] \in Nat
      BY <1>3, <1>6 DEF Tallied
    <3> QED
      BY <1>1, <2>2, <3>1
  <2> QED
    BY <1>1, <1>6, <2>3, <2>4 DEF Tallied, Counted, m
<1> QED
  BY <1>4, <1>5, <1>6

\* As long as no call was left behind, only the one that works may begin an experiment.
LEMMA OwnsKeeps ==
  ASSUME TypeOK, Alone, \A d \in Calls : OwnsExperiment(d), NEW c \in Calls, Only(c),
         overdue => overdue', ordinal' = ordinal \/ Working(c), OwnsExperiment(c)'
  PROVE  \A d \in Calls : OwnsExperiment(d)'
<1> SUFFICES ASSUME NEW d \in Calls \ {c} PROVE OwnsExperiment(d)'
  OBVIOUS
<1>1. call'[d] = call[d] /\ OwnsExperiment(d) /\ OwnsExperiment(c)
  BY DEF Only
<1>2. ASSUME ~overdue', call[d].at \in {"running", "opening"} PROVE ordinal' = ordinal
  <2>1. ~overdue /\ Attended(d)
    BY <1>1, <1>2 DEF OwnsExperiment, Attended, Working
  <2>2. ~Attended(c)
    BY <2>1 DEF Alone
  <2> QED
    BY <1>1, <2>1, <2>2 DEF OwnsExperiment, Attended
<1> QED
  BY <1>1, <1>2 DEF OwnsExperiment, Experimenting
------------------------------------------------------------------------------
(* The invariant *)

FlagTypes == built' \in BOOLEAN /\ limited' \in BOOLEAN /\ overdue' \in BOOLEAN

\* What is left to show of a step of c once the records are kept.
LEMMA StepKeeps ==
  ASSUME IInv, NEW c \in Calls, Records', Only(c),
         Untallied(c) \/ Begins(c) \/ Tallied(c), ordinal' = ordinal \/ Working(c),
         overdue => overdue', OwnsExperiment(c)', FlagTypes, bootstrap' \in Ordinals,
         session' = session,
         attempt' \in [Candidates -> 0 .. MaxCandidates],
         tried' \in [Candidates -> SUBSET Sessions],
         judged' \in [Candidates -> SUBSET Plans],
         outcome' \in [Candidates -> [number : 0 .. MaxCandidates, inconclusive : BOOLEAN]]
  PROVE  IInv'
<1>1. /\ TypeOK /\ Alone /\ Counted /\ session \in Sessions
      /\ \A d \in Calls : OwnsExperiment(d)
  BY DEF IInv, TypeOK
<1>2. Counted' /\ ordinal' \in Ordinals /\ executions' \in [Candidates -> Ordinals]
      /\ absent' \in [Candidates \X Plans -> Ordinals]
  BY <1>1, TallyKeeps
<1>3. \A d \in Calls : OwnsExperiment(d)'
  BY <1>1, OwnsKeeps
<1>4. TypeOK'
  BY <1>1, <1>2 DEF TypeOK, Only, FlagTypes
<1> QED
  BY <1>2, <1>3, <1>4 DEF IInv, Records

\* Steps that leave all candidates alone.
LEMMA QuietStep ==
  ASSUME IInv, NEW c \in Calls, UNCHANGED ledgerVars, Only(c),
         call'[c] = Idle \/ Continues(c),
         Untallied(c) \/ Begins(c), ordinal' = ordinal \/ Working(c),
         overdue => overdue', OwnsExperiment(c)', FlagTypes, bootstrap' \in Ordinals,
         session' = session
  PROVE  IInv'
<1>1. TypeOK /\ Records
  BY DEF IInv, Records
<1>2. Records'
  BY <1>1, QuietKeeps DEF ledgerVars
<1> QED
  BY <1>1, <1>2, StepKeeps DEF TypeOK, ledgerVars

\* A call that ends.
LEMMA EndStep ==
  ASSUME IInv, NEW c \in Calls, Only(c), call'[c] = Idle
  PROVE  /\ OwnsExperiment(c)' /\ c \notin Experimenting'
         /\ UNCHANGED <<executions, absent, ordinal>> => Untallied(c)
  BY IdleCall DEF OwnsExperiment, Experimenting, Untallied

\* An answer without a verdict keeps the invariant.
LEMMA UnjudgedStep ==
  ASSUME IInv, NEW c \in Calls, AnswerUnjudged(c), UNCHANGED <<session, ordinal, overdue>>,
         built' \in BOOLEAN, limited' \in BOOLEAN, bootstrap' \in Ordinals
  PROVE  IInv'
<1>1. TypeOK /\ overdue \in BOOLEAN /\ End(c) /\ UNCHANGED ledgerVars
  BY DEF IInv, TypeOK, AnswerUnjudged
<1>2. Only(c) /\ call'[c] = Idle
  BY <1>1, EndWrites
<1>3. OwnsExperiment(c)' /\ Untallied(c)
  BY <1>1, <1>2, EndStep DEF ledgerVars
<1> QED
  BY <1>1, <1>2, <1>3, QuietStep DEF FlagTypes

\* So does the answer that an operation is not supported.
LEMMA UnsupportedStep ==
  ASSUME IInv, NEW c \in Calls, Working(c), AnswerUnsupported(c),
         UNCHANGED <<session, ordinal, overdue>>,
         built' \in BOOLEAN, limited' \in BOOLEAN, bootstrap' \in Ordinals
  PROVE  IInv'
<1>1. TypeOK /\ overdue \in BOOLEAN /\ Records
      /\ UNCHANGED <<executions, judged, outcome, absent>>
  BY DEF IInv, TypeOK, Records, AnswerUnsupported
<1>2. /\ Records' /\ Only(c) /\ call'[c] = Idle
      /\ attempt' \in [Candidates -> 0 .. MaxCandidates]
      /\ tried' \in [Candidates -> SUBSET Sessions]
  BY <1>1, UnsupportedKeeps
<1>3. OwnsExperiment(c)' /\ Untallied(c)
  BY <1>1, <1>2, EndStep
<1> QED
  BY <1>1, <1>2, <1>3, StepKeeps DEF FlagTypes, TypeOK

\* The failure of an experiment is known by the number of one.
LEMMA Failures ==
  ASSUME TypeOK, NEW c \in Calls, NEW failure \in Ordinals, NEW infrastructure \in BOOLEAN
  PROVE  OwnFailure(c, failure) \in Ordinals /\ Recorded(c, infrastructure) \in Ordinals
<1>1. ordinal \in Ordinals /\ bootstrap \in Ordinals /\ 0 \in Ordinals
  BY Limits DEF TypeOK, Ordinals
<1> QED
  BY <1>1 DEF OwnFailure, Recorded

\* Steps that move the call on.
LEMMA MoveStep ==
  ASSUME IInv, NEW c \in Calls, NEW x \in Call, call' = [call EXCEPT ![c] = x],
         Working(c), x.at # "idle", x.candidate = call[c].candidate, x.plan = call[c].plan,
         x.number = call[c].number, x.fresh = call[c].fresh,
         x.deadline # call[c].deadline =>
           (x.deadline = "expired" /\ call[c].deadline = "attended")
             \/ (x.deadline = "detached" /\ call[c].deadline = "expired"),
         UNCHANGED ledgerVars, UNCHANGED <<session, bootstrap>>,
         Untallied(c) \/ Begins(c), overdue => overdue', FlagTypes, OwnsExperiment(c)'
  PROVE  IInv'
<1>1. TypeOK /\ call \in [Calls -> Call] /\ bootstrap \in Ordinals
  BY DEF IInv, TypeOK
<1>2. Only(c) /\ call'[c] = x
  BY <1>1 DEF Only
<1>3. Continues(c)
  BY <1>2 DEF Continues, Working, Attended, OnTime, Aborted
<1> QED
  BY <1>1, <1>2, <1>3, QuietStep

\* A verdict, or a baseline without a symptom, ends the experiment it counts.
LEMMA JudgeStep ==
  ASSUME IInv, NEW c \in Calls, NEW inconclusive \in BOOLEAN, Judge(c, inconclusive),
         UNCHANGED overdue
  PROVE  IInv'
<1>1. /\ TypeOK /\ Records /\ OnTime(c) /\ c \in Experimenting
      /\ AnswerJudged(c, inconclusive) /\ UNCHANGED <<session, ordinal, built>> /\ limited' = FALSE
      /\ bootstrap' = OwnFailure(c, bootstrap)
  BY DEF IInv, Records, Judge, Concludes, OnTime, Working, Experimenting
<1>2. Records' /\ Only(c) /\ call'[c] = Idle
  BY <1>1, JudgedKeeps
<1>3. OwnsExperiment(c)' /\ c \notin Experimenting'
  BY <1>2, EndStep
<1> DEFINE k == call[c].candidate
           verdict == [number |-> call[c].number, inconclusive |-> inconclusive]
<1>4. /\ UNCHANGED <<attempt, tried, absent>>
      /\ executions' = [executions EXCEPT ![k] = @ + 1]
      /\ judged' = [judged EXCEPT ![k] = @ \cup {call[c].plan}]
      /\ outcome' = [outcome EXCEPT ![k] = verdict]
  BY <1>1 DEF AnswerJudged
<1>5. /\ executions \in [Candidates -> Ordinals] /\ judged \in [Candidates -> SUBSET Plans]
      /\ outcome \in [Candidates -> [number : 0 .. MaxCandidates, inconclusive : BOOLEAN]]
      /\ absent \in [Candidates \X Plans -> Ordinals] /\ bootstrap \in Ordinals
      /\ k \in Candidates /\ call[c].plan \in Plans /\ call[c].number \in 0 .. MaxCandidates
  BY <1>1, Fields DEF TypeOK, Records, Entitled, OnTime
<1>6. verdict \in [number : 0 .. MaxCandidates, inconclusive : BOOLEAN]
  BY <1>5
<1> HIDE DEF k, verdict
<1>7. /\ judged' \in [Candidates -> SUBSET Plans]
      /\ outcome' \in [Candidates -> [number : 0 .. MaxCandidates, inconclusive : BOOLEAN]]
      /\ bootstrap' \in Ordinals
  BY <1>1, <1>4, <1>5, <1>6, Failures
<1>8. Tallied(c)
  BY <1>1, <1>3, <1>4, <1>5 DEF Tallied
<1> QED
  BY <1>1, <1>2, <1>3, <1>4, <1>7, <1>8, StepKeeps DEF TypeOK, FlagTypes

\* So does the answer that the symptom is absent.
LEMMA AbsentStep ==
  ASSUME IInv, NEW c \in Calls, SymptomAbsent(c), UNCHANGED overdue
  PROVE  IInv'
<1>1. /\ TypeOK /\ Records /\ OnTime(c) /\ c \in Experimenting
      /\ End(c) /\ UNCHANGED <<attempt, tried, executions, judged, outcome>>
      /\ UNCHANGED <<session, ordinal, built>> /\ limited' = FALSE
      /\ bootstrap' = OwnFailure(c, bootstrap)
      /\ absent' = [absent EXCEPT ![<<call[c].candidate, call[c].plan>>] = @ + 1]
  BY DEF IInv, Records, SymptomAbsent, AnswerAbsent, Concludes, OnTime, Working, Experimenting
<1>2. Only(c) /\ call'[c] = Idle
  BY <1>1, EndWrites
<1>3. Records'
  BY <1>1, <1>2, QuietKeeps
<1>4. OwnsExperiment(c)' /\ c \notin Experimenting'
  BY <1>2, EndStep
<1>5. /\ executions \in [Candidates -> Ordinals] /\ absent \in [Candidates \X Plans -> Ordinals]
      /\ bootstrap \in Ordinals
  BY <1>1 DEF TypeOK
<1>6. bootstrap' \in Ordinals
  BY <1>1, <1>5, Failures
<1>7. Tallied(c)
  BY <1>1, <1>4, <1>5 DEF Tallied
<1> QED
  BY <1>1, <1>2, <1>3, <1>4, <1>6, <1>7, StepKeeps DEF TypeOK, FlagTypes

\* So does a call of apply_rule.
LEMMA ApplyStep ==
  ASSUME MaxParallel = 1, IInv, NEW c \in Calls, NEW k \in Candidates, NEW p \in Plans,
         Apply(c, k, p), UNCHANGED overdue
  PROVE  IInv'
<1>1. /\ TypeOK /\ Records /\ OwnsExperiment(c) /\ ~Working(c)
      /\ UNCHANGED <<executions, judged, outcome, absent, session, ordinal, bootstrap>>
      /\ UNCHANGED <<built, limited>>
  BY DEF IInv, Records, Apply, environmentVars
<1>2. /\ Records' /\ Only(c)
      /\ attempt' \in [Candidates -> 0 .. MaxCandidates]
      /\ tried' \in [Candidates -> SUBSET Sessions]
      /\ \/ call' = call
         \/ call'[c].at \in {"ready", "preparing"} /\ call'[c].deadline = "attended"
  BY <1>1, ApplyKeeps
<1>3. Untallied(c) /\ OwnsExperiment(c)'
  BY <1>1, <1>2 DEF Untallied, Experimenting, OwnsExperiment, Working
<1> QED
  BY <1>1, <1>2, <1>3, StepKeeps DEF TypeOK, FlagTypes

\* The other steps of a call.
LEMMA BeginStep ==
  ASSUME IInv, NEW c \in Calls, UNCHANGED overdue, Prepared(c) \/ Begin(c)
  PROVE  IInv'
<1>1. /\ TypeOK /\ OwnsExperiment(c) /\ call[c] \in Call /\ call \in [Calls -> Call]
      /\ ordinal \in Ordinals /\ {built, limited, overdue} \subseteq BOOLEAN
      /\ MaxExperiments \in Nat
  BY Fields, Limits DEF IInv, TypeOK
<1>2. CASE Prepared(c)
  <2> DEFINE x == [call[c] EXCEPT !.at = "ready"]
  <2>1. /\ x \in Call /\ x.at = "ready" /\ x.candidate = call[c].candidate
        /\ x.plan = call[c].plan /\ x.number = call[c].number /\ x.fresh = call[c].fresh
        /\ x.deadline = call[c].deadline
    BY <1>1 DEF Call
  <2>2. call' = [call EXCEPT ![c] = x]
    BY <1>2 DEF Prepared
  <2> HIDE DEF x
  <2>3. call'[c] = x
    BY <1>1, <2>1, <2>2
  <2>4. UNCHANGED <<ordinal, executions, absent, session, bootstrap>> /\ UNCHANGED ledgerVars
        /\ built' = TRUE /\ limited' = FALSE /\ Working(c)
    BY <1>2 DEF Prepared, ledgerVars, Working
  <2>5. Untallied(c) /\ OwnsExperiment(c)' /\ FlagTypes
    BY <1>1, <2>1, <2>3, <2>4 DEF Untallied, Experimenting, OwnsExperiment, FlagTypes
  <2> QED
    BY <1>1, <2>1, <2>2, <2>4, <2>5, MoveStep
<1>3. CASE Begin(c)
  <2> DEFINE x == [call[c] EXCEPT !.at = "running", !.own = ordinal + 1]
  <2>1. /\ call[c].at = "ready" /\ ordinal < MaxExperiments /\ ordinal' = ordinal + 1
        /\ call' = [call EXCEPT ![c] = x] /\ Working(c)
        /\ UNCHANGED ledgerVars /\ UNCHANGED <<executions, absent, session, bootstrap>>
        /\ UNCHANGED <<built, limited>>
    BY <1>3 DEF Begin, ledgerVars, environmentVars, Working
  <2>2. ordinal + 1 \in Ordinals /\ ordinal + 1 # 0
    BY <1>1, <2>1 DEF Ordinals
  <2>3. /\ x \in Call /\ x.at = "running" /\ x.candidate = call[c].candidate
        /\ x.plan = call[c].plan /\ x.number = call[c].number /\ x.fresh = call[c].fresh
        /\ x.deadline = call[c].deadline /\ x.own = ordinal + 1
    BY <1>1, <2>2 DEF Call
  <2> HIDE DEF x
  <2>4. call'[c] = x
    BY <1>1, <2>1, <2>3
  <2>5. Begins(c) /\ FlagTypes
    BY <1>1, <2>1 DEF Begins, Experimenting, FlagTypes
  <2>6. OwnsExperiment(c)'
    BY <1>1, <2>1, <2>2, <2>3, <2>4 DEF OwnsExperiment
  <2> QED
    BY <1>1, <2>1, <2>3, <2>5, <2>6, MoveStep
<1> QED
  BY <1>2, <1>3

\* So does the opening of a session.
LEMMA PhaseStep ==
  ASSUME IInv, NEW c \in Calls, UNCHANGED overdue, OpenSession(c) \/ SessionOpens(c)
  PROVE  IInv'
<1>1. /\ TypeOK /\ OwnsExperiment(c) /\ call[c] \in Call /\ call \in [Calls -> Call]
      /\ ordinal \in Ordinals /\ {built, limited, overdue} \subseteq BOOLEAN
      /\ 0 \in Ordinals
  BY Fields, Limits DEF IInv, TypeOK, Ordinals
<1>2. PICK at \in {"running", "opening"}, opened \in {0, ordinal} :
        /\ call' = [call EXCEPT ![c] = [@ EXCEPT !.at = at, !.opened = opened]]
        /\ at = "opening" => opened = ordinal
  BY DEF OpenSession, SessionOpens
<1>3. /\ c \in Experimenting /\ Working(c) /\ UNCHANGED ledgerVars
      /\ UNCHANGED <<session, ordinal, bootstrap, built, limited>>
  BY DEF OpenSession, SessionOpens, Experimenting, Working, environmentVars
<1> DEFINE x == [call[c] EXCEPT !.at = at, !.opened = opened]
<1>4. /\ x \in Call /\ x.at = at /\ x.candidate = call[c].candidate
      /\ x.plan = call[c].plan /\ x.number = call[c].number /\ x.fresh = call[c].fresh
      /\ x.deadline = call[c].deadline /\ x.own = call[c].own /\ x.opened = opened
  BY <1>1 DEF Call
<1>5. call' = [call EXCEPT ![c] = x]
  BY <1>2
<1> HIDE DEF x
<1>6. call'[c] = x
  BY <1>1, <1>4, <1>5
<1>7. Untallied(c) /\ FlagTypes
  BY <1>1, <1>3 DEF Untallied, FlagTypes, ledgerVars
<1>8. OwnsExperiment(c)'
  BY <1>1, <1>2, <1>3, <1>4, <1>6 DEF OwnsExperiment, Experimenting
<1> QED
  BY <1>1, <1>3, <1>4, <1>5, <1>7, <1>8, MoveStep

\* So does a deadline that passes, with or without its grace.
LEMMA DeadlineStep ==
  ASSUME IInv, NEW c \in Calls,
         (Expire(c) /\ UNCHANGED overdue) \/ GraceExpires(c)
  PROVE  IInv'
<1>1. /\ TypeOK /\ OwnsExperiment(c) /\ call[c] \in Call /\ call \in [Calls -> Call]
      /\ {built, limited, overdue} \subseteq BOOLEAN
  BY Fields DEF IInv, TypeOK
<1>2. PICK deadline \in {"expired", "detached"} :
        /\ call' = [call EXCEPT ![c] = [@ EXCEPT !.deadline = deadline]]
        /\ deadline = "expired" => call[c].deadline = "attended" /\ overdue' = overdue
        /\ deadline = "detached" => call[c].deadline = "expired" /\ overdue' = TRUE
  BY DEF Expire, GraceExpires
<1>3. /\ Working(c) /\ UNCHANGED ledgerVars
      /\ UNCHANGED <<session, ordinal, bootstrap, built, limited>>
  BY DEF Expire, GraceExpires, environmentVars
<1> DEFINE x == [call[c] EXCEPT !.deadline = deadline]
<1>4. /\ x \in Call /\ x.at = call[c].at /\ x.candidate = call[c].candidate
      /\ x.plan = call[c].plan /\ x.number = call[c].number /\ x.fresh = call[c].fresh
      /\ x.deadline = deadline /\ x.own = call[c].own /\ x.opened = call[c].opened
  BY <1>1 DEF Call
<1>5. call' = [call EXCEPT ![c] = x]
  BY <1>2
<1> HIDE DEF x
<1>6. call'[c] = x
  BY <1>1, <1>4, <1>5
<1>7. Untallied(c) /\ FlagTypes
  BY <1>1, <1>2, <1>3, <1>4, <1>6 DEF Untallied, Experimenting, FlagTypes, ledgerVars
<1>8. OwnsExperiment(c)'
  BY <1>1, <1>2, <1>3, <1>4, <1>6 DEF OwnsExperiment, Experimenting
<1>9. x.at # "idle"
  BY <1>3, <1>4 DEF Working
<1>10. x.deadline # call[c].deadline =>
         (x.deadline = "expired" /\ call[c].deadline = "attended")
           \/ (x.deadline = "detached" /\ call[c].deadline = "expired")
  BY <1>2, <1>4
<1>11. overdue => overdue'
  BY <1>2
<1> QED
  BY <1>1, <1>3, <1>4, <1>5, <1>7, <1>8, <1>9, <1>10, <1>11, MoveStep

\* No step of a run whose calls follow one another breaks the invariant.
LEMMA NextKeeps == MaxParallel = 1 /\ IInv /\ [Next]_vars => IInv'
<1> SUFFICES ASSUME MaxParallel = 1, IInv, [Next]_vars PROVE IInv'
  OBVIOUS
<1>1. /\ TypeOK /\ Records /\ {built, limited, overdue} \subseteq BOOLEAN
      /\ bootstrap \in Ordinals
  BY DEF IInv, TypeOK, Records
<1>2. ASSUME NEW c \in Calls, call[c].at = "ready", ReadyStep(c), UNCHANGED overdue PROVE IInv'
  <2>1. UnsupportedByRoute(c) => IInv'
    BY <1>1, <1>2, UnsupportedStep DEF UnsupportedByRoute, environmentVars, Working
  <2> QED
    BY <1>2, <2>1, BeginStep DEF ReadyStep
<1>3. ASSUME NEW c \in Calls, CallStep(c), UNCHANGED overdue PROVE IInv'
  <2>1. ASSUME NEW k \in Candidates, NEW p \in Plans, Apply(c, k, p) PROVE IInv'
    BY <1>3, <2>1, ApplyStep
  <2>2. ASSUME Unprepared(c) PROVE IInv'
    BY <1>1, <1>3, <2>2, UnjudgedStep DEF Unprepared
  <2>3. ASSUME Inconclusive(c) \/ LimitationMet(c) PROVE IInv'
    BY <1>1, <1>3, <2>3, Failures, UnjudgedStep DEF Inconclusive, LimitationMet, Concludes
  <2>4. ASSUME UnsupportedByAdapter(c) PROVE IInv'
    BY <1>1, <1>3, <2>4, Failures, UnsupportedStep DEF UnsupportedByAdapter, Concludes, Working
  <2>5. ASSUME Abandoned(c) PROVE IInv'
    BY <1>1, <1>3, <2>5, UnjudgedStep DEF Abandoned, environmentVars
  <2>6. ASSUME NEW infrastructure \in BOOLEAN, BootstrapFails(c, infrastructure) PROVE IInv'
    <3>1. /\ Recorded(c, infrastructure) \in Ordinals
          /\ OwnFailure(c, Recorded(c, infrastructure)) \in Ordinals
      BY <1>1, Failures
    <3>2. /\ AnswerUnjudged(c) /\ UNCHANGED <<session, ordinal, built>>
          /\ bootstrap' \in Ordinals /\ limited' \in BOOLEAN
      BY <1>1, <2>6, <3>1 DEF BootstrapFails
    <3> QED
      BY <1>1, <1>3, <3>2, UnjudgedStep
  <2>7. ASSUME NEW inconclusive \in BOOLEAN, Judge(c, inconclusive) PROVE IInv'
    BY <1>3, <2>7, JudgeStep
  <2>8. ASSUME SymptomAbsent(c) PROVE IInv'
    BY <1>3, <2>8, AbsentStep
  <2>9. ASSUME OpenSession(c) \/ SessionOpens(c) PROVE IInv'
    BY <1>3, <2>9, PhaseStep
  <2>10. ASSUME Prepared(c) PROVE IInv'
    BY <1>3, <2>10, BeginStep
  <2>11. ASSUME Expire(c) PROVE IInv'
    BY <1>3, <2>11, DeadlineStep
  <2> QED
    BY <1>3, <2>1, <2>2, <2>3, <2>4, <2>5, <2>6, <2>7, <2>8, <2>9, <2>10, <2>11 DEF CallStep
<1>4. ASSUME UNCHANGED <<ledgerVars, call, ordinal, overdue>>, TypeOK' PROVE IInv'
  <2>1. Records'
    <3>0. Records
      BY <1>1 DEF IInv
    <3>1. Registered' = Registered
      BY <1>4 DEF Registered, ledgerVars
    <3>2. Alone'
      BY <1>4, <3>0 DEF Records, Alone, Attended, Working
    <3>3. Ranked'
      BY <1>4, <3>0, <3>1 DEF Records, Ranked, NumbersAreRanks, ledgerVars
    <3>4. \A k \in Candidates : Accounted(k)'
      BY <1>4, <3>0 DEF Records, Accounted, ledgerVars
    <3>5. \A c \in Calls : Entitled(c)'
      BY <1>4, <3>0, <3>1 DEF Records, Entitled, OnTime, Working, Aborted, ledgerVars
    <3> QED
      BY <3>2, <3>3, <3>4, <3>5 DEF Records
  <2>2. Counted' /\ \A c \in Calls : OwnsExperiment(c)'
    BY <1>4 DEF IInv, Counted, OwnsExperiment, Experimenting, ledgerVars
  <2> QED
    BY <1>4, <2>1, <2>2 DEF IInv, Records
<1>5. CASE Relaunch /\ UNCHANGED overdue
  <2>1. UNCHANGED <<ledgerVars, call, ordinal, overdue, bootstrap, built, limited>>
        /\ session < MaxSessions /\ session' = session + 1
    BY <1>5 DEF Relaunch, environmentVars
  <2>2. session' \in Sessions
    BY <1>1, <2>1, Limits DEF TypeOK, Sessions
  <2> QED
    BY <1>1, <1>4, <2>1, <2>2 DEF TypeOK, ledgerVars
<1>6. CASE UNCHANGED vars
  BY <1>1, <1>4, <1>6 DEF vars, TypeOK, environmentVars, ledgerVars
<1>7. ASSUME NEW c \in Calls, GraceExpires(c) PROVE IInv'
  BY <1>7, DeadlineStep
<1> QED
  BY <1>2, <1>3, <1>5, <1>6, <1>7 DEF Next, Ready

\* The run starts in the invariant.
LEMMA InitInv == Init => IInv
<1> SUFFICES ASSUME Init PROVE IInv
  OBVIOUS
<1>1. 0 \in Ordinals /\ 1 \in Sessions /\ 0 \in 0 .. MaxCandidates
  BY Limits DEF Ordinals, Sessions
<1>2. TypeOK
  BY <1>1, IdleCall DEF Init, TypeOK, NoOutcome
<1>3. \A c \in Calls : call[c] = Idle /\ ~Working(c)
  BY IdleCall DEF Init, Working
<1>4. Registered = {} /\ Experimenting = {}
  BY <1>3, IdleCall DEF Init, Registered, Experimenting
<1>5. Cardinality(Registered) = 0 /\ Cardinality(Experimenting) = 0
  BY <1>4, FS_EmptySet
<1>6. Ranked
  BY <1>4, <1>5 DEF Ranked, NumbersAreRanks
<1>7. Counted
  BY <1>5 DEF Init, Counted
<1>8. Alone /\ (\A k \in Candidates : Accounted(k))
      /\ \A c \in Calls : Entitled(c) /\ OwnsExperiment(c)
  BY <1>3, <1>4, IdleCall
     DEF Init, Alone, Attended, Accounted, Entitled, OnTime, OwnsExperiment
<1> QED
  BY <1>2, <1>6, <1>7, <1>8 DEF IInv

\* The invariant of every run whose apply_rule calls follow one another.
THEOREM Invariance == ASSUME MaxParallel = 1 PROVE Spec => []IInv
  BY InitInv, NextKeeps, PTL DEF Spec

\* The ledger is well-typed, its bounds included: no candidate is judged, and no
\* symptom found absent, more often than experiments were begun.
THEOREM TypeCorrect == ASSUME MaxParallel = 1 PROVE Spec => []TypeOK
<1>1. IInv => TypeOK
  BY DEF IInv
<1> QED
  BY <1>1, Invariance, PTL

\* The candidates of the run are numbered 1, 2, ... without gap or repetition,
\* although an unsupported one gives its number back.
THEOREM NumbersStayRanks == ASSUME MaxParallel = 1 PROVE Spec => []NumbersAreRanks
<1>1. IInv => NumbersAreRanks
  BY DEF IInv, Ranked
<1> QED
  BY <1>1, Invariance, PTL

\* A verdict is about a candidate that is still registered under its number.
THEOREM VerdictsStayRegistered == ASSUME MaxParallel = 1 PROVE Spec => []VerdictsAreRegistered
<1>1. IInv => VerdictsAreRegistered
  BY DEF IInv, Accounted, VerdictsAreRegistered
<1> QED
  BY <1>1, Invariance, PTL

\* No candidate is validated more often than its allowance, one more for each
\* further session it was tried in.
THEOREM ExecutionsStayBounded == ASSUME MaxParallel = 1 PROVE Spec => []ExecutionsAreBounded
<1>1. IInv => ExecutionsAreBounded
  BY DEF IInv, Accounted, ExecutionsAreBounded
<1> QED
  BY <1>1, Invariance, PTL

\* A browser that dies at launch does not limit the environment, as long as no
\* call left behind can begin an experiment of its own meanwhile.
THEOREM LaunchIsNoLimit == ASSUME MaxParallel = 1 PROVE Spec => BootstrapIsNoLimit
<1>1. ASSUME IInv, NEW c \in Calls, ~overdue, ~Aborted(c), BootstrapFails(c, TRUE)
      PROVE  ~limited'
  <2>1. /\ call[c].at = "opening" /\ c \in Experimenting /\ OwnsExperiment(c)
        /\ limited' = (OwnFailure(c, Recorded(c, TRUE)) = 0)
    BY <1>1 DEF BootstrapFails, Experimenting, IInv
  <2>2. call[c].own = ordinal /\ call[c].opened = ordinal /\ ordinal # 0
    BY <1>1, <2>1 DEF OwnsExperiment
  <2>3. Recorded(c, TRUE) = ordinal
    BY <2>2 DEF Recorded
  <2>4. OwnFailure(c, ordinal) = ordinal
    BY <2>2 DEF OwnFailure
  <2> QED
    BY <2>1, <2>2, <2>3, <2>4
<1>2. IInv => [\A c \in Calls :
                 ~overdue /\ ~Aborted(c) /\ BootstrapFails(c, TRUE) => ~limited']_vars
  BY <1>1
<1> QED
  BY <1>2, Invariance, PTL DEF BootstrapIsNoLimit
=============================================================================
