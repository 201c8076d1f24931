------------------------ MODULE PhaseExperimentProofs ------------------------
(***************************************************************************)
(* Proofs about PhaseExperiment, for any number of calls.  What holds of a *)
(* call, its tokens and its sessions (CallInv) is kept by its own steps    *)
(* one by one and by the steps of every other call at once (Frame).  Then, *)
(* over the same invariant, about ReviewedExperiment, where one of the     *)
(* calls waits for a visual review, about the call limiter that the        *)
(* requests of the review share, and about the recorder alone, under       *)
(* callers that keep to no order (ExecutionRecorder).                      *)
(***************************************************************************)
EXTENDS ReviewedExperiment, ExecutionRecorder, FiniteSetTheorems, TLAPS

Walking(c) == call[c].at \in {"phase", "opening", "configuring", "relaunched",
                              "observing", "closing"}

\* Phases an experiment has left behind in p, and those before it.
Earlier(p) == CASE p = "A" -> {} [] p = "B" -> {"A"} [] p = "C" -> {"A", "B"}
Ahead(p)   == CASE p = "A" -> {"B", "C"} [] p = "B" -> {"C"} [] p = "C" -> {}

\* The token and the environment a session belongs to.
Owner(s)   == s[1][1]
PhaseOf(s) == s[1][2]
Kept(x)    == adapter[x].leases \cup live \cup unclosed \cup toDrain

\* The session a relaunched one has replaced, and those nobody has closed.
Relaunched(s) == s[2] = "relaunched"
Replaced(s)   == <<s[1], "created">>
Unclosed      == live \ unclosed

\* Evidence of c is only in the recorder it has captured, and follows the
\* progress of the call.
LedgerFollows(c) ==
  /\ \A x \in Calls, p \in Phase :
       rec[x].entry[<<c, p>>] # "none" => x = call[c].env
  /\ call[c].env # NoCall =>
       LET e == rec[call[c].env].entry
       IN  /\ rec[call[c].env].registered
           /\ \A p \in Phase :
                e[<<c, p>>] = "bound" => call[c].at = "observing" /\ call[c].phase = p
           /\ e[<<c, "C">>] \in Observed => e[<<c, "A">>] \in Observed
           /\ Walking(c) =>
                /\ \A p \in Ahead(call[c].phase) : e[<<c, p>>] = "none"
                /\ \A p \in Earlier(call[c].phase) : e[<<c, p>>] \in Completion
                /\ call[c].phase = "C" => e[<<c, "B">>] = "positive"

\* Where a call stands and what its current phase has in the ledger.
CallStands(c) ==
  /\ call[c].at \in {"idle", "preparing", "ensured"} =>
       call[c].env = NoCall /\ call[c].phase = "A" /\ call[c].origin = "created"
  /\ Walking(c) => call[c].env # NoCall
  /\ call[c].at = "phase" => EntryOf(c) = "none"
  /\ call[c].at \in {"opening", "configuring", "relaunched"} => EntryOf(c) = "issued"
  /\ call[c].at = "observing" => EntryOf(c) = "bound" /\ ~Aborted(c)
  /\ call[c].at = "closing" =>
       \/ EntryOf(c) \in Completion
       \/ EntryOf(c) = "issued" /\ Aborted(c)
  /\ call[c].at \in {"phase", "opening", "configuring"} => call[c].origin = "created"
  /\ call[c].at = "configuring" => call[c].phase # "A"
  /\ call[c].at = "relaunched" => call[c].origin = "relaunched"

\* The sessions of c: held by one adapter only, none of a phase not reached,
\* one lease for each phase, none of two that share one left unclosed by the
\* other, and none alive that nobody is going to close.
SessionsFollow(c) ==
  /\ \A s \in Session : Owner(s) = c =>
       /\ \A x \in Calls : s \in adapter[x].leases => x = call[c].env
       /\ s \in live \cup unclosed \cup toDrain => call[c].env # NoCall
  /\ call[c].env # NoCall =>
       /\ \A s \in Session : Owner(s) = c /\ s \in Kept(call[c].env) /\ Walking(c) =>
            /\ PhaseOf(s) \notin Ahead(call[c].phase)
            /\ call[c].at \in {"phase", "opening"} => PhaseOf(s) # call[c].phase
       /\ \A s \in Session :
            Owner(s) = c /\ Relaunched(s) /\ s \in Kept(call[c].env) => Replaced(s) \notin Unclosed
       /\ \A s, o \in adapter[call[c].env].leases :
            Owner(s) = c /\ LeaseOf(s) = LeaseOf(o) => s = o
       /\ \A s \in Unclosed : Owner(s) = c =>
            \/ s \in adapter[call[c].env].leases
            \/ call[c].at \in {"relaunched", "closing"} /\ s = SessionOf(c)
            \/ LostToDrain(s)

\* The session in hand, while its call is in its phase.
SessionInHand(c) ==
  LET created == <<TokenOf(c), "created">>
  IN  /\ call[c].at \in {"configuring", "observing", "closing"} /\ call[c].origin = "created" =>
           <<TokenOf(c), "relaunched">> \notin Kept(call[c].env)
      /\ call[c].at \in {"relaunched", "observing", "closing"} /\ call[c].origin = "relaunched" =>
           created \notin Unclosed
      /\ call[c].deadline # "detached" =>
           /\ call[c].at \in {"configuring", "relaunched"} =>
                SessionOf(c) \in live /\ created \in Adapt(c).leases
           /\ call[c].at \in {"observing", "closing"} =>
                SessionOf(c) \in live \cap Adapt(c).leases

CallInv(c) ==
  LedgerFollows(c) /\ CallStands(c) /\ SessionsFollow(c) /\ SessionInHand(c)

\* The run's own two fields, and the finalizer, which waits for the agent.
RunInv ==
  /\ \A c \in Calls : call[c].at = "ensured" \/ call[c].env # NoCall => env # NoCall
  /\ env # NoCall => rec[env].registered
  /\ run # "agent" => \A c \in Calls : ~Attended(c)
  /\ run \in {"draining", "cleaning"} => env # NoCall
  /\ toDrain # {} => run \in {"draining", "cleaning"}
  /\ ~GraceMayExpire =>
       /\ \A c \in Calls : call[c].deadline # "detached"
       /\ toDrain # {} => toDrain \subseteq adapter[env].leases
  /\ \A x \in Calls : rec[x].finalized \/ rec[x].cleanup # "none" => Finished

\* A verdict that r is right speaks of an experiment whose evidence says so.
Right(r) ==
  \E c \in Calls : /\ call[c].candidate = r
                   /\ call[c].env # NoCall
                   /\ Backed(rec[call[c].env], c)

VerdictInv ==
  /\ disposition.status = "verified" => Right(disposition.candidate)
  /\ \A r \in Candidates : accepted[r] # NoCall => Right(r)
  /\ provisional.status = "verified" => Right(provisional.candidate)
  /\ published.status = "verified" => Right(published.candidate)

IInv == TypeOK /\ (\A c \in Calls : CallInv(c)) /\ RunInv /\ VerdictInv

\* With the environment set once there is only one.
OneEnvironment == \A c \in Calls : call[c].env \in {NoCall, env}
------------------------------------------------------------------------------
(* Operators of the recorder and of the adapters *)

\* Every method of a recorder returns one.
LEMMA RecorderMethods ==
  ASSUME NEW r \in Recorder, NEW t \in Token, NEW k \in Completion
  PROVE  /\ NewRecorder \in Recorder
         /\ RegisterAdapter(r) \in Recorder
         /\ BeginPhase(r, t) \in Recorder
         /\ BindPhaseLease(r, t) \in Recorder
         /\ CompletePhase(r, t, k, {}) \in Recorder
<1>1. NewRecorder \in Recorder
  BY DEF NewRecorder, Recorder, Entry, Receipt
<1>2. RegisterAdapter(r) \in Recorder
  BY DEF RegisterAdapter, Recorder
<1>3. BeginPhase(r, t) \in Recorder /\ BindPhaseLease(r, t) \in Recorder
  BY DEF BeginPhase, BindPhaseLease, Recorder, Entry
<1>4. CompletePhase(r, t, k, {}) \in Recorder
  BY DEF CompletePhase, Recorder, Entry, Completion
<1> QED
  BY <1>1, <1>2, <1>3, <1>4

\* And so does every method of an adapter.
LEMMA AdapterMethods ==
  ASSUME NEW a \in Adapter, NEW s \in Session, NEW b \in BOOLEAN
  PROVE  /\ NewAdapter \in Adapter
         /\ Prepare(a, b) \in Adapter
         /\ Retain(a, s) \in Adapter
         /\ Release(a, s) \in Adapter
         /\ CleanUp(a, b) \in Adapter
<1>1. NewAdapter \in Adapter
  BY DEF NewAdapter, Adapter, Lifecycle, Receipt
<1>2. Prepare(a, b) \in Adapter
  BY DEF Prepare, Adapter, Lifecycle
<1>3. Retain(a, s) \in Adapter /\ Release(a, s) \in Adapter
  BY DEF Retain, Release, Adapter
<1>4. CleanUp(a, b) \in Adapter
  BY DEF CleanUp, Adapter, Lifecycle, Receipt
<1> QED
  BY <1>1, <1>2, <1>3, <1>4

\* The token and the session in hand of a call.
LEMMA InHand ==
  ASSUME TypeOK, NEW c \in Calls
  PROVE  /\ TokenOf(c) \in Token /\ SessionOf(c) \in Session
         /\ <<TokenOf(c), "created">> \in Session
         /\ <<TokenOf(c), "relaunched">> \in Session
  BY DEF TypeOK, Calls, Call, TokenOf, SessionOf, Token, Session, Phase

\* The verdicts an experiment may end with.
LEMMA Verdicts ==
  /\ {Undecided, Limited, Failed} \subseteq Verdict
  /\ \A r \in Candidates \cup {NoCandidate} : Verified(r) \in Verdict
<1>1. Undecided \in Verdict
  BY DEF Undecided, Verdict, Disposition
<1>2. Limited \in Verdict
  BY <1>1 DEF Limited, Verdict, Disposition
<1>3. Failed \in Verdict
  BY <1>2 DEF Failed, Verdict, Disposition
<1>4. \A r \in Candidates \cup {NoCandidate} : Verified(r) \in Verdict
  BY <1>1 DEF Verified, Verdict, Disposition
<1> QED
  BY <1>1, <1>2, <1>3, <1>4
------------------------------------------------------------------------------
(* Types *)

\* Every variable of the run starts in its type.
LEMMA InitTypes == Init => TypeOK
<1>1. NewRecorder \in Recorder /\ NewAdapter \in Adapter
  BY DEF NewRecorder, Recorder, NewAdapter, Adapter, Lifecycle, Entry, Receipt
<1>2. Undecided \in Verdict
  BY Verdicts
<1> QED
  BY <1>1, <1>2, ExperimentAssumption
     DEF Init, TypeOK, Call, Phase, Calls, Disposition, Session

Stations == {"idle", "preparing", "ensured", "phase", "opening", "configuring",
             "relaunched", "observing", "closing", "returned"}

\* What the fields of a call range over.
LEMMA Fields ==
  ASSUME TypeOK, NEW c \in Calls
  PROVE  /\ call \in [Calls -> Call] /\ call[c] \in Call
         /\ call[c].at \in Stations /\ call[c].phase \in Phase
         /\ call[c].origin \in {"created", "relaunched"}
         /\ call[c].env \in Calls \cup {NoCall}
         /\ call[c].candidate \in Candidates \cup {NoCandidate}
         /\ call[c].deadline \in {"attended", "expired", "detached"}
  BY DEF TypeOK, Call, Stations

\* What a step of c makes of its call; the candidate is chosen once.
Becomes(c, at, phase, origin, e, deadline) ==
  /\ call' \in [Calls -> Call]
  /\ \A d \in Calls \ {c} : call'[d] = call[d]
  /\ call'[c].at = at /\ call'[c].phase = phase /\ call'[c].origin = origin
  /\ call'[c].env = e /\ call'[c].deadline = deadline
  /\ call'[c].candidate = call[c].candidate

\* Moving a call to another station changes nothing else of it.
LEMMA GoToWrites ==
  ASSUME TypeOK, NEW c \in Calls, NEW at \in Stations, call' = GoTo(c, at)
  PROVE  Becomes(c, at, call[c].phase, call[c].origin, call[c].env, call[c].deadline)
<1>1. call \in [Calls -> Call]
  BY DEF TypeOK
<1> QED
  BY <1>1 DEF GoTo, Becomes, Call, Stations

\* A call that returns is idle again, and keeps its environment and candidate.
LEMMA ReturnedWrites ==
  ASSUME TypeOK, NEW c \in Calls, call' = Returned(c)
  PROVE  Becomes(c, "returned", "A", "created", call[c].env, "attended")
<1>1. call \in [Calls -> Call]
  BY DEF TypeOK
<1> DEFINE r == [call[c] EXCEPT !.at = "returned", !.phase = "A", !.origin = "created",
                                !.deadline = "attended"]
<1>2. /\ r \in Call
      /\ r.at = "returned" /\ r.phase = "A" /\ r.origin = "created"
      /\ r.deadline = "attended" /\ r.env = call[c].env /\ r.candidate = call[c].candidate
  BY <1>1, ZenonT(60) DEF Call, Phase
<1>3. call' = [call EXCEPT ![c] = r]
  BY DEF Returned
<1> HIDE DEF r
<1> QED
  BY <1>1, <1>2, <1>3 DEF Becomes

\* What the start of a call writes.
LEMMA StartWrites ==
  ASSUME TypeOK, NEW c \in Calls, NEW r \in Candidates, Start(c, r)
  PROVE  /\ call' \in [Calls -> Call]
         /\ \A d \in Calls \ {c} : call'[d] = call[d]
         /\ call'[c].at \in {"preparing", "returned", "ensured"}
         /\ call'[c].at = "ensured" => env # NoCall
         /\ call'[c].candidate = r
         /\ call'[c].phase = call[c].phase /\ call'[c].origin = call[c].origin
         /\ call'[c].env = call[c].env /\ call'[c].deadline = call[c].deadline
<1>1. call \in [Calls -> Call]
  BY DEF TypeOK
<1> DEFINE at == CASE env = NoCall         -> "preparing"
                   [] disposition.failure  -> "returned"
                   [] OTHER                -> "ensured"
<1>2. at \in {"preparing", "returned", "ensured"} /\ (at = "ensured" => env # NoCall)
  OBVIOUS
<1>3. call' = [call EXCEPT ![c].candidate = r, ![c].at = at]
  BY DEF Start
<1> HIDE DEF at
<1> QED
  BY <1>1, <1>2, <1>3, ZenonT(60) DEF Call

\* What the steps that only move a call write to its record.
LEMMA OtherWrites ==
  ASSUME TypeOK, NEW c \in Calls
  PROVE  /\ Capture(c) =>
              Becomes(c, "phase", call[c].phase, call[c].origin, env, call[c].deadline)
         /\ Relaunch(c) =>
              Becomes(c, "relaunched", call[c].phase, "relaunched", call[c].env,
                      call[c].deadline)
         /\ Proceed(c) /\ call[c].phase \in {"A", "B"} =>
              Becomes(c, "phase", NextPhase[call[c].phase], "created", call[c].env,
                      call[c].deadline)
         /\ Expire(c) =>
              Becomes(c, IF call[c].at = "observing" THEN "closing" ELSE call[c].at,
                      call[c].phase, call[c].origin, call[c].env, "expired")
         /\ GraceExpires(c) =>
              Becomes(c, call[c].at, call[c].phase, call[c].origin, call[c].env,
                      "detached")
<1>1. call \in [Calls -> Call] /\ env \in Calls \cup {NoCall}
  BY DEF TypeOK
<1>2. Capture(c) =>
        Becomes(c, "phase", call[c].phase, call[c].origin, env, call[c].deadline)
  BY <1>1 DEF Capture, Becomes, Call
<1>3. ASSUME Relaunch(c)
      PROVE  Becomes(c, "relaunched", call[c].phase, "relaunched", call[c].env,
                     call[c].deadline)
  <2>1. call' = [call EXCEPT ![c].at = "relaunched", ![c].origin = "relaunched"]
    BY <1>3 DEF Relaunch
  <2> QED
    BY <1>1, <2>1, ZenonT(60) DEF Becomes, Call
<1>4. ASSUME Proceed(c), call[c].phase \in {"A", "B"}
      PROVE  Becomes(c, "phase", NextPhase[call[c].phase], "created", call[c].env,
                     call[c].deadline)
  <2>1. NextPhase[call[c].phase] \in Phase
    BY <1>4 DEF NextPhase, Phase
  <2> QED
    BY <1>1, <1>4, <2>1, ZenonT(60) DEF Proceed, Becomes, Call
<1>5. Expire(c) =>
        Becomes(c, IF call[c].at = "observing" THEN "closing" ELSE call[c].at,
                call[c].phase, call[c].origin, call[c].env, "expired")
  BY <1>1 DEF Expire, Becomes, Call
<1>6. GraceExpires(c) =>
        Becomes(c, call[c].at, call[c].phase, call[c].origin, call[c].env, "detached")
  BY <1>1 DEF GraceExpires, Becomes, Call
<1> QED
  BY <1>2, <1>3, <1>4, <1>5, <1>6

\* What a step makes of the recorders: one entry of one of them, if any.
Enters(x, t, v) ==
  /\ rec' \in [Calls -> Recorder]
  /\ \A y \in Calls, u \in Token :
       rec'[y].entry[u] = IF y = x /\ u = t THEN v ELSE rec[y].entry[u]
  /\ \A y \in Calls : /\ rec'[y].registered = rec[y].registered
                      /\ rec'[y].cleanup = rec[y].cleanup
                      /\ rec'[y].finalized = rec[y].finalized

\* A recorder method called for a token rewrites the entry of that token alone.
LEMMA EntryWrites ==
  ASSUME TypeOK, NEW x \in Calls, NEW t \in Token
  PROVE  /\ rec' = [rec EXCEPT ![x] = BeginPhase(@, t)] => Enters(x, t, "issued")
         /\ rec' = [rec EXCEPT ![x] = BindPhaseLease(@, t)] => Enters(x, t, "bound")
         /\ \A k \in Completion :
              rec' = [rec EXCEPT ![x] = CompletePhase(@, t, k, {})] => Enters(x, t, k)
<1>1. rec \in [Calls -> Recorder]
  BY DEF TypeOK
<1>2. ASSUME NEW v \in Entry, NEW r \in Recorder, NEW r1 \in Recorder,
             rec' = [rec EXCEPT ![x] = r1], r = rec[x],
             r1.entry = [r.entry EXCEPT ![t] = v], r1.registered = r.registered,
             r1.cleanup = r.cleanup, r1.finalized = r.finalized
      PROVE  Enters(x, t, v)
  BY <1>1, <1>2 DEF Enters, Recorder
<1>3. ASSUME NEW r \in Recorder
      PROVE  /\ BeginPhase(r, t) \in Recorder
             /\ BeginPhase(r, t).entry = [r.entry EXCEPT ![t] = "issued"]
             /\ BeginPhase(r, t).registered = r.registered
             /\ BeginPhase(r, t).cleanup = r.cleanup
             /\ BeginPhase(r, t).finalized = r.finalized
  BY DEF BeginPhase, Recorder, Entry
<1>4. ASSUME NEW r \in Recorder
      PROVE  /\ BindPhaseLease(r, t) \in Recorder
             /\ BindPhaseLease(r, t).entry = [r.entry EXCEPT ![t] = "bound"]
             /\ BindPhaseLease(r, t).registered = r.registered
             /\ BindPhaseLease(r, t).cleanup = r.cleanup
             /\ BindPhaseLease(r, t).finalized = r.finalized
  BY DEF BindPhaseLease, Recorder, Entry
<1>5. ASSUME NEW r \in Recorder, NEW k \in Completion
      PROVE  /\ CompletePhase(r, t, k, {}) \in Recorder
             /\ CompletePhase(r, t, k, {}).entry = [r.entry EXCEPT ![t] = k]
             /\ CompletePhase(r, t, k, {}).registered = r.registered
             /\ CompletePhase(r, t, k, {}).cleanup = r.cleanup
             /\ CompletePhase(r, t, k, {}).finalized = r.finalized
  BY DEF CompletePhase, Recorder, Entry, Completion
<1>6. Completion \subseteq Entry /\ {"issued", "bound"} \subseteq Entry
  BY DEF Entry
<1>7. ASSUME rec' = [rec EXCEPT ![x] = BeginPhase(@, t)]
      PROVE  Enters(x, t, "issued")
  <2> DEFINE r1 == BeginPhase(rec[x], t)
  <2>1. rec[x] \in Recorder
    BY <1>1
  <2>2. /\ r1 \in Recorder /\ r1.entry = [rec[x].entry EXCEPT ![t] = "issued"]
        /\ r1.registered = rec[x].registered /\ r1.cleanup = rec[x].cleanup
        /\ r1.finalized = rec[x].finalized
    BY <2>1, <1>3
  <2>3. rec' = [rec EXCEPT ![x] = r1]
    BY <1>7
  <2> HIDE DEF r1
  <2> QED
    BY <1>2, <1>6, <2>1, <2>2, <2>3
<1>8. ASSUME rec' = [rec EXCEPT ![x] = BindPhaseLease(@, t)]
      PROVE  Enters(x, t, "bound")
  <2> DEFINE r1 == BindPhaseLease(rec[x], t)
  <2>1. rec[x] \in Recorder
    BY <1>1
  <2>2. /\ r1 \in Recorder /\ r1.entry = [rec[x].entry EXCEPT ![t] = "bound"]
        /\ r1.registered = rec[x].registered /\ r1.cleanup = rec[x].cleanup
        /\ r1.finalized = rec[x].finalized
    BY <2>1, <1>4
  <2>3. rec' = [rec EXCEPT ![x] = r1]
    BY <1>8
  <2> HIDE DEF r1
  <2> QED
    BY <1>2, <1>6, <2>1, <2>2, <2>3
<1>9. ASSUME NEW k \in Completion, rec' = [rec EXCEPT ![x] = CompletePhase(@, t, k, {})]
      PROVE  Enters(x, t, k)
  <2> DEFINE r1 == CompletePhase(rec[x], t, k, {})
  <2>1. rec[x] \in Recorder
    BY <1>1
  <2>2. /\ r1 \in Recorder /\ r1.entry = [rec[x].entry EXCEPT ![t] = k]
        /\ r1.registered = rec[x].registered /\ r1.cleanup = rec[x].cleanup
        /\ r1.finalized = rec[x].finalized
    BY <2>1, <1>5
  <2>3. rec' = [rec EXCEPT ![x] = r1]
    BY <1>9
  <2> HIDE DEF r1
  <2> QED
    BY <1>2, <1>6, <2>1, <2>2, <2>3
<1> QED
  BY <1>7, <1>8, <1>9

\* What a step makes of the adapters: the leases of one of them.
Holds(x, leases) ==
  /\ adapter' \in [Calls -> Adapter]
  /\ \A y \in Calls : adapter'[y].leases = IF y = x THEN leases ELSE adapter[y].leases

\* An adapter method called for one session leaves every other lease as it was,
\* and drops whatever shares the lease of that session.
LEMMA LeaseWrites ==
  ASSUME TypeOK, NEW x \in Calls, NEW s \in Session
  PROVE  /\ adapter' = [adapter EXCEPT ![x] = Retain(@, s)] =>
              Holds(x, {o \in adapter[x].leases : LeaseOf(o) # LeaseOf(s)} \cup {s})
         /\ adapter' = [adapter EXCEPT ![x] = Release(@, s)] =>
              Holds(x, {o \in adapter[x].leases : LeaseOf(o) # LeaseOf(s)})
<1>1. adapter \in [Calls -> Adapter]
  BY DEF TypeOK
<1>2. ASSUME NEW a \in Adapter
      PROVE  /\ Retain(a, s) \in Adapter /\ Release(a, s) \in Adapter
             /\ Retain(a, s).leases = {o \in a.leases : LeaseOf(o) # LeaseOf(s)} \cup {s}
             /\ Release(a, s).leases = {o \in a.leases : LeaseOf(o) # LeaseOf(s)}
  BY DEF Retain, Release, Adapter
<1> QED
  BY <1>1, <1>2, ZenonT(60) DEF Holds

\* What a close of s makes of the browsers, whether that of s survives it or not.
Leaves(s) ==
  /\ live' \subseteq live /\ unclosed \subseteq unclosed' /\ unclosed' \subseteq unclosed \cup live
  /\ s \notin Unclosed'
  /\ \A o : o # s => (o \in live' <=> o \in live) /\ (o \in unclosed' <=> o \in unclosed)

\* A close leaves every other browser as it was.
LEMMA CloseWrites ==
  ASSUME NEW s, Closed(s) \/ (Survives(s) /\ live' = live)
  PROVE  Leaves(s)
  BY DEF Closed, Survives, Leaves, Unclosed
------------------------------------------------------------------------------
(* The steps of one call and the invariant of another *)

\* What a step of c leaves alone.
Frame(c) ==
  /\ UNCHANGED <<run, toDrain>>
  /\ \A d \in Calls \ {c} : call'[d] = call[d]
  /\ \A x \in Calls, d \in Calls \ {c}, p \in Phase :
       rec'[x].entry[<<d, p>>] = rec[x].entry[<<d, p>>]
  /\ \A x \in Calls : rec[x].registered => rec'[x].registered
  /\ \A s \in Session : Owner(s) # c =>
       /\ \A x \in Calls : s \in adapter'[x].leases <=> s \in adapter[x].leases
       /\ s \in live' <=> s \in live
       /\ s \in unclosed' <=> s \in unclosed

\* Evidence that nobody adds to goes on following a call that stays where it is.
LEMMA LedgerUntouched ==
  ASSUME TypeOK, NEW c \in Calls, LedgerFollows(c),
         call'[c].at = call[c].at, call'[c].phase = call[c].phase, call'[c].env = call[c].env,
         \A x \in Calls, p \in Phase : rec'[x].entry[<<c, p>>] = rec[x].entry[<<c, p>>],
         \A x \in Calls : rec[x].registered => rec'[x].registered
  PROVE  LedgerFollows(c)'
<1>1. /\ call[c].phase \in Phase /\ call[c].env \in Calls \cup {NoCall} /\ {"A", "B", "C"} \subseteq Phase
      /\ \A p \in Phase : Ahead(p) \subseteq Phase /\ Earlier(p) \subseteq Phase
  BY Fields DEF Ahead, Earlier, Phase
<1>2. \A x \in Calls, p \in Phase : rec'[x].entry[<<c, p>>] # "none" => x = call'[c].env
  BY DEF LedgerFollows
<1>3. ASSUME call'[c].env # NoCall
      PROVE  LET e == rec'[call'[c].env].entry
             IN  /\ rec'[call'[c].env].registered
                 /\ \A p \in Phase :
                      e[<<c, p>>] = "bound" => call'[c].at = "observing" /\ call'[c].phase = p
                 /\ e[<<c, "C">>] \in Observed => e[<<c, "A">>] \in Observed
                 /\ Walking(c)' =>
                      /\ \A p \in Ahead(call'[c].phase) : e[<<c, p>>] = "none"
                      /\ \A p \in Earlier(call'[c].phase) : e[<<c, p>>] \in Completion
                      /\ call'[c].phase = "C" => e[<<c, "B">>] = "positive"
  <2>1. /\ call[c].env \in Calls
        /\ \A p \in Phase : rec'[call[c].env].entry[<<c, p>>] = rec[call[c].env].entry[<<c, p>>]
    BY <1>1, <1>3
  <2>2. /\ rec'[call[c].env].registered
        /\ \A p \in Phase :
             rec[call[c].env].entry[<<c, p>>] = "bound" => call[c].at = "observing" /\ call[c].phase = p
        /\ rec[call[c].env].entry[<<c, "C">>] \in Observed => rec[call[c].env].entry[<<c, "A">>] \in Observed
    BY <1>3, <2>1 DEF LedgerFollows
  <2>3. ASSUME Walking(c)
        PROVE  /\ \A p \in Ahead(call[c].phase) : rec[call[c].env].entry[<<c, p>>] = "none"
               /\ \A p \in Earlier(call[c].phase) : rec[call[c].env].entry[<<c, p>>] \in Completion
               /\ call[c].phase = "C" => rec[call[c].env].entry[<<c, "B">>] = "positive"
    BY <1>3, <2>3 DEF LedgerFollows
  <2>4. Walking(c)' <=> Walking(c)
    BY DEF Walking
  <2>5. Walking(c) =>
          /\ \A p \in Ahead(call[c].phase) : rec'[call[c].env].entry[<<c, p>>] = "none"
          /\ \A p \in Earlier(call[c].phase) : rec'[call[c].env].entry[<<c, p>>] \in Completion
          /\ call[c].phase = "C" => rec'[call[c].env].entry[<<c, "B">>] = "positive"
    <3>1. \A p \in Ahead(call[c].phase) \cup Earlier(call[c].phase) \cup {"B"} :
            rec'[call[c].env].entry[<<c, p>>] = rec[call[c].env].entry[<<c, p>>]
      BY <1>1, <2>1
    <3> QED
      BY <2>3, <3>1
  <2> QED
    BY <1>1, <2>1, <2>2, <2>4, <2>5
<1> QED
  BY <1>2, <1>3, ZenonT(60) DEF LedgerFollows

\* What holds of a call and its sessions survives the steps of the others.
LEMMA OthersKeep ==
  ASSUME TypeOK, TypeOK', NEW c \in Calls, NEW d \in Calls \ {c}, Frame(c), CallInv(d)
  PROVE  CallInv(d)'
<1>1. call'[d] = call[d] /\ call[d].env \in Calls \cup {NoCall}
  BY Fields DEF Frame
<1>2. \A x \in Calls, p \in Phase : rec'[x].entry[<<d, p>>] = rec[x].entry[<<d, p>>]
  BY DEF Frame
<1>3. call[d].phase \in Phase /\ \A p \in Phase : Ahead(p) \subseteq Phase /\ Earlier(p) \subseteq Phase
  BY Fields DEF Ahead, Earlier, Phase
<1>4. LedgerFollows(d)'
  BY <1>1, <1>2, LedgerUntouched DEF Frame, CallInv
<1>5. CallStands(d)'
  BY <1>1, <1>2, <1>3 DEF CallInv, CallStands, Walking, EntryOf, Record, TokenOf, Aborted
<1>6. \A s \in Session : Owner(s) = d =>
        /\ \A x \in Calls : s \in adapter'[x].leases <=> s \in adapter[x].leases
        /\ s \in live' <=> s \in live
        /\ s \in unclosed' <=> s \in unclosed
        /\ s \in toDrain' <=> s \in toDrain
  BY DEF Frame
<1>7. /\ live \subseteq Session /\ live' \subseteq Session
      /\ \A x \in Calls : adapter[x].leases \subseteq Session /\ adapter'[x].leases \subseteq Session
  BY DEF TypeOK, Adapter
<1>8. SessionsFollow(d)'
  <2>1. \A s \in Session : Owner(s) = d => Replaced(s) \in Session /\ Owner(Replaced(s)) = d
    BY DEF Session, Owner, Replaced
  <2>2. \A s \in Session : LostToDrain(s) => LostToDrain(s)'
    BY DEF LostToDrain, Frame
  <2>3. SessionsFollow(d)
    BY DEF CallInv
  <2>4. \A s \in Session : Owner(s) = d =>
          /\ \A x \in Calls : s \in adapter'[x].leases => x = call[d].env
          /\ s \in live' \cup unclosed' \cup toDrain' => call[d].env # NoCall
    BY <1>6, <2>3 DEF SessionsFollow
  <2>5. ASSUME call[d].env # NoCall, NEW s \in Session, Owner(s) = d
        PROVE  /\ s \in Kept(call[d].env)' <=> s \in Kept(call[d].env)
               /\ s \in Unclosed' <=> s \in Unclosed
    BY <1>1, <1>6, <2>5 DEF Kept, Unclosed
  <2>6. ASSUME call[d].env # NoCall
        PROVE  /\ \A s \in Session : Owner(s) = d /\ s \in Kept(call[d].env)' /\ Walking(d) =>
                    /\ PhaseOf(s) \notin Ahead(call[d].phase)
                    /\ call[d].at \in {"phase", "opening"} => PhaseOf(s) # call[d].phase
               /\ \A s \in Session :
                    Owner(s) = d /\ Relaunched(s) /\ s \in Kept(call[d].env)' => Replaced(s) \notin Unclosed'
               /\ \A s, o \in adapter'[call[d].env].leases :
                    Owner(s) = d /\ LeaseOf(s) = LeaseOf(o) => s = o
               /\ \A s \in Unclosed' : Owner(s) = d =>
                    \/ s \in adapter'[call[d].env].leases
                    \/ call[d].at \in {"relaunched", "closing"} /\ s = SessionOf(d)
                    \/ LostToDrain(s)'
    <3>1. /\ \A s \in Session : Owner(s) = d /\ s \in Kept(call[d].env)' /\ Walking(d) =>
               /\ PhaseOf(s) \notin Ahead(call[d].phase)
               /\ call[d].at \in {"phase", "opening"} => PhaseOf(s) # call[d].phase
          /\ \A s \in Session :
               Owner(s) = d /\ Relaunched(s) /\ s \in Kept(call[d].env)' => Replaced(s) \notin Unclosed'
      BY <2>1, <2>3, <2>5, <2>6 DEF SessionsFollow
    <3>2. \A s, o \in adapter'[call[d].env].leases :
            Owner(s) = d /\ LeaseOf(s) = LeaseOf(o) => s = o
      BY <1>1, <1>6, <1>7, <2>3, <2>6 DEF SessionsFollow, Owner, LeaseOf
    <3>3. \A s \in Unclosed' : Owner(s) = d =>
            \/ s \in adapter'[call[d].env].leases
            \/ call[d].at \in {"relaunched", "closing"} /\ s = SessionOf(d)
            \/ LostToDrain(s)'
      <4> TAKE s \in Unclosed'
      <4> HAVE Owner(s) = d
      <4>1. s \in Session
        BY <1>7 DEF Unclosed
      <4>2. s \in Unclosed
        BY <2>5, <2>6, <4>1
      <4> QED
        BY <1>1, <1>6, <2>2, <2>3, <2>6, <4>1, <4>2 DEF SessionsFollow
    <3> QED
      BY <3>1, <3>2, <3>3
  <2>7. /\ Walking(d)' <=> Walking(d)
        /\ SessionOf(d)' = SessionOf(d)
    BY <1>1 DEF Walking, SessionOf, TokenOf
  <2> QED
    BY <1>1, <2>4, <2>6, <2>7 DEF SessionsFollow, Kept, Unclosed
<1>9. TokenOf(d)' = TokenOf(d) /\ SessionOf(d)' = SessionOf(d)
  BY <1>1 DEF TokenOf, SessionOf
<1>10. \A o \in {"created", "relaunched"} :
         <<TokenOf(d), o>> \in Session /\ Owner(<<TokenOf(d), o>>) = d
  BY InHand DEF Owner, TokenOf
<1>11. SessionOf(d) \in Session /\ Owner(SessionOf(d)) = d
  BY InHand DEF Owner, TokenOf, SessionOf
<1>12. ASSUME call[d].env # NoCall, NEW s \in Session, Owner(s) = d
       PROVE  /\ (s \in Kept(call[d].env))' <=> s \in Kept(call[d].env)
              /\ (s \in Unclosed)' <=> s \in Unclosed
              /\ (s \in Adapt(d).leases)' <=> s \in Adapt(d).leases
              /\ (s \in live \cap Adapt(d).leases)' <=> s \in live \cap Adapt(d).leases
  BY <1>1, <1>6, <1>12 DEF Kept, Adapt, Unclosed
<1>13. call[d].at \in {"configuring", "relaunched", "observing", "closing"} =>
         call[d].env # NoCall
  BY DEF CallInv, CallStands, Walking
<1>14. SessionInHand(d)
  BY DEF CallInv
<1>15. SessionInHand(d)'
  <2>1. (call[d].at \in {"configuring", "observing", "closing"} /\ call[d].origin = "created" =>
           <<TokenOf(d), "relaunched">> \notin Kept(call[d].env))'
    BY <1>1, <1>9, <1>10, <1>12, <1>13, <1>14 DEF SessionInHand
  <2>2. (call[d].at \in {"relaunched", "observing", "closing"} /\ call[d].origin = "relaunched" =>
           <<TokenOf(d), "created">> \notin Unclosed)'
    BY <1>1, <1>9, <1>10, <1>12, <1>13, <1>14 DEF SessionInHand
  <2>3. (call[d].deadline # "detached" /\ call[d].at \in {"configuring", "relaunched"} =>
           SessionOf(d) \in live /\ <<TokenOf(d), "created">> \in Adapt(d).leases)'
    BY <1>1, <1>6, <1>9, <1>10, <1>11, <1>12, <1>13, <1>14 DEF SessionInHand
  <2>4. (call[d].deadline # "detached" /\ call[d].at \in {"observing", "closing"} =>
           SessionOf(d) \in live \cap Adapt(d).leases)'
    BY <1>1, <1>9, <1>11, <1>12, <1>13, <1>14 DEF SessionInHand
  <2> QED
    BY <2>1, <2>2, <2>3, <2>4 DEF SessionInHand
<1> QED
  BY <1>4, <1>5, <1>8, <1>15 DEF CallInv
------------------------------------------------------------------------------
(* What each step writes *)

Ends(c) == Becomes(c, "returned", "A", "created", call[c].env, "attended")

Moves(c, at) ==
  Becomes(c, at, call[c].phase, call[c].origin, call[c].env, call[c].deadline)

ProceedsTo(c) ==
  /\ call[c].phase \in {"A", "B"}
  /\ Becomes(c, "phase", NextPhase[call[c].phase], "created", call[c].env,
             call[c].deadline)

\* The fields of the runtime that an experiment may write when it is over.
VerdictTypes == disposition' \in Verdict /\ accepted' \in [Candidates -> Calls \cup {NoCall}]

\* An experiment that is over has returned.
LEMMA EndWrites ==
  ASSUME TypeOK, NEW c \in Calls, NEW v \in Verdict
  PROVE  /\ Return(c) => Ends(c) /\ VerdictTypes
         /\ SettleUnjudged(c, v) => Ends(c) /\ VerdictTypes
         /\ \A b \in BOOLEAN : Settle(c, v) /\ Judge(c, b) => Ends(c) /\ VerdictTypes
<1>1. disposition \in Verdict /\ accepted \in [Candidates -> Calls \cup {NoCall}]
  BY DEF TypeOK
<1>2. Return(c) => Ends(c) /\ VerdictTypes
  BY <1>1, ReturnedWrites DEF Return, Ends, VerdictTypes
<1>3. Settle(c, v) => Ends(c) /\ disposition' \in Verdict
  BY <1>1, ReturnedWrites DEF Settle, Ends
<1>4. SettleUnjudged(c, v) => Ends(c) /\ VerdictTypes
  BY <1>1, <1>3 DEF SettleUnjudged, VerdictTypes
<1>5. ASSUME NEW b \in BOOLEAN, Settle(c, v), Judge(c, b)
      PROVE  Ends(c) /\ VerdictTypes
  <2>1. accepted' \in [Candidates -> Calls \cup {NoCall}]
    BY <1>1, <1>5 DEF Judge
  <2> QED
    BY <1>3, <1>5, <2>1 DEF VerdictTypes
<1> QED
  BY <1>2, <1>4, <1>5

\* A phase that is open is either closed for the abort or bound.
LEMMA OpenWrites ==
  ASSUME TypeOK, NEW c \in Calls, call[c].env # NoCall, Open(c)
  PROVE  \/ Aborted(c) /\ Moves(c, "closing") /\ rec' = rec
         \/ ~Aborted(c) /\ Moves(c, "observing") /\ Enters(call[c].env, TokenOf(c), "bound")
<1>1. TokenOf(c) \in Token /\ call[c].env \in Calls
  BY Fields, InHand
<1>2. CASE Aborted(c)
  BY <1>2, GoToWrites DEF Open, Moves, Stations
<1>3. CASE ~Aborted(c)
  <2>1. rec' = [rec EXCEPT ![call[c].env] = BindPhaseLease(@, TokenOf(c))]
    BY <1>3 DEF Open
  <2>2. call' = GoTo(c, "observing")
    BY <1>3 DEF Open
  <2> QED
    BY <1>1, <1>3, <2>1, <2>2, EntryWrites, GoToWrites DEF Moves, Stations
<1> QED
  BY <1>2, <1>3

\* After a phase the experiment is over, or goes on over evidence.
LEMMA AfterWrites ==
  ASSUME TypeOK, NEW c \in Calls, NEW thrown \in BOOLEAN, AfterPhase(c, thrown),
         EntryOf(c) \in Completion \cup {"issued"}
  PROVE  /\ \/ Ends(c)
            \/ /\ ProceedsTo(c)
               /\ EntryOf(c) \in Completion
               /\ call[c].phase = "B" => EntryOf(c) = "positive"
         /\ VerdictTypes
<1> DEFINE stops == EntryOf(c) = "issued" \/ thrown
<1>1. call[c].phase \in Phase /\ disposition \in Verdict
      /\ accepted \in [Candidates -> Calls \cup {NoCall}]
  BY DEF TypeOK, Call
<1>2. CASE stops
  BY <1>2, EndWrites, Verdicts DEF AfterPhase
<1>3. CASE /\ ~stops
           /\ \/ call[c].phase = "A"
              \/ call[c].phase = "B" /\ EntryOf(c) = "positive"
  <2>1. Proceed(c)
    BY <1>3 DEF AfterPhase
  <2> QED
    BY <1>1, <1>3, <2>1, OtherWrites DEF ProceedsTo, Proceed, VerdictTypes
<1>4. CASE /\ ~stops
           /\ \/ call[c].phase = "B" /\ EntryOf(c) # "positive"
              \/ call[c].phase = "C" /\ EntryOf(c) = "failed"
  <2>1. SettleUnjudged(c, Undecided)
    BY <1>4 DEF AfterPhase
  <2> QED
    BY <2>1, EndWrites, Verdicts
<1>5. CASE /\ ~stops
           /\ call[c].phase = "C" /\ EntryOf(c) = "positive"
  <2>1. Settle(c, Verified(call[c].candidate)) /\ Judge(c, TRUE)
    BY <1>5 DEF AfterPhase
  <2>2. Verified(call[c].candidate) \in Verdict
    BY Fields, Verdicts
  <2> QED
    BY <1>5, <2>1, <2>2, EndWrites
<1>6. CASE /\ ~stops
           /\ call[c].phase = "C" /\ EntryOf(c) = "negative"
  <2>1. Settle(c, Undecided) /\ Judge(c, FALSE)
    BY <1>6 DEF AfterPhase
  <2> QED
    BY <2>1, EndWrites, Verdicts
<1>7. /\ call[c].phase \in {"A", "B", "C"}
      /\ EntryOf(c) \in {"positive", "negative", "failed", "issued"}
  BY <1>1 DEF Phase, Completion, Observed
<1>8. ~stops => EntryOf(c) # "issued"
  OBVIOUS
<1> HIDE DEF stops
<1> QED
  BY <1>2, <1>3, <1>4, <1>5, <1>6, <1>7, <1>8
\* What the steps of an experiment that do more than move its call make of the
\* rest of the state.
RetainedIn(c, s) ==
  Holds(call[c].env, {o \in adapter[call[c].env].leases : LeaseOf(o) # LeaseOf(s)} \cup {s})

Records(c, v) == Enters(call[c].env, TokenOf(c), v)

Begun(c) ==
  /\ UNCHANGED <<env, adapter, live, unclosed>> /\ VerdictTypes
  /\ \/ Aborted(c) /\ Ends(c) /\ rec' = rec
     \/ ~Aborted(c) /\ Records(c, "issued") /\ (Moves(c, "opening") \/ Ends(c))

Created(c) ==
  /\ UNCHANGED <<env, unclosed>> /\ VerdictTypes
  /\ live' = live \cup {<<TokenOf(c), "created">>}
  /\ RetainedIn(c, <<TokenOf(c), "created">>)
  /\ \/ Aborted(c) /\ rec' = rec /\ (Ends(c) \/ Moves(c, "closing"))
     \/ ~Aborted(c) /\ Records(c, "bound") /\ Moves(c, "observing")
     \/ ~Aborted(c) /\ call[c].phase # "A" /\ rec' = rec /\ Moves(c, "configuring")

Configures(c) ==
  /\ UNCHANGED <<env, live, unclosed>> /\ VerdictTypes
  /\ \/ call[c].at = "relaunched" /\ RetainedIn(c, SessionOf(c))
     \/ call[c].at = "configuring" /\ adapter' = adapter
  /\ \/ rec' = rec /\ Ends(c)
     \/ Aborted(c) /\ rec' = rec /\ Moves(c, "closing")
     \/ ~Aborted(c) /\ Records(c, "bound") /\ Moves(c, "observing")

Observes(c) ==
  /\ UNCHANGED <<env, adapter, live, unclosed>>
  /\ \E k \in Completion :
       /\ k \in Observed /\ call[c].phase = "C" =>
            Record(c).entry[<<c, "A">>] \in Observed
       /\ Records(c, k)
  /\ \E deadline \in {"attended", "expired"} :
       Becomes(c, "closing", call[c].phase, call[c].origin, call[c].env, deadline)

Closes(c) ==
  /\ UNCHANGED <<env, rec>> /\ VerdictTypes
  /\ Leaves(SessionOf(c))
  /\ Holds(call[c].env, {o \in adapter[call[c].env].leases : LeaseOf(o) # TokenOf(c)})
  /\ \/ Ends(c)
     \/ /\ ProceedsTo(c)
        /\ EntryOf(c) \in Completion
        /\ call[c].phase = "B" => EntryOf(c) = "positive"

\* What the start of the next phase writes.
LEMMA PhaseWrites ==
  ASSUME TypeOK, NEW c \in Calls, call[c].env # NoCall, CallStands(c)
  PROVE  /\ BeginPhaseOf(c) => Begun(c)
         /\ SessionCreated(c) => Created(c)
         /\ \A applied \in BOOLEAN : Configured(c, applied) => Configures(c)
         /\ \A k \in Completion : Observe(c, k) => Observes(c)
         /\ Expire(c) /\ call[c].at = "observing" => Observes(c)
         /\ CloseReturns(c) /\ EntryOf(c) \in Completion \cup {"issued"} => Closes(c)
<1>1. /\ TokenOf(c) \in Token /\ call[c].env \in Calls
      /\ SessionOf(c) \in Session /\ <<TokenOf(c), "created">> \in Session
  BY Fields, InHand
<1>2. Limited \in Verdict
  BY Verdicts
<1>3. disposition \in Verdict /\ accepted \in [Candidates -> Calls \cup {NoCall}]
  BY DEF TypeOK
<1>4. UNCHANGED <<disposition, accepted>> => VerdictTypes
  BY <1>3 DEF VerdictTypes
<1>5. ASSUME BeginPhaseOf(c) PROVE Begun(c)
  <2>1. UNCHANGED <<env, adapter, live, unclosed>>
    BY <1>5 DEF BeginPhaseOf
  <2>2. CASE Aborted(c)
    BY <1>2, <1>5, <2>1, <2>2, EndWrites DEF BeginPhaseOf, Begun
  <2>3. CASE ~Aborted(c)
    <3>1. rec' = [rec EXCEPT ![call[c].env] = BeginPhase(@, TokenOf(c))]
      BY <1>5, <2>3 DEF BeginPhaseOf
    <3>2. \/ call' = GoTo(c, "opening") /\ UNCHANGED <<disposition, accepted>>
          \/ SettleUnjudged(c, Limited)
      BY <1>5, <2>3 DEF BeginPhaseOf
    <3>3. (Moves(c, "opening") \/ Ends(c)) /\ VerdictTypes
      BY <1>2, <1>4, <3>2, GoToWrites, EndWrites DEF Moves, Stations
    <3> QED
      BY <1>1, <2>1, <2>3, <3>1, <3>3, EntryWrites DEF Begun, Records
  <2> QED
    BY <2>2, <2>3
<1>6. ASSUME SessionCreated(c) PROVE Created(c)
  <2>1. /\ UNCHANGED <<env, unclosed>>
        /\ live' = live \cup {<<TokenOf(c), "created">>}
        /\ adapter' = [adapter EXCEPT ![call[c].env] = Retain(@, <<TokenOf(c), "created">>)]
    BY <1>6 DEF SessionCreated
  <2>2. RetainedIn(c, <<TokenOf(c), "created">>)
    BY <1>1, <2>1, LeaseWrites DEF RetainedIn
  <2>3. \/ Open(c) /\ UNCHANGED <<disposition, accepted>>
        \/ Aborted(c) /\ SettleUnjudged(c, Limited) /\ UNCHANGED rec
        \/ /\ call[c].phase # "A" /\ ~Aborted(c)
           /\ call' = GoTo(c, "configuring") /\ UNCHANGED <<rec, disposition, accepted>>
    <3>1. CASE call[c].phase = "A"
      BY <1>6, <3>1 DEF SessionCreated
    <3>2. CASE call[c].phase # "A" /\ Aborted(c)
      BY <1>6, <3>2 DEF SessionCreated
    <3>3. CASE call[c].phase # "A" /\ ~Aborted(c)
      BY <1>6, <3>3 DEF SessionCreated
    <3> QED
      BY <3>1, <3>2, <3>3
  <2>4. CASE Open(c) /\ UNCHANGED <<disposition, accepted>>
    BY <1>4, <2>1, <2>2, <2>4, OpenWrites DEF Created, Records
  <2>5. CASE Aborted(c) /\ SettleUnjudged(c, Limited) /\ UNCHANGED rec
    BY <1>2, <2>1, <2>2, <2>5, EndWrites DEF Created
  <2>6. CASE /\ call[c].phase # "A" /\ ~Aborted(c)
             /\ call' = GoTo(c, "configuring") /\ UNCHANGED <<rec, disposition, accepted>>
    BY <1>4, <2>1, <2>2, <2>6, GoToWrites DEF Created, Moves, Stations
  <2> QED
    BY <2>3, <2>4, <2>5, <2>6
<1>7. ASSUME NEW applied \in BOOLEAN, Configured(c, applied) PROVE Configures(c)
  <2>1. /\ UNCHANGED <<env, live, unclosed>>
        /\ call[c].at \in {"configuring", "relaunched"} /\ RetainReplacement(c)
        /\ \/ Open(c) /\ UNCHANGED <<disposition, accepted>>
           \/ SettleUnjudged(c, Limited) /\ UNCHANGED rec
    BY <1>7 DEF Configured
  <2>2. \/ call[c].at = "relaunched" /\ RetainedIn(c, SessionOf(c))
        \/ call[c].at = "configuring" /\ adapter' = adapter
    BY <1>1, <2>1, LeaseWrites DEF RetainReplacement, RetainedIn
  <2>3. CASE Open(c) /\ UNCHANGED <<disposition, accepted>>
    BY <1>4, <2>1, <2>2, <2>3, OpenWrites DEF Configures, Records
  <2>4. CASE SettleUnjudged(c, Limited) /\ UNCHANGED rec
    BY <1>2, <2>1, <2>2, <2>4, EndWrites DEF Configures
  <2> QED
    BY <2>1, <2>3, <2>4
<1>8. ASSUME NEW k \in Completion, Observe(c, k) PROVE Observes(c)
  <2>1. rec' = [rec EXCEPT ![call[c].env] = CompletePhase(@, TokenOf(c), k, {})]
    BY <1>8 DEF Observe
  <2>2. call' = GoTo(c, "closing") /\ UNCHANGED <<env, adapter, live, unclosed>>
        /\ (k \in Observed /\ call[c].phase = "C" =>
              Record(c).entry[<<c, "A">>] \in Observed)
        /\ call[c].at = "observing"
    BY <1>8 DEF Observe
  <2>3. Records(c, k)
    BY <1>1, <2>1, EntryWrites DEF Records
  <2>4. Moves(c, "closing")
    BY <2>2, GoToWrites DEF Moves, Stations
  <2>5. call[c].deadline = "attended"
    BY <2>2 DEF CallStands, Aborted
  <2> QED
    BY <2>2, <2>3, <2>4, <2>5 DEF Observes, Moves
<1>9. ASSUME Expire(c), call[c].at = "observing" PROVE Observes(c)
  <2>1. rec' = [rec EXCEPT ![call[c].env] = CompletePhase(@, TokenOf(c), "failed", {})]
    BY <1>9 DEF Expire
  <2>2. UNCHANGED <<env, adapter, live, unclosed>>
    BY <1>9 DEF Expire
  <2>3. Records(c, "failed") /\ "failed" \in Completion /\ "failed" \notin Observed
    BY <1>1, <2>1, EntryWrites DEF Records, Completion, Observed
  <2>4. Becomes(c, "closing", call[c].phase, call[c].origin, call[c].env, "expired")
    BY <1>9, OtherWrites
  <2> QED
    BY <2>2, <2>3, <2>4 DEF Observes
<1>10. ASSUME CloseReturns(c), EntryOf(c) \in Completion \cup {"issued"} PROVE Closes(c)
  <2>1. /\ UNCHANGED <<env, rec>> /\ Leaves(SessionOf(c))
        /\ adapter' = [adapter EXCEPT ![call[c].env] = Release(@, SessionOf(c))]
        /\ \E thrown \in BOOLEAN : AfterPhase(c, thrown)
    BY <1>10, CloseWrites DEF CloseReturns
  <2>2. Holds(call[c].env, {o \in adapter[call[c].env].leases : LeaseOf(o) # TokenOf(c)})
    <3>1. LeaseOf(SessionOf(c)) = TokenOf(c)
      BY DEF LeaseOf, SessionOf
    <3> QED
      BY <1>1, <2>1, <3>1, LeaseWrites
  <2> QED
    BY <1>10, <2>1, <2>2, AfterWrites DEF Closes
<1> QED
  BY <1>5, <1>6, <1>7, <1>8, <1>9, <1>10
------------------------------------------------------------------------------
(* A step of a call keeps the types *)

\* A step of a call keeps the types.
LEMMA StepTypes ==
  ASSUME TypeOK, NEW c \in Calls, CallStands(c), CallStep(c) \/ Timer(c) \/ StartStep(c)
  PROVE  TypeOK'
<1>0. UNCHANGED finalVars /\ Limited \in Verdict /\ Undecided \in Verdict /\ Failed \in Verdict
  BY Verdicts DEF CallStep, Timer, StartStep
<1>1. /\ call \in [Calls -> Call] /\ env \in Calls \cup {NoCall}
      /\ adapter \in [Calls -> Adapter] /\ rec \in [Calls -> Recorder]
      /\ live \subseteq Session /\ unclosed \subseteq Session
      /\ disposition \in Verdict /\ accepted \in [Candidates -> Calls \cup {NoCall}]
      /\ candidateOrder \in Seq(Calls)
  BY DEF TypeOK
<1>2. /\ TokenOf(c) \in Token /\ SessionOf(c) \in Session
      /\ <<TokenOf(c), "created">> \in Session /\ <<TokenOf(c), "relaunched">> \in Session
  BY InHand
<1>3. ASSUME call' \in [Calls -> Call], env' \in Calls \cup {NoCall},
             adapter' \in [Calls -> Adapter], rec' \in [Calls -> Recorder],
             live' \subseteq Session, unclosed' \subseteq Session, VerdictTypes,
             candidateOrder' \in Seq(Calls)
      PROVE  TypeOK'
  BY <1>0, <1>3 DEF TypeOK, VerdictTypes, finalVars
<1>4. UNCHANGED <<disposition, accepted>> => VerdictTypes
  BY <1>1 DEF VerdictTypes
<1>5. Ends(c) \/ (\E at \in Stations : Moves(c, at)) \/ ProceedsTo(c) => call' \in [Calls -> Call]
  BY DEF Ends, Moves, ProceedsTo, Becomes
<1>6. ASSUME Return(c) PROVE TypeOK'
  BY <1>1, <1>3, <1>5, <1>6, <1>0, EndWrites DEF Return
<1>7. CASE StartStep(c)
  <2> PICK r \in Candidates : Start(c, r)
    BY <1>7 DEF StartStep
  <2> QED
    BY <1>1, <1>3, <1>4, StartWrites DEF Start
<1>8. CASE Unpreparable(c)
  BY <1>0, <1>1, <1>3, <1>8, ReturnedWrites DEF Unpreparable, Ends, Becomes, VerdictTypes
<1>9. ASSUME NEW ready \in BOOLEAN, Prepared(c, ready) PROVE TypeOK'
  <2>1. call' \in [Calls -> Call]
    BY <1>9, GoToWrites, ReturnedWrites DEF Prepared, Becomes, Stations
  <2>2. rec' \in [Calls -> Recorder]
    <3>1. RegisterAdapter(rec[c]) \in Recorder
      BY <1>1 DEF RegisterAdapter, Recorder
    <3> QED
      BY <1>1, <1>9, <3>1 DEF Prepared
  <2>3. adapter' \in [Calls -> Adapter]
    <3>1. Prepare(adapter[c], ready) \in Adapter
      BY <1>1 DEF Prepare, Adapter, Lifecycle
    <3> QED
      BY <1>1, <1>9, <3>1 DEF Prepared
  <2> QED
    BY <1>0, <1>1, <1>3, <1>9, <2>1, <2>2, <2>3 DEF Prepared, VerdictTypes
<1>10. CASE Capture(c)
  BY <1>1, <1>3, <1>4, <1>10, OtherWrites DEF Capture, Becomes
<1>11. CASE UnsupportedOperation(c)
  BY <1>6, <1>11 DEF UnsupportedOperation
<1>12. CASE OpenFails(c)
  BY <1>0, <1>1, <1>3, <1>5, <1>12, EndWrites DEF OpenFails
<1>13. CASE Relaunch(c)
  <2>1. live' \subseteq Session /\ unclosed' \subseteq Session
    BY <1>1, <1>2, <1>13 DEF Relaunch, Survives
  <2> QED
    BY <1>1, <1>3, <1>4, <1>13, <2>1, OtherWrites DEF Relaunch, Becomes
<1>27. ASSUME NEW s, Leaves(s) PROVE live' \subseteq Session /\ unclosed' \subseteq Session
  BY <1>1, <1>27 DEF Leaves
<1>14. CASE RelaunchFails(c)
  BY <1>0, <1>1, <1>3, <1>5, <1>14, <1>27, EndWrites, CloseWrites DEF RelaunchFails
<1>15. CASE ConfigurationThrows(c)
  BY <1>6, <1>15 DEF ConfigurationThrows
<1>16. CASE CloseThrows(c)
  BY <1>0, <1>1, <1>3, <1>5, <1>16, <1>27, EndWrites, CloseWrites DEF CloseThrows
<1>17. CASE GraceExpires(c)
  BY <1>1, <1>3, <1>4, <1>17, OtherWrites DEF GraceExpires, Becomes
<1>18. ASSUME Expire(c), call[c].at # "observing" PROVE TypeOK'
  BY <1>1, <1>3, <1>4, <1>18, OtherWrites DEF Expire, Becomes
<1>19. ASSUME \/ BeginPhaseOf(c) \/ SessionCreated(c) \/ CloseReturns(c)
              \/ \E applied \in BOOLEAN : Configured(c, applied)
              \/ \E k \in Completion : Observe(c, k)
              \/ Expire(c) /\ call[c].at = "observing"
       PROVE  call[c].env # NoCall /\ (call[c].at = "closing" => EntryOf(c) \in Completion \cup {"issued"})
  BY <1>19 DEF CallStands, Walking, BeginPhaseOf, SessionCreated, CloseReturns, Configured,
               Observe, Expire
<1>20. \A v : Records(c, v) => rec' \in [Calls -> Recorder]
  BY DEF Records, Enters
<1>21. \A s : RetainedIn(c, s) => adapter' \in [Calls -> Adapter]
  BY DEF RetainedIn, Holds
<1>22. CASE BeginPhaseOf(c)
  <2>1. Begun(c)
    BY <1>19, <1>22, PhaseWrites
  <2>2. candidateOrder' \in Seq(Calls)
    BY <1>1, <1>22 DEF BeginPhaseOf
  <2>3. call' \in [Calls -> Call] /\ rec' \in [Calls -> Recorder]
    BY <1>1, <1>5, <1>20, <2>1 DEF Begun, Stations
  <2> QED
    BY <1>1, <1>3, <2>1, <2>2, <2>3 DEF Begun
<1>23. CASE SessionCreated(c)
  <2>1. Created(c) /\ UNCHANGED candidateOrder
    BY <1>19, <1>23, PhaseWrites DEF SessionCreated
  <2>2. call' \in [Calls -> Call] /\ rec' \in [Calls -> Recorder]
    BY <1>1, <1>5, <1>20, <2>1 DEF Created, Stations
  <2> QED
    BY <1>1, <1>2, <1>3, <1>21, <2>1, <2>2 DEF Created
<1>24. ASSUME NEW applied \in BOOLEAN, Configured(c, applied) PROVE TypeOK'
  <2>1. Configures(c) /\ UNCHANGED candidateOrder
    BY <1>19, <1>24, PhaseWrites DEF Configured
  <2>2. call' \in [Calls -> Call] /\ rec' \in [Calls -> Recorder]
    BY <1>1, <1>5, <1>20, <2>1 DEF Configures, Stations
  <2> QED
    BY <1>1, <1>3, <1>21, <2>1, <2>2, ZenonT(60) DEF Configures
<1>25. ASSUME \/ \E k \in Completion : Observe(c, k)
              \/ Expire(c) /\ call[c].at = "observing"
       PROVE  TypeOK'
  <2>1. Observes(c) /\ UNCHANGED <<disposition, accepted, candidateOrder>>
    BY <1>19, <1>25, PhaseWrites DEF Observe, Expire
  <2> QED
    BY <1>1, <1>3, <1>4, <1>20, <2>1 DEF Observes, Becomes
<1>26. CASE CloseReturns(c)
  <2>1. call[c].at = "closing" /\ UNCHANGED candidateOrder
    BY <1>26 DEF CloseReturns
  <2>2. Closes(c)
    BY <1>19, <1>26, <2>1, PhaseWrites
  <2> QED
    BY <1>1, <1>3, <1>5, <1>27, <2>1, <2>2 DEF Closes, Holds
<1> QED
  BY <1>7, <1>8, <1>9, <1>10, <1>11, <1>12, <1>13, <1>14, <1>15, <1>16, <1>17, <1>18,
     <1>22, <1>23, <1>24, <1>25, <1>26 DEF CallStep, Timer
------------------------------------------------------------------------------
(* A step of a call leaves the other calls alone *)

\* What a step of one call leaves to the others.
LEMMA StepFrames ==
  ASSUME TypeOK, NEW c \in Calls, CallStands(c), CallStep(c) \/ Timer(c) \/ StartStep(c)
  PROVE  Frame(c)
<1>1. /\ TokenOf(c) \in Token /\ SessionOf(c) \in Session
      /\ <<TokenOf(c), "created">> \in Session /\ <<TokenOf(c), "relaunched">> \in Session
  BY InHand
<1>2. /\ Owner(SessionOf(c)) = c
      /\ Owner(<<TokenOf(c), "created">>) = c /\ Owner(<<TokenOf(c), "relaunched">>) = c
  BY DEF Owner, TokenOf, SessionOf
<1>3. \A v : Records(c, v) =>
        /\ \A x \in Calls, d \in Calls \ {c}, p \in Phase :
             rec'[x].entry[<<d, p>>] = rec[x].entry[<<d, p>>]
        /\ \A x \in Calls : rec[x].registered => rec'[x].registered
  <2> TAKE v
  <2> HAVE Records(c, v)
  <2>1. \A x \in Calls, d \in Calls \ {c}, p \in Phase :
          rec'[x].entry[<<d, p>>] = rec[x].entry[<<d, p>>]
    <3> TAKE x \in Calls, d \in Calls \ {c}, p \in Phase
    <3>1. <<d, p>> \in Token /\ <<d, p>> # TokenOf(c)
      BY DEF Token, TokenOf, Calls
    <3> QED
      BY <3>1 DEF Records, Enters
  <2> QED
    BY <2>1 DEF Records, Enters
<1>4. \A s \in Session : Owner(s) = c /\ RetainedIn(c, s) =>
        \A o \in Session : Owner(o) # c =>
          \A x \in Calls : o \in adapter'[x].leases <=> o \in adapter[x].leases
  BY DEF RetainedIn, Holds, Owner, LeaseOf
<1>5. UNCHANGED rec =>
        /\ \A x \in Calls, d \in Calls \ {c}, p \in Phase :
             rec'[x].entry[<<d, p>>] = rec[x].entry[<<d, p>>]
        /\ \A x \in Calls : rec[x].registered => rec'[x].registered
  OBVIOUS
<1>0. UNCHANGED <<run, toDrain>>
  BY DEF CallStep, Timer, StartStep, finalVars
<1>6. UNCHANGED <<rec, adapter, live, unclosed>> /\ (\A d \in Calls \ {c} : call'[d] = call[d])
        => Frame(c)
  BY <1>0 DEF Frame
<1>7. Ends(c) \/ (\E at : Moves(c, at)) \/ ProceedsTo(c) => \A d \in Calls \ {c} : call'[d] = call[d]
  BY DEF Ends, Moves, ProceedsTo, Becomes
<1>8. Limited \in Verdict /\ Undecided \in Verdict /\ Failed \in Verdict
  BY Verdicts
<1>9. CASE StartStep(c)
  <2> PICK r \in Candidates : Start(c, r)
    BY <1>9 DEF StartStep
  <2> QED
    BY <1>6, StartWrites DEF Start
<1>10. CASE Unpreparable(c)
  BY <1>6, <1>10, ReturnedWrites DEF Unpreparable, Becomes
<1>11. ASSUME NEW ready \in BOOLEAN, Prepared(c, ready) PROVE Frame(c)
  <2>1. \A d \in Calls \ {c} : call'[d] = call[d]
    BY <1>11, GoToWrites, ReturnedWrites DEF Prepared, Becomes, Stations
  <2>2. rec \in [Calls -> Recorder] /\ rec' = [rec EXCEPT ![c] = RegisterAdapter(@)]
    BY <1>11 DEF TypeOK, Prepared
  <2>3. \A x \in Calls : rec'[x].entry = rec[x].entry /\ (rec[x].registered => rec'[x].registered)
    BY <2>2 DEF RegisterAdapter, Recorder
  <2>4. adapter \in [Calls -> Adapter] /\ adapter' = [adapter EXCEPT ![c] = Prepare(@, ready)]
    BY <1>11 DEF TypeOK, Prepared
  <2>5. \A x \in Calls : adapter'[x].leases = adapter[x].leases
    BY <2>4 DEF Prepare, Adapter
  <2> QED
    BY <1>0, <1>11, <2>1, <2>3, <2>5 DEF Frame, Prepared
<1>12. CASE Capture(c)
  BY <1>6, <1>12, OtherWrites DEF Capture, Becomes
<1>13. CASE UnsupportedOperation(c) \/ ConfigurationThrows(c)
  BY <1>6, <1>7, <1>8, <1>13, EndWrites DEF UnsupportedOperation, ConfigurationThrows, Return
<1>14. CASE OpenFails(c)
  BY <1>6, <1>7, <1>8, <1>14, EndWrites DEF OpenFails
<1>15. CASE Relaunch(c)
  <2>1. \A d \in Calls \ {c} : call'[d] = call[d]
    BY <1>15, OtherWrites DEF Becomes
  <2>2. \A s \in Session : Owner(s) # c => (s \in live' <=> s \in live) /\ (s \in unclosed' <=> s \in unclosed)
    BY <1>2, <1>15 DEF Relaunch, Survives
  <2> QED
    BY <1>0, <1>5, <1>15, <2>1, <2>2 DEF Frame, Relaunch
<1>16. CASE RelaunchFails(c)
  <2>1. \A d \in Calls \ {c} : call'[d] = call[d]
    BY <1>7, <1>8, <1>16, EndWrites DEF RelaunchFails
  <2>2. \A s \in Session : Owner(s) # c =>
          (s \in live' <=> s \in live) /\ (s \in unclosed' <=> s \in unclosed)
    BY <1>2, <1>16, CloseWrites DEF RelaunchFails, Leaves
  <2> QED
    BY <1>0, <1>5, <1>16, <2>1, <2>2 DEF Frame, RelaunchFails
<1>17. CASE CloseThrows(c)
  <2>1. \A d \in Calls \ {c} : call'[d] = call[d]
    BY <1>7, <1>8, <1>17, EndWrites DEF CloseThrows
  <2>2. \A s \in Session : Owner(s) # c => (s \in unclosed' <=> s \in unclosed)
    BY <1>2, <1>17 DEF CloseThrows, Survives
  <2> QED
    BY <1>0, <1>5, <1>17, <2>1, <2>2 DEF Frame, CloseThrows
<1>18. CASE GraceExpires(c)
  BY <1>6, <1>18, OtherWrites DEF GraceExpires, Becomes
<1>19. ASSUME Expire(c), call[c].at # "observing" PROVE Frame(c)
  BY <1>6, <1>19, OtherWrites DEF Expire, Becomes
<1>20. ASSUME \/ BeginPhaseOf(c) \/ SessionCreated(c) \/ CloseReturns(c)
              \/ \E applied \in BOOLEAN : Configured(c, applied)
              \/ \E k \in Completion : Observe(c, k)
              \/ Expire(c) /\ call[c].at = "observing"
       PROVE  Begun(c) \/ Created(c) \/ Configures(c) \/ Observes(c) \/ Closes(c)
  <2>1. call[c].env # NoCall /\ (call[c].at = "closing" => EntryOf(c) \in Completion \cup {"issued"})
    BY <1>20 DEF CallStands, Walking, BeginPhaseOf, SessionCreated, CloseReturns, Configured,
                 Observe, Expire
  <2>2. CloseReturns(c) => call[c].at = "closing"
    BY DEF CloseReturns
  <2> QED
    BY <1>20, <2>1, <2>2, PhaseWrites
<1>21. CASE Begun(c)
  BY <1>0, <1>3, <1>5, <1>7, <1>21 DEF Begun, Frame
<1>22. CASE Created(c)
  <2>1. \A s \in Session : Owner(s) # c =>
          /\ \A x \in Calls : s \in adapter'[x].leases <=> s \in adapter[x].leases
          /\ s \in live' <=> s \in live
    BY <1>1, <1>2, <1>4, <1>22 DEF Created
  <2> QED
    BY <1>0, <1>3, <1>5, <1>7, <1>22, <2>1 DEF Created, Frame
<1>23. CASE Configures(c)
  <2>1. \A s \in Session : Owner(s) # c =>
          \A x \in Calls : s \in adapter'[x].leases <=> s \in adapter[x].leases
    BY <1>1, <1>2, <1>4, <1>23 DEF Configures
  <2> QED
    BY <1>0, <1>3, <1>5, <1>7, <1>23, <2>1 DEF Configures, Frame
<1>24. CASE Observes(c)
  BY <1>0, <1>3, <1>24 DEF Observes, Frame, Becomes
<1>25. CASE Closes(c)
  <2>1. \A s \in Session : Owner(s) # c =>
          /\ \A x \in Calls : s \in adapter'[x].leases <=> s \in adapter[x].leases
          /\ s \in live' <=> s \in live
          /\ s \in unclosed' <=> s \in unclosed
    BY <1>1, <1>2, <1>25 DEF Closes, Holds, Leaves, LeaseOf, Owner, TokenOf
  <2> QED
    BY <1>0, <1>5, <1>7, <1>25, <2>1 DEF Closes, Frame
<1> QED
  BY <1>9, <1>10, <1>11, <1>12, <1>13, <1>14, <1>15, <1>16, <1>17, <1>18, <1>19, <1>20,
     <1>21, <1>22, <1>23, <1>24, <1>25 DEF CallStep, Timer
------------------------------------------------------------------------------
(* A call that returns keeps its invariant *)

\* What is left of the invariant of a call that has returned.
RestLedger(c) ==
  /\ \A x \in Calls, p \in Phase :
       rec[x].entry[<<c, p>>] # "none" => x = call[c].env
  /\ call[c].env # NoCall =>
       /\ rec[call[c].env].registered
       /\ \A p \in Phase : rec[call[c].env].entry[<<c, p>>] # "bound"
       /\ rec[call[c].env].entry[<<c, "C">>] \in Observed =>
            rec[call[c].env].entry[<<c, "A">>] \in Observed

RestSessions(c) ==
  /\ \A s \in Session : Owner(s) = c =>
       /\ \A x \in Calls : s \in adapter[x].leases => x = call[c].env
       /\ s \in live \cup unclosed \cup toDrain => call[c].env # NoCall
  /\ call[c].env # NoCall =>
       /\ \A s \in Session :
            Owner(s) = c /\ Relaunched(s) /\ s \in Kept(call[c].env) => Replaced(s) \notin Unclosed
       /\ \A s, o \in adapter[call[c].env].leases :
            Owner(s) = c /\ LeaseOf(s) = LeaseOf(o) => s = o
       /\ \A s \in Unclosed : Owner(s) = c => s \in adapter[call[c].env].leases \/ LostToDrain(s)

\* A returned call stands if its evidence and its sessions are those of a call at rest.
LEMMA AtRest ==
  ASSUME NEW c \in Calls, call'[c].at = "returned", RestLedger(c)', RestSessions(c)'
  PROVE  CallInv(c)'
<1>1. call'[c].at = "returned"
  OBVIOUS
<1>2. LedgerFollows(c)'
  BY <1>1 DEF RestLedger, LedgerFollows, Walking
<1>3. CallStands(c)'
  BY <1>1 DEF CallStands, Walking
<1>4. SessionsFollow(c)'
  BY <1>1 DEF RestSessions, SessionsFollow, Walking
<1>5. SessionInHand(c)'
  BY <1>1 DEF SessionInHand
<1> QED
  BY <1>2, <1>3, <1>4, <1>5 DEF CallInv

\* A call that is not being observed leaves a ledger at rest if it writes none.
LEMMA LedgerRests ==
  ASSUME TypeOK, NEW c \in Calls, CallInv(c), call[c].at # "observing",
         rec' = rec, call'[c].env = call[c].env
  PROVE  RestLedger(c)'
<1> QED
  BY DEF CallInv, LedgerFollows, RestLedger

\* Sessions rest when none of those alive was outside its adapter.
LEMMA SessionsRest ==
  ASSUME TypeOK, NEW c \in Calls, CallInv(c), call[c].at \notin {"relaunched", "closing"},
         UNCHANGED <<adapter, run, toDrain>>, live' \subseteq live, unclosed \subseteq unclosed',
         unclosed' \subseteq unclosed \cup live, call'[c].env = call[c].env
  PROVE  RestSessions(c)'
<1>1. SessionsFollow(c)
  BY DEF CallInv
<1>2. \A s : s \in Unclosed' => s \in Unclosed
  BY DEF Unclosed
<1>3. \A s : s \in Kept(call[c].env)' => s \in Kept(call[c].env)
  BY DEF Kept
<1>4. \A s : LostToDrain(s)' <=> LostToDrain(s)
  BY DEF LostToDrain
<1>5. \A s \in Session : Owner(s) = c =>
        /\ \A x \in Calls : s \in adapter'[x].leases => x = call'[c].env
        /\ s \in live' \cup unclosed' \cup toDrain' => call'[c].env # NoCall
  BY <1>1 DEF SessionsFollow
<1>6. ASSUME call[c].env # NoCall
      PROVE  /\ \A s \in Session :
                  Owner(s) = c /\ Relaunched(s) /\ s \in Kept(call[c].env)' => Replaced(s) \notin Unclosed'
             /\ \A s, o \in adapter'[call[c].env].leases :
                  Owner(s) = c /\ LeaseOf(s) = LeaseOf(o) => s = o
             /\ \A s \in Unclosed' : Owner(s) = c => s \in adapter'[call[c].env].leases \/ LostToDrain(s)'
  BY <1>1, <1>2, <1>3, <1>4, <1>6 DEF SessionsFollow
<1> QED
  BY <1>5, <1>6 DEF RestSessions

\* The sessions of a phase: the two that share the lease of the token in hand.
LEMMA SharedLease ==
  ASSUME TypeOK, NEW c \in Calls, NEW o \in Session, LeaseOf(o) = TokenOf(c)
  PROVE  /\ o \in {<<TokenOf(c), "created">>, <<TokenOf(c), "relaunched">>}
         /\ Owner(o) = c /\ PhaseOf(o) = call[c].phase
  BY DEF LeaseOf, Session, TokenOf, Owner, PhaseOf

\* Retaining a session of the phase in hand loses none that is alive, and
\* leaves one lease for each phase.
LEMMA RetainedRests ==
  ASSUME TypeOK, TypeOK', NEW c \in Calls, CallInv(c), call[c].env # NoCall,
         NEW s \in Session, LeaseOf(s) = TokenOf(c), RetainedIn(c, s),
         live' \subseteq live \cup {s}, UNCHANGED <<unclosed, run, toDrain>>,
         call'[c].env = call[c].env,
         \A o \in Unclosed : LeaseOf(o) = LeaseOf(s) => o = s,
         \A o \in Kept(call[c].env) : LeaseOf(o) = LeaseOf(s) /\ Relaunched(o) => o = s,
         call[c].at # "closing"
  PROVE  RestSessions(c)'
<1>1. call[c].env \in Calls
  BY Fields
<1>2. \A x \in Calls : adapter'[x].leases =
        IF x = call[c].env
        THEN {o \in adapter[x].leases : LeaseOf(o) # LeaseOf(s)} \cup {s} ELSE adapter[x].leases
  BY DEF RetainedIn, Holds
<1>3. Owner(s) = c
  BY SharedLease
<1>4. SessionsFollow(c)
  BY DEF CallInv
<1>5. ASSUME NEW o \in Session, Owner(o) = c
      PROVE  /\ \A x \in Calls : o \in adapter'[x].leases => x = call[c].env
             /\ o \in live' \cup unclosed' \cup toDrain' => call[c].env # NoCall
  BY <1>1, <1>2, <1>4, <1>5 DEF SessionsFollow
<1>6. \A o, q \in adapter'[call[c].env].leases :
        Owner(o) = c /\ LeaseOf(o) = LeaseOf(q) => o = q
  <2>1. \A o, q \in adapter[call[c].env].leases :
          Owner(o) = c /\ LeaseOf(o) = LeaseOf(q) => o = q
    BY <1>4 DEF SessionsFollow
  <2>2. adapter'[call[c].env].leases =
          {o \in adapter[call[c].env].leases : LeaseOf(o) # LeaseOf(s)} \cup {s}
    BY <1>1, <1>2
  <2> QED
    BY <2>1, <2>2
<1>7. ASSUME NEW o \in Unclosed', Owner(o) = c
      PROVE  o \in adapter'[call[c].env].leases \/ LostToDrain(o)'
  <2>1. CASE o = s
    BY <1>1, <1>2, <2>1
  <2>2. CASE o # s
    <3>1. o \in Unclosed /\ LeaseOf(o) # LeaseOf(s)
      BY <1>7, <2>2 DEF Unclosed
    <3>2. \/ o \in adapter[call[c].env].leases
          \/ call[c].at \in {"relaunched", "closing"} /\ o = SessionOf(c)
          \/ LostToDrain(o)'
      BY <1>4, <1>7, <3>1 DEF SessionsFollow, LostToDrain
    <3>3. LeaseOf(SessionOf(c)) = TokenOf(c)
      BY DEF LeaseOf, SessionOf
    <3> QED
      BY <1>1, <1>2, <3>1, <3>2, <3>3
  <2> QED
    BY <2>1, <2>2
<1>8. ASSUME NEW o \in Session, Owner(o) = c, Relaunched(o), o \in Kept(call[c].env)'
      PROVE  Replaced(o) \notin Unclosed'
  <2>1. o \in Kept(call[c].env) \/ o = s
    <3>1. adapter'[call[c].env].leases \subseteq adapter[call[c].env].leases \cup {s}
      BY <1>1, <1>2
    <3> QED
      BY <1>8, <3>1 DEF Kept
  <2>2. /\ LeaseOf(Replaced(o)) = LeaseOf(o) /\ Replaced(o) # o
        /\ Replaced(o) \in Unclosed' => Replaced(o) \in Unclosed \/ Replaced(o) = s
    BY <1>8 DEF Replaced, LeaseOf, Relaunched, Unclosed, Session
  <2>3. CASE o = s
    BY <2>2, <2>3
  <2>4. CASE o # s
    BY <1>4, <1>8, <2>1, <2>2, <2>4 DEF SessionsFollow
  <2> QED
    BY <2>3, <2>4
<1> QED
  BY <1>1, <1>5, <1>6, <1>7, <1>8 DEF RestSessions
------------------------------------------------------------------------------
(* A step of a call keeps its own invariant *)

\* What an entry written for the token in hand means phase by phase.
LEMMA OwnEntries ==
  ASSUME TypeOK, NEW c \in Calls, call[c].env # NoCall, NEW v, Records(c, v)
  PROVE  /\ \A x \in Calls, p \in Phase :
              rec'[x].entry[<<c, p>>] =
                IF x = call[c].env /\ p = call[c].phase THEN v ELSE rec[x].entry[<<c, p>>]
         /\ \A x \in Calls : rec'[x].registered = rec[x].registered
<1>1. \A p \in Phase : <<c, p>> \in Token /\ (<<c, p>> = TokenOf(c) <=> p = call[c].phase)
  BY DEF Token, TokenOf, Calls
<1> QED
  BY <1>1 DEF Records, Enters

\* The phases before and after a phase.
LEMMA PhaseOrder ==
  /\ \A p \in Phase : Ahead(p) \subseteq Phase /\ Earlier(p) \subseteq Phase
                      /\ p \notin Ahead(p) /\ p \notin Earlier(p)
  /\ \A p \in {"A", "B"} :
       /\ NextPhase[p] \in Phase /\ NextPhase[p] \in Ahead(p)
       /\ Ahead(NextPhase[p]) \subseteq Ahead(p) /\ Earlier(NextPhase[p]) = Earlier(p) \cup {p}
       /\ NextPhase[p] = "C" => p = "B"
  BY DEF Ahead, Earlier, Phase, NextPhase

\* Beginning a phase.
LEMMA BegunKeeps ==
  ASSUME TypeOK, TypeOK', NEW c \in Calls, CallInv(c), call[c].at = "phase", Begun(c),
         UNCHANGED <<run, toDrain>>
  PROVE  CallInv(c)'
<1>1. call[c].env \in Calls /\ call[c].env # NoCall /\ call[c].phase \in Phase
  BY Fields DEF CallInv, CallStands, Walking
<1>2. LedgerFollows(c) /\ CallStands(c) /\ SessionsFollow(c) /\ SessionInHand(c) /\ Walking(c)
  BY DEF CallInv, Walking
<1>3. CASE Ends(c) /\ rec' = rec
  BY <1>3, LedgerRests, SessionsRest, AtRest DEF Begun, Ends, Becomes
<1>4. ASSUME Records(c, "issued"), ~Aborted(c)
      PROVE  /\ \A x \in Calls, p \in Phase :
                  rec'[x].entry[<<c, p>>] =
                    IF x = call[c].env /\ p = call[c].phase THEN "issued" ELSE rec[x].entry[<<c, p>>]
             /\ \A x \in Calls : rec'[x].registered = rec[x].registered
  BY <1>1, <1>4, OwnEntries
<1>5. rec[call[c].env].entry[<<c, call[c].phase>>] = "none"
  BY <1>2 DEF CallStands, EntryOf, Record, TokenOf
<1>6. ASSUME Records(c, "issued"), ~Aborted(c), call'[c].env = call[c].env
      PROVE  RestLedger(c)'
  <2>1. \A p \in Phase : rec[call[c].env].entry[<<c, p>>] # "bound"
    BY <1>1, <1>2 DEF LedgerFollows
  <2>2. rec'[call[c].env].entry[<<c, "C">>] \in Observed => rec'[call[c].env].entry[<<c, "A">>] \in Observed
    <3>1. CASE call[c].phase = "A"
      BY <1>1, <1>2, <1>4, <1>6, <3>1 DEF LedgerFollows, Ahead, Observed, Phase
    <3>2. CASE call[c].phase # "A"
      BY <1>1, <1>2, <1>4, <1>6, <3>2 DEF LedgerFollows, Observed, Phase
    <3> QED
      BY <3>1, <3>2
  <2> QED
    BY <1>1, <1>2, <1>4, <1>6, <2>1, <2>2 DEF LedgerFollows, RestLedger
<1>7. CASE Records(c, "issued") /\ ~Aborted(c) /\ Ends(c)
  <2>1. call'[c].env = call[c].env /\ call'[c].at = "returned"
    BY <1>7 DEF Ends, Becomes
  <2> QED
    BY <1>6, <1>7, <2>1, SessionsRest, AtRest DEF Begun
<1>8. CASE Records(c, "issued") /\ ~Aborted(c) /\ Moves(c, "opening")
  <2>1. /\ call'[c].env = call[c].env /\ call'[c].phase = call[c].phase
        /\ call'[c].at = "opening" /\ call'[c].origin = call[c].origin
        /\ call'[c].deadline = call[c].deadline
    BY <1>8 DEF Moves, Becomes
  <2>2. UNCHANGED <<adapter, live, unclosed>>
    BY DEF Begun
  <2>3. RestLedger(c)'
    BY <1>6, <1>8, <2>1
  <2>4. \A p \in Ahead(call[c].phase) : rec'[call[c].env].entry[<<c, p>>] = "none"
    BY <1>1, <1>2, <1>4, <1>8, PhaseOrder DEF LedgerFollows
  <2>5. /\ \A p \in Earlier(call[c].phase) : rec'[call[c].env].entry[<<c, p>>] \in Completion
        /\ call[c].phase = "C" => rec'[call[c].env].entry[<<c, "B">>] = "positive"
    BY <1>1, <1>2, <1>4, <1>8, PhaseOrder DEF LedgerFollows, Phase
  <2>6. LedgerFollows(c)'
    BY <1>1, <2>1, <2>3, <2>4, <2>5 DEF LedgerFollows, RestLedger
  <2>7. EntryOf(c)' = "issued"
    BY <1>1, <1>4, <1>8, <2>1 DEF EntryOf, Record, TokenOf
  <2>8. CallStands(c)'
    BY <1>1, <1>2, <2>1, <2>7 DEF CallStands
  <2>9. SessionsFollow(c)'
    BY <1>1, <1>2, <2>1, <2>2 DEF SessionsFollow, Walking, Kept, Unclosed, LostToDrain
  <2>10. SessionInHand(c)'
    BY <2>1 DEF SessionInHand
  <2> QED
    BY <2>6, <2>8, <2>9, <2>10 DEF CallInv
<1> QED
  BY <1>3, <1>7, <1>8 DEF Begun
\* A call that stays in its phase, with a session of that phase.
LEMMA SessionsGoOn ==
  ASSUME TypeOK, NEW c \in Calls, CallInv(c), Walking(c), RestSessions(c)',
         call'[c].env = call[c].env, call'[c].phase = call[c].phase,
         call'[c].at \in {"configuring", "relaunched", "observing", "closing"},
         \A s \in Session : Owner(s) = c /\ s \in Kept(call[c].env)' =>
           s \in Kept(call[c].env) \/ PhaseOf(s) = call[c].phase
  PROVE  SessionsFollow(c)'
<1>1. call[c].env # NoCall /\ call[c].phase \in Phase
  BY Fields DEF CallInv, CallStands
<1>2. \A s \in Session : Owner(s) = c /\ s \in Kept(call[c].env)' => PhaseOf(s) \notin Ahead(call[c].phase)
  BY <1>1, PhaseOrder DEF CallInv, SessionsFollow
<1>3. \A s \in Session : Owner(s) = c /\ (s \in Kept(call[c].env))' => PhaseOf(s) \notin Ahead(call[c].phase)
  BY <1>2
<1> QED
  BY <1>1, <1>3 DEF RestSessions, SessionsFollow, Kept, Unclosed

\* A call that moves within its phase and leaves the ledger alone.
LEMMA LedgerStays ==
  ASSUME TypeOK, NEW c \in Calls, CallInv(c), Walking(c), call[c].at # "observing",
         rec' = rec, call'[c].env = call[c].env, call'[c].phase = call[c].phase
  PROVE  LedgerFollows(c)' /\ EntryOf(c)' = EntryOf(c)
<1>1. LedgerFollows(c)'
  BY DEF CallInv, LedgerFollows, Walking
<1>2. EntryOf(c)' = EntryOf(c)
  BY DEF EntryOf, Record, TokenOf
<1> QED
  BY <1>1, <1>2

\* A call that binds its lease.
LEMMA LedgerBinds ==
  ASSUME TypeOK, NEW c \in Calls, CallInv(c), Records(c, "bound"),
         call[c].at \in {"opening", "configuring", "relaunched"}, Moves(c, "observing")
  PROVE  LedgerFollows(c)' /\ EntryOf(c)' = "bound"
<1>1. /\ call[c].env \in Calls /\ call[c].env # NoCall /\ call[c].phase \in Phase
      /\ LedgerFollows(c) /\ Walking(c) /\ EntryOf(c) = "issued"
  BY Fields DEF CallInv, CallStands, Walking
<1>2. /\ \A x \in Calls, p \in Phase :
           rec'[x].entry[<<c, p>>] =
             IF x = call[c].env /\ p = call[c].phase THEN "bound" ELSE rec[x].entry[<<c, p>>]
      /\ \A x \in Calls : rec'[x].registered = rec[x].registered
  BY <1>1, OwnEntries
<1>3. /\ call'[c].env = call[c].env /\ call'[c].phase = call[c].phase
      /\ call'[c].at = "observing"
  BY DEF Moves, Becomes
<1>4. EntryOf(c)' = "bound"
  BY <1>1, <1>2, <1>3 DEF EntryOf, Record, TokenOf
<1>5. /\ rec'[call[c].env].registered
      /\ \A p \in Phase : rec'[call[c].env].entry[<<c, p>>] = "bound" => call[c].phase = p
      /\ \A x \in Calls, p \in Phase : rec'[x].entry[<<c, p>>] # "none" => x = call[c].env
  BY <1>1, <1>2 DEF LedgerFollows
<1>6. rec'[call[c].env].entry[<<c, "C">>] \in Observed => rec'[call[c].env].entry[<<c, "A">>] \in Observed
  <2>1. CASE call[c].phase = "A"
    BY <1>1, <1>2, <2>1 DEF LedgerFollows, Ahead, Observed, Phase
  <2>2. CASE call[c].phase # "A"
    BY <1>1, <1>2, <2>2 DEF LedgerFollows, Observed, Phase
  <2> QED
    BY <2>1, <2>2
<1>7. /\ \A p \in Ahead(call[c].phase) : rec'[call[c].env].entry[<<c, p>>] = "none"
      /\ \A p \in Earlier(call[c].phase) : rec'[call[c].env].entry[<<c, p>>] \in Completion
      /\ call[c].phase = "C" => rec'[call[c].env].entry[<<c, "B">>] = "positive"
  BY <1>1, <1>2, PhaseOrder DEF LedgerFollows, Phase
<1>8. LedgerFollows(c)'
  BY <1>1, <1>3, <1>5, <1>6, <1>7, ZenonT(60) DEF LedgerFollows
<1> QED
  BY <1>4, <1>8

\* A session that is created.
LEMMA CreatedKeeps ==
  ASSUME TypeOK, TypeOK', NEW c \in Calls, CallInv(c), call[c].at = "opening", Created(c),
         UNCHANGED <<run, toDrain>>
  PROVE  CallInv(c)'
<1> DEFINE s == <<TokenOf(c), "created">>
<1>1. /\ call[c].env \in Calls /\ call[c].env # NoCall /\ call[c].phase \in Phase
      /\ Walking(c) /\ EntryOf(c) = "issued" /\ call[c].origin = "created"
  BY Fields DEF CallInv, CallStands, Walking
<1>2. /\ s \in Session /\ LeaseOf(s) = TokenOf(c) /\ SessionOf(c) = s
      /\ <<TokenOf(c), "relaunched">> \in Session /\ <<TokenOf(c), "relaunched">> # s
      /\ LeaseOf(<<TokenOf(c), "relaunched">>) = TokenOf(c)
  BY <1>1, InHand DEF LeaseOf, SessionOf
<1>3. live' = live \cup {s} /\ unclosed' = unclosed /\ RetainedIn(c, s)
  BY DEF Created
<1>4. \A o \in Session : LeaseOf(o) = TokenOf(c) => o \notin Kept(call[c].env)
  BY <1>1, SharedLease DEF CallInv, SessionsFollow
<1>5. /\ \A o \in Unclosed : LeaseOf(o) = LeaseOf(s) => o = s
      /\ \A o \in Kept(call[c].env) : LeaseOf(o) = LeaseOf(s) /\ Relaunched(o) => o = s
  <2>1. Kept(call[c].env) \subseteq Session /\ Unclosed \subseteq Kept(call[c].env)
    BY <1>1 DEF Kept, Unclosed, TypeOK, Adapter
  <2> QED
    BY <1>2, <1>4, <2>1
<1>6. call'[c].env = call[c].env => RestSessions(c)'
  BY <1>1, <1>2, <1>3, <1>5, RetainedRests
<1>7. adapter'[call[c].env].leases =
        {o \in adapter[call[c].env].leases : LeaseOf(o) # LeaseOf(s)} \cup {s}
  BY <1>1, <1>3 DEF RetainedIn, Holds
<1>8. call'[c].env = call[c].env =>
        \A o \in Session : o \in Kept(call[c].env)' => o \in Kept(call[c].env) \/ o = s
  BY <1>3, <1>7 DEF Kept
<1>9. PhaseOf(s) = call[c].phase
  BY <1>2, SharedLease
<1> HIDE DEF s
<1>10. CASE Ends(c) /\ rec' = rec
  <2>1. call'[c].env = call[c].env /\ call'[c].at = "returned"
    BY <1>10 DEF Ends, Becomes
  <2> QED
    BY <1>6, <1>10, <2>1, LedgerRests, AtRest
<1>11. ASSUME NEW at \in {"closing", "observing", "configuring"}, Moves(c, at)
       PROVE  /\ call'[c].env = call[c].env /\ call'[c].phase = call[c].phase
              /\ call'[c].origin = "created" /\ call'[c].at = at
              /\ call'[c].deadline = call[c].deadline
              /\ SessionsFollow(c)' /\ TokenOf(c)' = TokenOf(c) /\ SessionOf(c)' = s
              /\ s \in live' /\ s \in adapter'[call'[c].env].leases
              /\ (<<TokenOf(c), "relaunched">> \notin Kept(call[c].env))'
  <2>1. /\ call'[c].env = call[c].env /\ call'[c].phase = call[c].phase
        /\ call'[c].origin = "created" /\ call'[c].at = at
        /\ call'[c].deadline = call[c].deadline
    BY <1>1, <1>11 DEF Moves, Becomes
  <2>2. SessionsFollow(c)'
    BY <1>1, <1>6, <1>8, <1>9, <2>1, SessionsGoOn
  <2>3. TokenOf(c)' = TokenOf(c) /\ SessionOf(c)' = s
    BY <1>1, <1>2, <2>1 DEF TokenOf, SessionOf
  <2>4. s \in live' /\ s \in adapter'[call'[c].env].leases
    BY <1>3, <1>7, <2>1
  <2>5. <<TokenOf(c), "relaunched">> \notin Kept(call[c].env)'
    BY <1>2, <1>4, <1>8, <2>1
  <2>6. (<<TokenOf(c), "relaunched">> \notin Kept(call[c].env))'
    BY <2>1, <2>3, <2>5 DEF Kept
  <2> QED
    BY <2>1, <2>2, <2>3, <2>4, <2>6
<1>12. CASE Aborted(c) /\ rec' = rec /\ Moves(c, "closing")
  <2>1. LedgerFollows(c)' /\ EntryOf(c)' = "issued"
    BY <1>1, <1>11, <1>12, LedgerStays
  <2>2. CallStands(c)'
    BY <1>1, <1>11, <1>12, <2>1 DEF CallStands, Aborted, Walking
  <2>3. SessionInHand(c)'
    BY <1>11, <1>12 DEF SessionInHand, Adapt
  <2> QED
    BY <1>11, <1>12, <2>1, <2>2, <2>3 DEF CallInv
<1>13. CASE ~Aborted(c) /\ Records(c, "bound") /\ Moves(c, "observing")
  <2>1. LedgerFollows(c)' /\ EntryOf(c)' = "bound"
    BY <1>13, LedgerBinds
  <2>2. CallStands(c)'
    BY <1>1, <1>11, <1>13, <2>1 DEF CallStands, Aborted, Walking
  <2>3. SessionInHand(c)'
    BY <1>11, <1>13 DEF SessionInHand, Adapt
  <2> QED
    BY <1>11, <1>13, <2>1, <2>2, <2>3 DEF CallInv
<1>14. CASE ~Aborted(c) /\ call[c].phase # "A" /\ rec' = rec /\ Moves(c, "configuring")
  <2>1. LedgerFollows(c)' /\ EntryOf(c)' = "issued"
    BY <1>1, <1>11, <1>14, LedgerStays
  <2>2. CallStands(c)'
    BY <1>1, <1>11, <1>14, <2>1 DEF CallStands, Walking
  <2>3. SessionInHand(c)'
    BY <1>11, <1>14 DEF SessionInHand, Adapt, s
  <2> QED
    BY <1>11, <1>14, <2>1, <2>2, <2>3 DEF CallInv
<1> QED
  BY <1>10, <1>12, <1>13, <1>14 DEF Created
\* A configuration that hands a session back.
LEMMA ConfiguresKeeps ==
  ASSUME TypeOK, TypeOK', NEW c \in Calls, CallInv(c),
         call[c].at \in {"configuring", "relaunched"}, Configures(c),
         UNCHANGED <<run, toDrain>>
  PROVE  CallInv(c)'
<1> DEFINE s == SessionOf(c)
<1>1. /\ call[c].env \in Calls /\ call[c].env # NoCall /\ call[c].phase \in Phase
      /\ Walking(c) /\ EntryOf(c) = "issued"
      /\ call[c].at = "configuring" => call[c].origin = "created"
      /\ call[c].at = "relaunched" => call[c].origin = "relaunched"
  BY Fields DEF CallInv, CallStands, Walking
<1>2. s \in Session /\ LeaseOf(s) = TokenOf(c)
  BY InHand DEF LeaseOf, SessionOf
<1>3. /\ live' = live /\ unclosed' = unclosed
      /\ \/ call[c].at = "relaunched" /\ RetainedIn(c, s)
         \/ call[c].at = "configuring" /\ adapter' = adapter
  BY DEF Configures
<1>4. SessionInHand(c)
  BY DEF CallInv
<1>5. ASSUME call'[c].env = call[c].env PROVE RestSessions(c)'
  <2>1. CASE call[c].at = "configuring"
    BY <1>1, <1>3, <1>5, <2>1, SessionsRest
  <2>2. CASE call[c].at = "relaunched"
    <3>1. s = <<TokenOf(c), "relaunched">> /\ <<TokenOf(c), "created">> \notin Unclosed
      BY <1>1, <1>4, <2>2 DEF SessionInHand, SessionOf
    <3>2. \A o \in Session : LeaseOf(o) = LeaseOf(s) =>
            o \in {<<TokenOf(c), "created">>, <<TokenOf(c), "relaunched">>}
      BY <1>2, SharedLease
    <3>3. Kept(call[c].env) \subseteq Session /\ Unclosed \subseteq Session
      BY <1>1 DEF Kept, Unclosed, TypeOK, Adapter
    <3>4. /\ \A o \in Unclosed : LeaseOf(o) = LeaseOf(s) => o = s
          /\ \A o \in Kept(call[c].env) : LeaseOf(o) = LeaseOf(s) /\ Relaunched(o) => o = s
      BY <3>1, <3>2, <3>3 DEF Relaunched
    <3> QED
      BY <1>1, <1>2, <1>3, <1>5, <2>2, <3>4, RetainedRests
  <2> QED
    BY <2>1, <2>2
<1>6. call[c].at = "relaunched" => adapter'[call[c].env].leases =
        {o \in adapter[call[c].env].leases : LeaseOf(o) # LeaseOf(s)} \cup {s}
  BY <1>1, <1>3 DEF RetainedIn, Holds
<1>7. call'[c].env = call[c].env =>
        \A o \in Session : o \in Kept(call[c].env)' => o \in Kept(call[c].env) \/ o = s
  BY <1>3, <1>6 DEF Kept
<1>8. PhaseOf(s) = call[c].phase
  BY <1>2, SharedLease
<1>9. call[c].deadline # "detached" => s \in live /\ s \in adapter'[call[c].env].leases
  <2>1. call[c].at = "configuring" => s = <<TokenOf(c), "created">>
    BY <1>1 DEF SessionOf
  <2> QED
    BY <1>3, <1>4, <1>6, <2>1 DEF SessionInHand, Adapt
<1>14. /\ call[c].at = "configuring" => <<TokenOf(c), "relaunched">> \notin Kept(call[c].env)
       /\ call[c].at = "relaunched" => <<TokenOf(c), "created">> \notin Unclosed
  BY <1>1, <1>4 DEF SessionInHand
<1> HIDE DEF s
<1>10. CASE rec' = rec /\ Ends(c)
  <2>1. call'[c].env = call[c].env /\ call'[c].at = "returned"
    BY <1>10 DEF Ends, Becomes
  <2> QED
    BY <1>5, <1>10, <2>1, LedgerRests, AtRest
<1>11. ASSUME NEW at \in {"closing", "observing"}, Moves(c, at)
       PROVE  /\ call'[c].env = call[c].env /\ call'[c].phase = call[c].phase
              /\ call'[c].at = at /\ call'[c].deadline = call[c].deadline
              /\ SessionsFollow(c)' /\ SessionInHand(c)'
  <2>1. /\ call'[c].env = call[c].env /\ call'[c].phase = call[c].phase
        /\ call'[c].at = at /\ call'[c].deadline = call[c].deadline
        /\ call'[c].origin = call[c].origin
    BY <1>1, <1>11 DEF Moves, Becomes
  <2>2. SessionsFollow(c)'
    BY <1>1, <1>5, <1>7, <1>8, <2>1, SessionsGoOn
  <2>3. SessionOf(c)' = s
    BY <2>1 DEF TokenOf, SessionOf, s
  <2>4. /\ call[c].origin = "created" => (<<TokenOf(c), "relaunched">> \notin Kept(call[c].env))'
        /\ call[c].origin = "relaunched" => (<<TokenOf(c), "created">> \notin Unclosed)'
    <3>1. TokenOf(c)' = TokenOf(c)
      BY <2>1 DEF TokenOf
    <3>2. Unclosed' = Unclosed
      BY <1>3 DEF Unclosed
    <3>3. call[c].at = "configuring" => (Kept(call[c].env))' = Kept(call[c].env)
      BY <1>3, <2>1 DEF Kept
    <3> QED
      BY <1>1, <1>14, <2>1, <3>1, <3>2, <3>3
  <2>5. SessionInHand(c)'
    BY <1>3, <1>9, <2>1, <2>3, <2>4 DEF SessionInHand, Adapt
  <2> QED
    BY <2>1, <2>2, <2>5
<1>12. CASE Aborted(c) /\ rec' = rec /\ Moves(c, "closing")
  <2>1. LedgerFollows(c)' /\ EntryOf(c)' = "issued"
    BY <1>1, <1>11, <1>12, LedgerStays
  <2>2. CallStands(c)'
    BY <1>1, <1>11, <1>12, <2>1 DEF CallStands, Aborted, Walking
  <2> QED
    BY <1>11, <1>12, <2>1, <2>2 DEF CallInv
<1>13. CASE ~Aborted(c) /\ Records(c, "bound") /\ Moves(c, "observing")
  <2>1. LedgerFollows(c)' /\ EntryOf(c)' = "bound"
    BY <1>13, LedgerBinds
  <2>2. CallStands(c)'
    BY <1>1, <1>11, <1>13, <2>1 DEF CallStands, Aborted, Walking
  <2> QED
    BY <1>11, <1>13, <2>1, <2>2 DEF CallInv
<1> QED
  BY <1>10, <1>12, <1>13 DEF Configures

\* A session that replaces the created one.
LEMMA RelaunchKeeps ==
  ASSUME TypeOK, TypeOK', NEW c \in Calls, CallInv(c), Relaunch(c), UNCHANGED <<run, toDrain>>
  PROVE  CallInv(c)'
<1> DEFINE s == <<TokenOf(c), "created">>
           r == <<TokenOf(c), "relaunched">>
<1>1. /\ call[c].env \in Calls /\ call[c].env # NoCall /\ call[c].phase \in Phase
      /\ call[c].at = "configuring" /\ Walking(c) /\ EntryOf(c) = "issued"
      /\ call[c].origin = "created"
  BY Fields DEF CallInv, CallStands, Walking, Relaunch
<1>2. /\ s \in Session /\ r \in Session /\ s # r /\ SessionOf(c) = s
      /\ Owner(s) = c /\ Owner(r) = c /\ PhaseOf(r) = call[c].phase
  BY <1>1, InHand DEF LeaseOf, SessionOf, Owner, PhaseOf, TokenOf
<1>3. /\ call'[c].at = "relaunched" /\ call'[c].phase = call[c].phase
      /\ call'[c].origin = "relaunched" /\ call'[c].env = call[c].env
      /\ call'[c].deadline = call[c].deadline
  BY OtherWrites DEF Relaunch, Becomes
<1>4. /\ rec' = rec /\ adapter' = adapter
      /\ \/ live' = (live \ {s}) \cup {r} /\ unclosed' = unclosed
         \/ live' = live \cup {r} /\ unclosed' = unclosed \cup {s}
  BY <1>2 DEF Relaunch, Survives
<1>5. r \notin Kept(call[c].env)
      /\ (call[c].deadline # "detached" => s \in adapter[call[c].env].leases)
  BY <1>1 DEF CallInv, SessionInHand, Adapt
<1>6. TokenOf(c)' = TokenOf(c) /\ SessionOf(c)' = r
  BY <1>3 DEF TokenOf, SessionOf
<1>7. SessionsFollow(c)
  BY DEF CallInv
<1>12. /\ Relaunched(r) /\ ~Relaunched(s) /\ Replaced(r) = s
       /\ \A o \in Session : ~Relaunched(Replaced(o))
  BY DEF Relaunched, Replaced
<1>13. s \notin Unclosed' /\ r \in live' /\ \A o : o \in Unclosed' => o \in Unclosed \/ o = r
  BY <1>2, <1>4 DEF Unclosed
<1> HIDE DEF s, r
<1>8. LedgerFollows(c)' /\ EntryOf(c)' = "issued"
  BY <1>1, <1>3, <1>4, LedgerStays
<1>9. CallStands(c)'
  BY <1>1, <1>3, <1>8 DEF CallStands, Walking
<1>10. SessionsFollow(c)'
  <2>1. \A o \in Session : Owner(o) = c =>
          \A x \in Calls : o \in adapter'[x].leases => x = call'[c].env
    BY <1>3, <1>4, <1>7 DEF SessionsFollow
  <2>2. \A o \in Session : Owner(o) = c /\ o \in Kept(call[c].env)' =>
          PhaseOf(o) \notin Ahead(call[c].phase)
    <3>1. \A o \in Session : o \in Kept(call[c].env)' => o \in Kept(call[c].env) \/ o = r \/ o = s
      BY <1>3, <1>4 DEF Kept
    <3>2. PhaseOf(s) = call[c].phase
      BY DEF s, PhaseOf, TokenOf
    <3> QED
      BY <1>1, <1>2, <1>7, <3>1, <3>2, PhaseOrder DEF SessionsFollow
  <2>3. \A o, q \in adapter'[call[c].env].leases :
          Owner(o) = c /\ LeaseOf(o) = LeaseOf(q) => o = q
    BY <1>1, <1>4, <1>7 DEF SessionsFollow
  <2>4. \A o \in Unclosed' : Owner(o) = c =>
          o \in adapter'[call[c].env].leases \/ o = r \/ LostToDrain(o)'
    BY <1>1, <1>4, <1>7, <1>13 DEF SessionsFollow, LostToDrain
  <2>5. \A o \in Session : Owner(o) = c /\ Relaunched(o) /\ o \in Kept(call[c].env)' =>
          Replaced(o) \notin Unclosed'
    <3>1. \A o \in Session : o \in Kept(call[c].env)' => o \in Kept(call[c].env) \/ o = r \/ o = s
      BY <1>3, <1>4 DEF Kept
    <3> QED
      BY <1>1, <1>7, <1>12, <1>13, <3>1 DEF SessionsFollow
  <2>6. \A o \in Session : Owner(o) = c => (o \in live' \cup unclosed' \cup toDrain' => call'[c].env # NoCall)
    BY <1>1, <1>3
  <2> QED
    BY <1>1, <1>3, <1>6, <2>1, <2>2, <2>3, <2>4, <2>5, <2>6 DEF SessionsFollow, Kept, Unclosed
<1>11. SessionInHand(c)'
  <2>1. s \notin Unclosed' /\ r \in live'
    BY <1>13
  <2>2. TokenOf(c)' = TokenOf(c) /\ <<TokenOf(c)', "created">> = s
    BY <1>6 DEF s
  <2> QED
    BY <1>3, <1>4, <1>5, <1>6, <2>1, <2>2 DEF SessionInHand, Adapt
<1> QED
  BY <1>8, <1>9, <1>10, <1>11 DEF CallInv
\* An observation that ends, or is ended by the signal.
LEMMA ObservesKeeps ==
  ASSUME TypeOK, TypeOK', NEW c \in Calls, CallInv(c), call[c].at = "observing", Observes(c),
         UNCHANGED <<run, toDrain>>
  PROVE  CallInv(c)'
<1>1. /\ call[c].env \in Calls /\ call[c].env # NoCall /\ call[c].phase \in Phase
      /\ Walking(c) /\ call[c].deadline = "attended" /\ LedgerFollows(c) /\ EntryOf(c) = "bound"
  BY Fields DEF CallInv, CallStands, Walking, Aborted
<1> PICK k \in Completion : /\ k \in Observed /\ call[c].phase = "C" =>
                                 Record(c).entry[<<c, "A">>] \in Observed
                            /\ Records(c, k)
  BY DEF Observes
<1>2. /\ call'[c].at = "closing" /\ call'[c].phase = call[c].phase
      /\ call'[c].origin = call[c].origin /\ call'[c].env = call[c].env
      /\ UNCHANGED <<adapter, live, unclosed>>
  BY DEF Observes, Becomes
<1>3. /\ \A x \in Calls, p \in Phase :
           rec'[x].entry[<<c, p>>] =
             IF x = call[c].env /\ p = call[c].phase THEN k ELSE rec[x].entry[<<c, p>>]
      /\ \A x \in Calls : rec'[x].registered = rec[x].registered
  BY <1>1, OwnEntries
<1>4. EntryOf(c)' \in Completion
  BY <1>1, <1>2, <1>3 DEF EntryOf, Record, TokenOf
<1>5. k # "bound" /\ k # "none"
  BY DEF Completion, Observed
<1>6. /\ rec'[call[c].env].registered
      /\ \A p \in Phase : rec'[call[c].env].entry[<<c, p>>] # "bound"
      /\ \A x \in Calls, p \in Phase : rec'[x].entry[<<c, p>>] # "none" => x = call[c].env
  BY <1>1, <1>3, <1>5 DEF LedgerFollows
<1>7. rec'[call[c].env].entry[<<c, "C">>] \in Observed => rec'[call[c].env].entry[<<c, "A">>] \in Observed
  <2>1. CASE call[c].phase = "A"
    BY <1>1, <1>3, <2>1 DEF LedgerFollows, Ahead, Observed, Phase
  <2>2. CASE call[c].phase = "B"
    BY <1>1, <1>3, <2>2 DEF LedgerFollows, Observed, Phase
  <2>3. CASE call[c].phase = "C"
    BY <1>1, <1>3, <2>3 DEF Phase, Record
  <2> QED
    BY <1>1, <2>1, <2>2, <2>3 DEF Phase
<1>8. /\ \A p \in Ahead(call[c].phase) : rec'[call[c].env].entry[<<c, p>>] = "none"
      /\ \A p \in Earlier(call[c].phase) : rec'[call[c].env].entry[<<c, p>>] \in Completion
      /\ call[c].phase = "C" => rec'[call[c].env].entry[<<c, "B">>] = "positive"
  BY <1>1, <1>3, PhaseOrder, SMTT(60) DEF LedgerFollows, Phase
<1>9. LedgerFollows(c)'
  <2>1. \A x \in Calls, p \in Phase : rec'[x].entry[<<c, p>>] # "none" => x = call'[c].env
    BY <1>2, <1>6
  <2>2. LET e == rec'[call'[c].env].entry
        IN  /\ rec'[call'[c].env].registered
            /\ \A p \in Phase : e[<<c, p>>] # "bound"
            /\ e[<<c, "C">>] \in Observed => e[<<c, "A">>] \in Observed
            /\ \A p \in Ahead(call'[c].phase) : e[<<c, p>>] = "none"
            /\ \A p \in Earlier(call'[c].phase) : e[<<c, p>>] \in Completion
            /\ call'[c].phase = "C" => e[<<c, "B">>] = "positive"
    BY <1>2, <1>6, <1>7, <1>8
  <2> QED
    BY <2>1, <2>2 DEF LedgerFollows
<1>10. CallStands(c)'
  BY <1>1, <1>2, <1>4 DEF CallStands, Walking
<1>11. SessionsFollow(c)'
  <2>1. RestSessions(c)'
    BY <1>2, SessionsRest
  <2> QED
    BY <1>1, <1>2, <2>1, SessionsGoOn DEF Kept
<1>12. SessionInHand(c)'
  <2>1. SessionOf(c)' = SessionOf(c) /\ SessionOf(c) \in live \cap adapter[call[c].env].leases
    BY <1>1, <1>2 DEF CallInv, SessionInHand, SessionOf, TokenOf, Adapt
  <2>2. /\ call[c].origin = "created" => (<<TokenOf(c), "relaunched">> \notin Kept(call[c].env))'
        /\ call[c].origin = "relaunched" => (<<TokenOf(c), "created">> \notin Unclosed)'
    <3>1. TokenOf(c)' = TokenOf(c) /\ Unclosed' = Unclosed /\ (Kept(call[c].env))' = Kept(call[c].env)
      BY <1>2 DEF TokenOf, Unclosed, Kept
    <3> QED
      BY <3>1 DEF CallInv, SessionInHand
  <2> QED
    BY <1>2, <2>1, <2>2 DEF SessionInHand, Adapt
<1> QED
  BY <1>9, <1>10, <1>11, <1>12 DEF CallInv

\* A lease that is closed: the experiment is over or goes on to its next phase.
LEMMA ClosesKeeps ==
  ASSUME TypeOK, TypeOK', NEW c \in Calls, CallInv(c), call[c].at = "closing", Closes(c),
         UNCHANGED <<run, toDrain>>
  PROVE  CallInv(c)'
<1>1. /\ call[c].env \in Calls /\ call[c].env # NoCall /\ call[c].phase \in Phase
      /\ Walking(c) /\ LedgerFollows(c) /\ SessionsFollow(c)
  BY Fields DEF CallInv, CallStands, Walking
<1>2. /\ rec' = rec /\ Leaves(SessionOf(c))
      /\ \A x \in Calls : adapter'[x].leases =
           IF x = call[c].env THEN {o \in adapter[x].leases : LeaseOf(o) # TokenOf(c)}
                              ELSE adapter[x].leases
  BY DEF Closes, Holds
<1>6. /\ \A s \in Session : s \in Kept(call[c].env)' => s \in Kept(call[c].env)
      /\ \A s : s \in Unclosed' => s \in Unclosed /\ s # SessionOf(c)
  <2>1. call'[c].env = call[c].env
    BY DEF Closes, Ends, ProceedsTo, Becomes
  <2>2. adapter'[call[c].env].leases \subseteq adapter[call[c].env].leases
    BY <1>1, <1>2
  <2> QED
    BY <1>2, <2>1, <2>2 DEF Leaves, Kept, Unclosed
<1>7. \A s \in Unclosed : s \in adapter[call[c].env].leases /\ LeaseOf(s) = TokenOf(c) => s = SessionOf(c)
  <2> SUFFICES ASSUME NEW s \in Unclosed, s \in adapter[call[c].env].leases, LeaseOf(s) = TokenOf(c)
               PROVE  s = SessionOf(c)
    OBVIOUS
  <2>1. s \in {<<TokenOf(c), "created">>, <<TokenOf(c), "relaunched">>}
    BY SharedLease DEF Unclosed, TypeOK
  <2>2. s \in Kept(call[c].env) /\ call[c].origin \in {"created", "relaunched"}
    BY Fields DEF Kept
  <2>3. SessionInHand(c)
    BY DEF CallInv
  <2> QED
    BY <2>1, <2>2, <2>3 DEF SessionInHand, SessionOf
<1>3. ASSUME call'[c].env = call[c].env PROVE RestSessions(c)'
  <2>1. \A s \in Session : Owner(s) = c =>
          /\ \A x \in Calls : s \in adapter'[x].leases => x = call[c].env
          /\ s \in live' \cup unclosed' \cup toDrain' => call[c].env # NoCall
    BY <1>1, <1>2 DEF SessionsFollow
  <2>2. \A s, o \in adapter'[call[c].env].leases :
          Owner(s) = c /\ LeaseOf(s) = LeaseOf(o) => s = o
    BY <1>1, <1>2 DEF SessionsFollow
  <2>3. \A s \in Unclosed' : Owner(s) = c => s \in adapter'[call[c].env].leases \/ LostToDrain(s)'
    BY <1>1, <1>2, <1>6, <1>7 DEF SessionsFollow, LostToDrain
  <2>4. \A s \in Session : Owner(s) = c /\ Relaunched(s) /\ s \in Kept(call[c].env)' =>
          Replaced(s) \notin Unclosed'
    BY <1>1, <1>6 DEF SessionsFollow
  <2> QED
    BY <1>1, <1>3, <2>1, <2>2, <2>3, <2>4 DEF RestSessions
<1>4. CASE Ends(c)
  <2>1. call'[c].env = call[c].env /\ call'[c].at = "returned"
    BY <1>4 DEF Ends, Becomes
  <2> QED
    BY <1>2, <1>3, <2>1, LedgerRests, AtRest
<1>5. CASE /\ ProceedsTo(c) /\ EntryOf(c) \in Completion
           /\ call[c].phase = "B" => EntryOf(c) = "positive"
  <2> DEFINE n == NextPhase[call[c].phase]
  <2>1. /\ call'[c].env = call[c].env /\ call'[c].at = "phase" /\ call'[c].phase = n
        /\ call'[c].origin = "created" /\ call[c].phase \in {"A", "B"}
    BY <1>5 DEF ProceedsTo, Becomes
  <2>2. /\ n \in Phase /\ n \in Ahead(call[c].phase) /\ Ahead(n) \subseteq Ahead(call[c].phase)
        /\ Earlier(n) = Earlier(call[c].phase) \cup {call[c].phase} /\ (n = "C" => call[c].phase = "B")
    BY <2>1, PhaseOrder
  <2>3. rec[call[c].env].entry[<<c, call[c].phase>>] \in Completion
        /\ (call[c].phase = "B" => rec[call[c].env].entry[<<c, "B">>] = "positive")
    BY <1>5 DEF EntryOf, Record, TokenOf
  <2> HIDE DEF n
  <2>4. LedgerFollows(c)'
    <3>1. \A p \in Phase : rec[call[c].env].entry[<<c, p>>] # "bound"
      BY <1>1 DEF LedgerFollows
    <3>2. /\ \A p \in Ahead(n) : rec[call[c].env].entry[<<c, p>>] = "none"
          /\ \A p \in Earlier(n) : rec[call[c].env].entry[<<c, p>>] \in Completion
          /\ n = "C" => rec[call[c].env].entry[<<c, "B">>] = "positive"
      BY <1>1, <2>2, <2>3 DEF LedgerFollows
    <3>3. \A x \in Calls, p \in Phase : rec'[x].entry[<<c, p>>] # "none" => x = call'[c].env
      BY <1>1, <1>2, <2>1 DEF LedgerFollows
    <3>4. ASSUME call'[c].env # NoCall
          PROVE  LET e == rec'[call'[c].env].entry
                 IN  /\ rec'[call'[c].env].registered
                     /\ \A p \in Phase : e[<<c, p>>] # "bound"
                     /\ e[<<c, "C">>] \in Observed => e[<<c, "A">>] \in Observed
      BY <1>1, <1>2, <2>1, <3>1, <3>4 DEF LedgerFollows
    <3> QED
      BY <1>2, <2>1, <3>2, <3>3, <3>4 DEF LedgerFollows
  <2>5. CallStands(c)'
    <3>1. EntryOf(c)' = "none"
      BY <1>1, <1>2, <2>1, <2>2 DEF EntryOf, Record, TokenOf, LedgerFollows
    <3> QED
      BY <1>1, <2>1, <3>1 DEF CallStands
  <2>6. SessionsFollow(c)'
    <3>1. RestSessions(c)'
      BY <1>3, <2>1
    <3>2. \A s \in Session : Owner(s) = c /\ s \in Kept(call[c].env)' =>
            PhaseOf(s) \notin Ahead(n) /\ PhaseOf(s) # n
      BY <1>1, <1>6, <2>2 DEF SessionsFollow
    <3> QED
      BY <2>1, <3>1, <3>2 DEF RestSessions, SessionsFollow, Kept, Unclosed
  <2>7. SessionInHand(c)'
    BY <2>1 DEF SessionInHand
  <2> QED
    BY <2>4, <2>5, <2>6, <2>7 DEF CallInv
<1> QED
  BY <1>4, <1>5 DEF Closes
\* Steps that only end a call.
LEMMA EndKeeps ==
  ASSUME TypeOK, TypeOK', NEW c \in Calls, CallInv(c),
         call[c].at \notin {"relaunched", "closing", "observing"},
         call'[c].at = "returned", call'[c].env = call[c].env,
         UNCHANGED <<rec, adapter, run, toDrain>>, live' \subseteq live,
         unclosed \subseteq unclosed', unclosed' \subseteq unclosed \cup live
  PROVE  CallInv(c)'
  BY LedgerRests, SessionsRest, AtRest

\* Steps before a call has captured an environment.
LEMMA UnboundKeeps ==
  ASSUME TypeOK, TypeOK', NEW c \in Calls, CallInv(c), call[c].env = NoCall,
         call'[c].at \in {"preparing", "ensured", "returned"}, call'[c].env = NoCall,
         call'[c].phase = "A", call'[c].origin = "created",
         \A x \in Calls : rec'[x].entry = rec[x].entry /\ adapter'[x].leases = adapter[x].leases,
         UNCHANGED <<live, unclosed, run, toDrain>>
  PROVE  CallInv(c)'
<1>1. LedgerFollows(c)'
  BY DEF CallInv, LedgerFollows
<1>2. CallStands(c)'
  BY DEF CallStands, Walking
<1>3. SessionsFollow(c)'
  BY DEF CallInv, SessionsFollow
<1>4. SessionInHand(c)'
  BY DEF SessionInHand
<1> QED
  BY <1>1, <1>2, <1>3, <1>4 DEF CallInv

\* A call that captures the environment of the run.
LEMMA CaptureKeeps ==
  ASSUME TypeOK, TypeOK', NEW c \in Calls, CallInv(c), RunInv, Capture(c),
         UNCHANGED <<run, toDrain>>
  PROVE  CallInv(c)'
<1>1. /\ call[c].at = "ensured" /\ call[c].env = NoCall /\ env \in Calls /\ env # NoCall
      /\ rec[env].registered /\ LedgerFollows(c) /\ SessionsFollow(c)
      /\ call[c].phase = "A" /\ call[c].origin = "created"
  BY DEF CallInv, CallStands, RunInv, Capture, TypeOK
<1>2. /\ call'[c].at = "phase" /\ call'[c].phase = "A" /\ call'[c].env = env
      /\ call'[c].origin = "created" /\ UNCHANGED <<rec, adapter, live, unclosed>>
  BY <1>1, OtherWrites DEF Capture, Becomes
<1>3. \A x \in Calls, p \in Phase : rec[x].entry[<<c, p>>] = "none"
  BY <1>1, ExperimentAssumption DEF LedgerFollows
<1>4. \A s \in Session : Owner(s) = c =>
        s \notin live \cup unclosed \cup toDrain /\ \A x \in Calls : s \notin adapter[x].leases
  BY <1>1, ExperimentAssumption DEF SessionsFollow
<1>5. LedgerFollows(c)'
  BY <1>1, <1>2, <1>3, PhaseOrder DEF LedgerFollows, Phase, Earlier, Observed
<1>6. CallStands(c)'
  <2>1. EntryOf(c)' = "none"
    BY <1>1, <1>2, <1>3 DEF EntryOf, Record, TokenOf, Phase
  <2> QED
    BY <1>1, <1>2, <2>1 DEF CallStands
<1>7. SessionsFollow(c)'
  <2>1. live \subseteq Session /\ adapter[env].leases \subseteq Session
    BY <1>1 DEF TypeOK, Adapter
  <2> QED
    BY <1>1, <1>2, <1>4, <2>1 DEF SessionsFollow, Kept, Unclosed
<1>8. SessionInHand(c)'
  BY <1>2 DEF SessionInHand
<1> QED
  BY <1>5, <1>6, <1>7, <1>8 DEF CallInv

\* A close that is rejected.
LEMMA CloseThrowsKeeps ==
  ASSUME TypeOK, TypeOK', NEW c \in Calls, CallInv(c), CloseThrows(c), UNCHANGED <<run, toDrain>>
  PROVE  CallInv(c)'
<1>1. /\ call[c].at = "closing" /\ call[c].env # NoCall /\ SessionsFollow(c)
      /\ UNCHANGED <<rec, adapter, live>> /\ unclosed' = unclosed \cup {SessionOf(c)}
      /\ SessionOf(c) \in live
  BY DEF CallInv, CallStands, Walking, CloseThrows, Survives
<1>2. call'[c].at = "returned" /\ call'[c].env = call[c].env
  BY EndWrites, Verdicts DEF CloseThrows, Ends, Becomes
<1>3. RestSessions(c)'
  BY <1>1, <1>2 DEF SessionsFollow, RestSessions, Kept, Unclosed, LostToDrain
<1> QED
  BY <1>1, <1>2, <1>3, LedgerRests, AtRest

\* The clock of a call.
LEMMA TimerKeeps ==
  ASSUME TypeOK, TypeOK', NEW c \in Calls, CallInv(c), Expire(c) \/ GraceExpires(c),
         UNCHANGED <<run, toDrain>>
  PROVE  CallInv(c)'
<1>1. CASE Expire(c) /\ call[c].at = "observing"
  <2>1. Observes(c)
    BY <1>1, PhaseWrites DEF CallInv, CallStands, Walking
  <2> QED
    BY <1>1, <2>1, ObservesKeeps
<1>2. CASE (Expire(c) /\ call[c].at # "observing") \/ GraceExpires(c)
  <2>1. /\ call'[c].at = call[c].at /\ call'[c].phase = call[c].phase
        /\ call'[c].origin = call[c].origin /\ call'[c].env = call[c].env
        /\ call'[c].deadline \in {"expired", "detached"}
        /\ call[c].deadline # "detached" /\ call[c].at # "observing"
        /\ UNCHANGED <<rec, adapter, live, unclosed>>
    BY <1>2, OtherWrites DEF Expire, GraceExpires, Becomes, CallInv, CallStands, Aborted
  <2>2. TokenOf(c)' = TokenOf(c) /\ SessionOf(c)' = SessionOf(c) /\ EntryOf(c)' = EntryOf(c)
    BY <2>1 DEF TokenOf, SessionOf, EntryOf, Record
  <2>3. LedgerFollows(c)'
    <3>1. LedgerFollows(c) /\ TypeOK /\ c \in Calls
      BY <2>1 DEF CallInv
    <3> QED
      BY <2>1, <3>1, LedgerUntouched
  <2>4. CallStands(c)'
    BY <2>1, <2>2 DEF CallInv, CallStands, Aborted, Walking
  <2>5. SessionsFollow(c)'
    BY <2>1, <2>2 DEF CallInv, SessionsFollow, Walking, Kept, Unclosed, LostToDrain
  <2>6. SessionInHand(c)'
    BY <2>1, <2>2 DEF CallInv, SessionInHand, Adapt, Kept, Unclosed
  <2> QED
    BY <2>3, <2>4, <2>5, <2>6 DEF CallInv
<1> QED
  BY <1>1, <1>2

\* Every step of a call keeps its own invariant.
LEMMA OwnKeeps ==
  ASSUME TypeOK, TypeOK', NEW c \in Calls, CallInv(c), RunInv,
         CallStep(c) \/ Timer(c) \/ StartStep(c)
  PROVE  CallInv(c)'
<1>1. /\ CallStands(c)
      /\ call[c].at \in {"idle", "preparing", "ensured"} =>
           call[c].env = NoCall /\ call[c].phase = "A" /\ call[c].origin = "created"
      /\ Walking(c) => call[c].env # NoCall
  BY DEF CallInv, CallStands
<1>2. Limited \in Verdict /\ Undecided \in Verdict
  BY Verdicts
<1>3. Ends(c) => call'[c].at = "returned" /\ call'[c].env = call[c].env
  BY DEF Ends, Becomes
<1>0. UNCHANGED <<run, toDrain>>
  BY DEF CallStep, Timer, StartStep, finalVars
<1>4. CASE StartStep(c)
  <2> PICK r \in Candidates : Start(c, r)
    BY <1>4 DEF StartStep
  <2> QED
    BY <1>0, <1>1, StartWrites, UnboundKeeps, ZenonT(60) DEF Start
<1>5. CASE Unpreparable(c)
  BY <1>0, <1>3, <1>5, ReturnedWrites, EndKeeps DEF Unpreparable, Ends
<1>6. ASSUME NEW ready \in BOOLEAN, Prepared(c, ready) PROVE CallInv(c)'
  <2>1. /\ call'[c].at \in {"ensured", "returned"} /\ call'[c].phase = "A"
        /\ call'[c].origin = "created" /\ call'[c].env = NoCall
    BY <1>1, <1>6, GoToWrites, ReturnedWrites DEF Prepared, Becomes, Stations
  <2>2. \A x \in Calls : rec'[x].entry = rec[x].entry
    <3>1. rec \in [Calls -> Recorder] /\ rec' = [rec EXCEPT ![c] = RegisterAdapter(@)]
      BY <1>6 DEF TypeOK, Prepared
    <3> QED
      BY <3>1 DEF RegisterAdapter, Recorder
  <2>3. \A x \in Calls : adapter'[x].leases = adapter[x].leases
    <3>1. adapter \in [Calls -> Adapter] /\ adapter' = [adapter EXCEPT ![c] = Prepare(@, ready)]
      BY <1>6 DEF TypeOK, Prepared
    <3> QED
      BY <3>1 DEF Prepare, Adapter
  <2> QED
    BY <1>0, <1>1, <1>6, <2>1, <2>2, <2>3, UnboundKeeps DEF Prepared
<1>7. CASE UnsupportedOperation(c) \/ ConfigurationThrows(c)
  BY <1>0, <1>2, <1>3, <1>7, EndWrites, EndKeeps DEF UnsupportedOperation, ConfigurationThrows, Return
<1>8. CASE OpenFails(c)
  BY <1>0, <1>2, <1>3, <1>8, EndWrites, EndKeeps DEF OpenFails
<1>9. CASE RelaunchFails(c)
  <2>1. Leaves(SessionOf(c)) /\ Ends(c) /\ UNCHANGED <<rec, adapter>> /\ call[c].at = "configuring"
    BY <1>2, <1>9, EndWrites, CloseWrites DEF RelaunchFails
  <2> QED
    BY <1>0, <1>3, <2>1, EndKeeps DEF Leaves
<1>10. CASE BeginPhaseOf(c)
  BY <1>0, <1>1, <1>10, PhaseWrites, BegunKeeps DEF BeginPhaseOf, Walking
<1>11. CASE SessionCreated(c)
  BY <1>0, <1>1, <1>11, PhaseWrites, CreatedKeeps DEF SessionCreated, Walking
<1>12. ASSUME NEW applied \in BOOLEAN, Configured(c, applied) PROVE CallInv(c)'
  BY <1>0, <1>1, <1>12, PhaseWrites, ConfiguresKeeps DEF Configured, Walking
<1>13. ASSUME NEW k \in Completion, Observe(c, k) PROVE CallInv(c)'
  BY <1>0, <1>1, <1>13, PhaseWrites, ObservesKeeps DEF Observe, Walking
<1>14. CASE CloseReturns(c)
  <2>1. call[c].at = "closing" /\ Walking(c) /\ EntryOf(c) \in Completion \cup {"issued"}
    BY <1>1, <1>14 DEF CloseReturns, CallStands, Walking
  <2> QED
    BY <1>0, <1>1, <1>14, <2>1, PhaseWrites, ClosesKeeps
<1> QED
  BY <1>0, <1>4, <1>5, <1>6, <1>7, <1>8, <1>9, <1>10, <1>11, <1>12, <1>13, <1>14,
     CaptureKeeps, RelaunchKeeps, CloseThrowsKeeps, TimerKeeps DEF CallStep, Timer
------------------------------------------------------------------------------
(* A step of a call and the run *)

\* What a step of a call does to the run's own fields.
RunFrame(c) ==
  /\ env' = env \/ (env' = c /\ rec'[c].registered)
  /\ \A x \in Calls : rec'[x].cleanup = rec[x].cleanup /\ rec'[x].finalized = rec[x].finalized
  /\ call'[c].at = "ensured" \/ call'[c].env # NoCall => env' # NoCall
  /\ Attended(c)' => Attended(c) \/ run = "agent"

\* What a step of a call does to the state of the run.
LEMMA StepRuns ==
  ASSUME TypeOK, NEW c \in Calls, CallInv(c), RunInv, CallStep(c) \/ Timer(c) \/ StartStep(c)
  PROVE  RunFrame(c)
<1>1. /\ CallStands(c) /\ c # NoCall
      /\ call[c].at \in {"idle", "preparing", "ensured"} => call[c].env = NoCall
      /\ Walking(c) => call[c].env # NoCall
      /\ call[c].env # NoCall => env # NoCall
  BY ExperimentAssumption DEF CallInv, CallStands, RunInv
<1>2. Limited \in Verdict /\ Undecided \in Verdict /\ Failed \in Verdict
  BY Verdicts
<1>3. UNCHANGED rec => \A x \in Calls : rec'[x].cleanup = rec[x].cleanup /\ rec'[x].finalized = rec[x].finalized
  OBVIOUS
<1>4. \A v : Records(c, v) =>
        \A x \in Calls : rec'[x].cleanup = rec[x].cleanup /\ rec'[x].finalized = rec[x].finalized
  BY DEF Records, Enters
<1>5. Ends(c) => call'[c].at = "returned" /\ call'[c].env = call[c].env /\ ~Attended(c)'
  BY DEF Ends, Becomes, Attended, Working
<1>6. ASSUME UNCHANGED <<env, rec>>, Ends(c) PROVE RunFrame(c)
  BY <1>1, <1>3, <1>5, <1>6 DEF RunFrame
<1>7. Working(c) /\ call'[c].deadline = call[c].deadline => (Attended(c)' => Attended(c))
  BY DEF Attended, Working
<1>8. \A at : Moves(c, at) => /\ call'[c].at = at /\ call'[c].env = call[c].env
                             /\ call'[c].deadline = call[c].deadline
  BY DEF Moves, Becomes
<1>9. ASSUME Walking(c), UNCHANGED env, call'[c].env = call[c].env,
             call'[c].deadline = call[c].deadline \/ call'[c].at = "returned" \/ Attended(c),
             \A x \in Calls : rec'[x].cleanup = rec[x].cleanup /\ rec'[x].finalized = rec[x].finalized
      PROVE  RunFrame(c)
  BY <1>1, <1>9 DEF RunFrame, Attended, Working, Walking
<1>10. CASE StartStep(c)
  <2> PICK r \in Candidates : Start(c, r)
    BY <1>10 DEF StartStep
  <2> QED
    BY <1>1, <1>3, StartWrites DEF RunFrame, Start
<1>11. CASE Unpreparable(c)
  BY <1>6, <1>11, ReturnedWrites DEF Unpreparable, Ends
<1>12. ASSUME NEW ready \in BOOLEAN, Prepared(c, ready) PROVE RunFrame(c)
  <2>1. rec \in [Calls -> Recorder] /\ rec' = [rec EXCEPT ![c] = RegisterAdapter(@)]
    BY <1>12 DEF TypeOK, Prepared
  <2>2. /\ rec'[c].registered
        /\ \A x \in Calls : rec'[x].cleanup = rec[x].cleanup /\ rec'[x].finalized = rec[x].finalized
    BY <2>1 DEF RegisterAdapter, Recorder
  <2>3. env' = c /\ Working(c)
    BY <1>12 DEF Prepared, Working
  <2>4. call'[c].deadline = call[c].deadline \/ call'[c].at = "returned"
    BY <1>12, GoToWrites, ReturnedWrites DEF Prepared, Becomes, Stations
  <2> QED
    BY <1>1, <2>2, <2>3, <2>4 DEF RunFrame, Attended, Working
<1>13. CASE Capture(c)
  <2>1. /\ call'[c].at = "phase" /\ call'[c].env = env /\ call'[c].deadline = call[c].deadline
        /\ UNCHANGED <<env, rec>> /\ Working(c)
    BY <1>13, OtherWrites DEF Capture, Becomes, Working
  <2> QED
    BY <1>3, <1>7, <2>1 DEF RunFrame
<1>14. CASE UnsupportedOperation(c) \/ ConfigurationThrows(c)
  BY <1>2, <1>6, <1>14, EndWrites DEF UnsupportedOperation, ConfigurationThrows, Return
<1>15. CASE OpenFails(c)
  BY <1>2, <1>6, <1>15, EndWrites DEF OpenFails
<1>16. CASE RelaunchFails(c)
  BY <1>2, <1>6, <1>16, EndWrites DEF RelaunchFails
<1>17. CASE CloseThrows(c)
  BY <1>2, <1>6, <1>17, EndWrites DEF CloseThrows
<1>18. CASE Relaunch(c)
  <2>1. /\ Walking(c) /\ call'[c].env = call[c].env /\ call'[c].deadline = call[c].deadline
        /\ UNCHANGED <<env, rec>>
    BY <1>18, OtherWrites DEF Relaunch, Becomes, Walking
  <2> QED
    BY <1>3, <1>9, <2>1
<1>19. CASE BeginPhaseOf(c)
  <2>1. Begun(c) /\ Walking(c)
    BY <1>1, <1>19, PhaseWrites DEF BeginPhaseOf, Walking
  <2> QED
    BY <1>3, <1>4, <1>5, <1>8, <1>9, <2>1 DEF Begun
<1>20. CASE SessionCreated(c)
  <2>1. Created(c) /\ Walking(c)
    BY <1>1, <1>20, PhaseWrites DEF SessionCreated, Walking
  <2> QED
    BY <1>3, <1>4, <1>5, <1>8, <1>9, <2>1 DEF Created
<1>21. ASSUME NEW applied \in BOOLEAN, Configured(c, applied) PROVE RunFrame(c)
  <2>1. Configures(c) /\ Walking(c)
    BY <1>1, <1>21, PhaseWrites DEF Configured, Walking
  <2> QED
    BY <1>3, <1>4, <1>5, <1>8, <1>9, <2>1 DEF Configures
<1>22. ASSUME \/ \E k \in Completion : Observe(c, k)
              \/ Expire(c) /\ call[c].at = "observing"
       PROVE  RunFrame(c)
  <2>1. call[c].at = "observing" /\ Walking(c)
    BY <1>22 DEF Observe, Walking
  <2>2. Observes(c)
    BY <1>1, <1>22, <2>1, PhaseWrites
  <2>3. Attended(c) /\ call'[c].env = call[c].env
    BY <1>1, <2>1, <2>2 DEF CallStands, Attended, Aborted, Working, Observes, Becomes
  <2> QED
    BY <1>4, <1>9, <2>1, <2>2, <2>3 DEF Observes
<1>23. CASE CloseReturns(c)
  <2>1. call[c].at = "closing" /\ Walking(c) /\ EntryOf(c) \in Completion \cup {"issued"}
    BY <1>1, <1>23 DEF CloseReturns, CallStands, Walking
  <2>2. Closes(c)
    BY <1>1, <1>23, <2>1, PhaseWrites
  <2>3. /\ call'[c].env = call[c].env
        /\ call'[c].deadline = call[c].deadline \/ call'[c].at = "returned"
    BY <2>2 DEF Closes, Ends, ProceedsTo, Becomes
  <2> QED
    BY <1>3, <1>9, <2>1, <2>2, <2>3 DEF Closes
<1>24. CASE (Expire(c) /\ call[c].at # "observing") \/ GraceExpires(c)
  <2>1. /\ call'[c].at = call[c].at /\ call'[c].env = call[c].env
        /\ Attended(c) /\ UNCHANGED <<env, rec>>
    BY <1>24, OtherWrites DEF Expire, GraceExpires, Becomes, Attended, Working, Awaiting
  <2> QED
    BY <1>1, <1>3, <2>1 DEF RunFrame, RunInv
<1> QED
  BY <1>10, <1>11, <1>12, <1>13, <1>14, <1>15, <1>16, <1>17, <1>18, <1>19, <1>20, <1>21,
     <1>22, <1>23, <1>24 DEF CallStep, Timer

\* How a step of a call moves its clock and the environment of the run.
LEMMA StepClocks ==
  ASSUME TypeOK, NEW c \in Calls, CallInv(c), CallStep(c) \/ Timer(c) \/ StartStep(c)
  PROVE  /\ call'[c].deadline = "detached" => call[c].deadline = "detached" \/ GraceExpires(c)
         /\ call'[c].at = "preparing" =>
              env' = env /\ (call[c].at = "preparing" \/ env = NoCall)
         /\ env' # env => call[c].at = "preparing" /\ env' = c
<1> DEFINE Goal == /\ call'[c].deadline = "detached" =>
                        call[c].deadline = "detached" \/ GraceExpires(c)
                   /\ call'[c].at = "preparing" =>
                        env' = env /\ (call[c].at = "preparing" \/ env = NoCall)
                   /\ env' # env => call[c].at = "preparing" /\ env' = c
<1>1. /\ CallStands(c) /\ (Walking(c) => call[c].env # NoCall)
      /\ call[c].at = "closing" => EntryOf(c) \in Completion \cup {"issued"}
  BY DEF CallInv, CallStands
<1>2. Limited \in Verdict /\ Undecided \in Verdict /\ Failed \in Verdict
  BY Verdicts
<1>3. ASSUME UNCHANGED env, NEW at \in Stations \ {"preparing"}, NEW phase, NEW origin, NEW e,
             NEW deadline \in {call[c].deadline, "attended", "expired"},
             Becomes(c, at, phase, origin, e, deadline)
      PROVE  Goal
  BY <1>3 DEF Becomes
<1>4. UNCHANGED env /\ Ends(c) => Goal
  BY <1>3 DEF Ends, Stations
<1>5. \A at \in Stations \ {"preparing"} : UNCHANGED env /\ Moves(c, at) => Goal
  BY <1>3 DEF Moves
<1>6. CASE StartStep(c)
  <2> PICK r \in Candidates : Start(c, r)
    BY <1>6 DEF StartStep
  <2>1. call' = [call EXCEPT ![c].candidate = r,
                             ![c].at = CASE env = NoCall         -> "preparing"
                                         [] disposition.failure  -> "returned"
                                         [] OTHER                -> "ensured"]
        /\ env' = env
    BY DEF Start
  <2>2. call'[c].at = "preparing" => env = NoCall
    <3>1. call \in [Calls -> Call]
      BY DEF TypeOK
    <3>2. env # NoCall => call'[c].at \in {"returned", "ensured"}
      BY <2>1, <3>1 DEF Call
    <3> QED
      BY <3>2
  <2> QED
    BY <2>1, <2>2, StartWrites
<1>7. CASE Unpreparable(c)
  BY <1>4, <1>7, ReturnedWrites DEF Unpreparable, Ends
<1>8. ASSUME NEW ready \in BOOLEAN, Prepared(c, ready) PROVE Goal
  BY <1>8, GoToWrites, ReturnedWrites DEF Prepared, Becomes, Stations
<1>9. CASE Capture(c)
  BY <1>3, <1>9, OtherWrites DEF Capture, Stations
<1>10. CASE UnsupportedOperation(c) \/ ConfigurationThrows(c)
  BY <1>2, <1>4, <1>10, EndWrites DEF UnsupportedOperation, ConfigurationThrows, Return
<1>11. CASE OpenFails(c) \/ RelaunchFails(c) \/ CloseThrows(c)
  BY <1>2, <1>4, <1>11, EndWrites DEF OpenFails, RelaunchFails, CloseThrows
<1>12. CASE Relaunch(c)
  BY <1>3, <1>12, OtherWrites DEF Relaunch, Stations
<1>13. CASE BeginPhaseOf(c)
  BY <1>1, <1>4, <1>5, <1>13, PhaseWrites DEF BeginPhaseOf, Begun, Walking, Stations
<1>14. CASE SessionCreated(c)
  BY <1>1, <1>4, <1>5, <1>14, PhaseWrites DEF SessionCreated, Created, Walking, Stations
<1>15. ASSUME NEW applied \in BOOLEAN, Configured(c, applied) PROVE Goal
  BY <1>1, <1>4, <1>5, <1>15, PhaseWrites DEF Configured, Configures, Walking, Stations
<1>16. ASSUME \/ \E k \in Completion : Observe(c, k)
              \/ Expire(c) /\ call[c].at = "observing"
       PROVE  Goal
  <2>1. call[c].at = "observing" /\ Walking(c)
    BY <1>16 DEF Observe, Walking
  <2> QED
    BY <1>1, <1>3, <1>16, <2>1, PhaseWrites DEF Observes, Stations
<1>17. CASE CloseReturns(c)
  <2>1. Closes(c)
    BY <1>1, <1>17, PhaseWrites DEF CloseReturns, Walking
  <2> QED
    BY <1>3, <1>4, <2>1 DEF Closes, ProceedsTo, Stations
<1>18. CASE GraceExpires(c)
  BY <1>18, OtherWrites DEF GraceExpires, Becomes
<1>19. ASSUME Expire(c), call[c].at # "observing" PROVE Goal
  BY <1>19, OtherWrites DEF Expire, Becomes
<1> QED
  BY <1>6, <1>7, <1>8, <1>9, <1>10, <1>11, <1>12, <1>13, <1>14, <1>15, <1>16, <1>17, <1>18, <1>19
     DEF CallStep, Timer

\* Only a call at work takes a step, apart from the one that starts.
LEMMA OnlyCallsAtWork ==
  ASSUME NEW c \in Calls, CallStep(c) \/ Timer(c) \/ StartStep(c)
  PROVE  Working(c) \/ (run = "agent" /\ StartStep(c))
  BY DEF StartStep, Start, CallStep, Timer, Working, Unpreparable, Prepared, Capture,
     UnsupportedOperation, BeginPhaseOf, OpenFails, SessionCreated, Relaunch, RelaunchFails,
     Configured, ConfigurationThrows, Observe, CloseReturns, CloseThrows, Expire, GraceExpires,
     Awaiting

\* A step of a call keeps what is known of the run.
LEMMA RunKeeps ==
  ASSUME TypeOK, NEW c \in Calls, CallInv(c), RunInv, CallStep(c) \/ Timer(c) \/ StartStep(c)
  PROVE  RunInv'
<1>1. RunFrame(c) /\ Frame(c)
  BY StepRuns, StepFrames DEF CallInv
<1>2. run' = run /\ toDrain' = toDrain /\ c # NoCall
  BY ExperimentAssumption DEF CallStep, Timer, StartStep, finalVars
<1>3. (\A d \in Calls : call[d].at = "ensured" \/ call[d].env # NoCall => env # NoCall)'
  BY <1>1, <1>2 DEF RunInv, RunFrame, Frame
<1>4. (env # NoCall => rec[env].registered)'
  BY <1>1 DEF RunInv, RunFrame, Frame, TypeOK
<1>5. (run # "agent" => \A d \in Calls : ~Attended(d))'
  <2>1. \A d \in Calls \ {c} : Attended(d)' <=> Attended(d)
    BY <1>1 DEF Frame, Attended, Working
  <2> QED
    BY <1>1, <1>2, <2>1 DEF RunInv, RunFrame
<1>6. (run \in {"draining", "cleaning"} => env # NoCall)'
  BY <1>1, <1>2 DEF RunInv, RunFrame
<1>7. (\A x \in Calls : rec[x].finalized \/ rec[x].cleanup # "none" => Finished)'
  BY <1>1, <1>2 DEF RunInv, RunFrame, Finished
<1>8. (toDrain # {} => run \in {"draining", "cleaning"})'
  BY <1>2 DEF RunInv
<1>9. (~GraceMayExpire =>
         /\ \A d \in Calls : call[d].deadline # "detached"
         /\ toDrain # {} => toDrain \subseteq adapter[env].leases)'
  <2> SUFFICES ASSUME ~GraceMayExpire
               PROVE  /\ \A d \in Calls : call'[d].deadline # "detached"
                      /\ toDrain' # {} => toDrain' \subseteq adapter'[env'].leases
    OBVIOUS
  <2>1. \A d \in Calls : call[d].deadline # "detached"
    BY DEF RunInv
  <2>2. \A d \in Calls : call'[d].deadline # "detached"
    BY <1>1, <2>1, StepClocks DEF Frame, GraceExpires
  <2>3. run = "agent"
    BY <2>1, OnlyCallsAtWork DEF RunInv, Attended
  <2>4. toDrain' = {}
    BY <1>2, <2>3 DEF RunInv
  <2> QED
    BY <2>2, <2>4
<1> QED
  BY <1>3, <1>4, <1>5, <1>6, <1>7, <1>8, <1>9 DEF RunInv
------------------------------------------------------------------------------
(* What a step of a call says *)

\* The ledger shows the candidate of c to be right.
Shown(c) == call[c].env # NoCall /\ Backed(rec[call[c].env], c)

Speaks(c) ==
  /\ \/ disposition' = disposition
     \/ disposition'.status # "verified"
     \/ Shown(c) /\ disposition'.candidate = call[c].candidate
  /\ \A r \in Candidates : accepted'[r] # NoCall =>
       accepted[r] # NoCall \/ (Shown(c) /\ r = call[c].candidate)

\* An aborted call says nothing, except about an environment it was building.
Silent(c) ==
  Aborted(c) /\ call[c].at # "preparing" =>
    /\ UNCHANGED <<disposition, accepted, candidateOrder>>
    /\ \A x \in Calls, t \in Token :
         rec'[x].entry[t] \in Observed \cup {"issued", "bound"} =>
           rec'[x].entry[t] = rec[x].entry[t]

\* The verdicts that need no evidence, and the one that does.
LEMMA Statuses ==
  /\ \A v \in {Undecided, Limited, Failed} : v.status # "verified"
  /\ \A r : Verified(r).candidate = r
<1>1. Undecided.status = "inconclusive" /\ DOMAIN Undecided = {"status", "candidate", "failure"}
  BY DEF Undecided
<1>2. Limited.status = "capability_limited" /\ DOMAIN Limited = {"status", "candidate", "failure"}
  BY DEF Limited, Undecided
<1>3. Failed.status = "failed"
  BY <1>2 DEF Failed
<1>4. \A r : Verified(r).candidate = r
  BY DEF Verified, Undecided
<1> QED
  BY <1>1, <1>2, <1>3, <1>4

\* What the end of an experiment says.
LEMMA EndSays ==
  ASSUME TypeOK, NEW c \in Calls, NEW v \in {Undecided, Limited, Failed}, SettleUnjudged(c, v)
  PROVE  /\ Speaks(c)
         /\ Aborted(c) => UNCHANGED <<disposition, accepted>>
  BY Statuses DEF SettleUnjudged, Settle, Speaks

\* What is said when a phase is over.
LEMMA AfterSays ==
  ASSUME TypeOK, NEW c \in Calls, CallInv(c), call[c].at = "closing",
         NEW thrown \in BOOLEAN, AfterPhase(c, thrown)
  PROVE  /\ Speaks(c)
         /\ Aborted(c) => UNCHANGED <<disposition, accepted>>
<1>1. /\ call[c].phase \in {"A", "B", "C"} /\ call[c].env # NoCall /\ LedgerFollows(c)
      /\ EntryOf(c) \in {"positive", "negative", "failed", "issued"} /\ Walking(c)
  BY Fields DEF CallInv, CallStands, Walking, Phase, Completion, Observed
<1> DEFINE stops == EntryOf(c) = "issued" \/ thrown
<1>2. CASE stops
  BY <1>2, EndSays DEF AfterPhase
<1>3. CASE /\ ~stops
           /\ \/ call[c].phase = "A"
              \/ call[c].phase = "B" /\ EntryOf(c) = "positive"
  <2>1. Proceed(c)
    BY <1>3 DEF AfterPhase
  <2> QED
    BY <2>1 DEF Proceed, Speaks
<1>4. CASE /\ ~stops
           /\ \/ call[c].phase = "B" /\ EntryOf(c) # "positive"
              \/ call[c].phase = "C" /\ EntryOf(c) = "failed"
  <2>1. SettleUnjudged(c, Undecided)
    BY <1>4 DEF AfterPhase
  <2> QED
    BY <2>1, EndSays
<1>5. CASE /\ ~stops
           /\ call[c].phase = "C" /\ EntryOf(c) = "positive"
  <2>1. Settle(c, Verified(call[c].candidate)) /\ Judge(c, TRUE)
    BY <1>5 DEF AfterPhase
  <2>2. Shown(c)
    <3>1. /\ rec[call[c].env].entry[<<c, "C">>] = "positive"
          /\ rec[call[c].env].entry[<<c, "B">>] = "positive"
      BY <1>1, <1>5 DEF EntryOf, Record, TokenOf, LedgerFollows
    <3>2. rec[call[c].env].entry[<<c, "A">>] \in Observed
      BY <1>1, <3>1 DEF LedgerFollows, Observed
    <3> QED
      BY <1>1, <3>1, <3>2 DEF Shown, Backed
  <2>3. Verified(call[c].candidate).candidate = call[c].candidate
    BY Statuses
  <2>4. accepted \in [Candidates -> Calls \cup {NoCall}]
    BY DEF TypeOK
  <2>5. \A r \in Candidates : accepted'[r] # NoCall =>
          accepted[r] # NoCall \/ r = call[c].candidate
    BY <2>1, <2>4 DEF Judge
  <2>6. Aborted(c) => UNCHANGED <<disposition, accepted>>
    BY <2>1, <2>4 DEF Judge, Settle
  <2> QED
    BY <2>1, <2>2, <2>3, <2>5, <2>6 DEF Settle, Speaks
<1>6. CASE /\ ~stops
           /\ call[c].phase = "C" /\ EntryOf(c) = "negative"
  <2>1. Settle(c, Undecided) /\ Judge(c, FALSE)
    BY <1>6 DEF AfterPhase
  <2>2. accepted \in [Candidates -> Calls \cup {NoCall}]
    BY DEF TypeOK
  <2>3. \A r \in Candidates : accepted'[r] # NoCall => accepted[r] # NoCall
    BY <2>1, <2>2 DEF Judge
  <2>4. Aborted(c) => UNCHANGED <<disposition, accepted>>
    BY <2>1, <2>2 DEF Judge, Settle
  <2> QED
    BY <2>1, <2>3, <2>4, Statuses DEF Settle, Speaks
<1>7. ~stops => EntryOf(c) # "issued"
  OBVIOUS
<1> HIDE DEF stops
<1> QED
  BY <1>1, <1>2, <1>3, <1>4, <1>5, <1>6, <1>7

\* Every step of a call says what its evidence shows, and an aborted one is silent.
LEMMA StepSays ==
  ASSUME TypeOK, NEW c \in Calls, CallInv(c), CallStep(c) \/ Timer(c) \/ StartStep(c)
  PROVE  Speaks(c) /\ Silent(c)
<1>1. /\ CallStands(c) /\ Walking(c) => call[c].env # NoCall
      /\ call[c].at = "observing" => ~Aborted(c)
  BY DEF CallInv, CallStands
<1>2. ASSUME UNCHANGED <<disposition, accepted, candidateOrder, rec>>
      PROVE  Speaks(c) /\ Silent(c)
  BY <1>2 DEF Speaks, Silent
<1>3. ASSUME Speaks(c), Aborted(c) => UNCHANGED <<disposition, accepted, candidateOrder, rec>>
      PROVE  Speaks(c) /\ Silent(c)
  BY <1>3 DEF Silent
<1>4. CASE StartStep(c) \/ Capture(c) \/ UnsupportedOperation(c) \/ ConfigurationThrows(c)
           \/ Relaunch(c) \/ GraceExpires(c)
  BY <1>2, <1>4 DEF StartStep, Start, Capture, UnsupportedOperation, ConfigurationThrows,
                    Return, Relaunch, GraceExpires
<1>5. CASE Unpreparable(c)
  BY <1>5, Statuses DEF Unpreparable, Speaks, Silent
<1>6. ASSUME NEW ready \in BOOLEAN, Prepared(c, ready) PROVE Speaks(c) /\ Silent(c)
  BY <1>6, Statuses DEF Prepared, Speaks, Silent
<1>7. CASE BeginPhaseOf(c)
  <2>1. CASE Aborted(c)
    BY <1>3, <1>7, <2>1, EndSays DEF BeginPhaseOf
  <2>2. CASE ~Aborted(c)
    BY <1>3, <1>7, <2>2, EndSays DEF BeginPhaseOf, Speaks
  <2> QED
    BY <2>1, <2>2
<1>8. CASE OpenFails(c)
  BY <1>3, <1>8, EndSays DEF OpenFails
<1>9. CASE SessionCreated(c)
  <2>1. CASE call[c].phase = "A"
    BY <1>3, <1>9, <2>1 DEF SessionCreated, Open, Speaks
  <2>2. CASE call[c].phase # "A" /\ Aborted(c)
    BY <1>3, <1>9, <2>2, EndSays DEF SessionCreated
  <2>3. CASE call[c].phase # "A" /\ ~Aborted(c)
    BY <1>3, <1>9, <2>3 DEF SessionCreated, Speaks
  <2> QED
    BY <2>1, <2>2, <2>3
<1>10. CASE RelaunchFails(c)
  BY <1>3, <1>10, EndSays DEF RelaunchFails
<1>11. ASSUME NEW applied \in BOOLEAN, Configured(c, applied) PROVE Speaks(c) /\ Silent(c)
  <2>1. CASE Open(c) /\ UNCHANGED <<disposition, accepted>>
    BY <1>3, <1>11, <2>1 DEF Configured, Open, Speaks
  <2>2. CASE SettleUnjudged(c, Limited) /\ UNCHANGED rec
    BY <1>3, <1>11, <2>2, EndSays DEF Configured
  <2> QED
    BY <1>11, <2>1, <2>2 DEF Configured
<1>12. ASSUME NEW k \in Completion, Observe(c, k) PROVE Speaks(c) /\ Silent(c)
  BY <1>1, <1>3, <1>12 DEF Observe, Speaks
<1>13. CASE CloseReturns(c)
  <2>1. call[c].at = "closing" /\ UNCHANGED <<candidateOrder, rec>>
        /\ \E thrown \in BOOLEAN : AfterPhase(c, thrown)
    BY <1>13 DEF CloseReturns
  <2> QED
    BY <1>3, <2>1, AfterSays
<1>14. CASE CloseThrows(c)
  BY <1>3, <1>14, EndSays DEF CloseThrows
<1>15. CASE Expire(c)
  <2>1. ~Aborted(c)
    BY <1>15 DEF Expire, Aborted
  <2> QED
    BY <1>3, <1>15, <2>1 DEF Expire, Speaks
<1> QED
  BY <1>4, <1>5, <1>6, <1>7, <1>8, <1>9, <1>10, <1>11, <1>12, <1>13, <1>14, <1>15
     DEF CallStep, Timer
------------------------------------------------------------------------------
(* Verdicts and their evidence *)

\* A call that has an environment keeps it, its candidate and its evidence.
Settles(c) ==
  /\ call[c].env # NoCall =>
       call'[c].env = call[c].env /\ call'[c].candidate = call[c].candidate
  /\ \A x \in Calls, p \in Phase :
       rec[x].entry[<<c, p>>] \in Completion => rec'[x].entry[<<c, p>>] = rec[x].entry[<<c, p>>]

\* A step of a call keeps its completed evidence, and its environment and candidate once set.
LEMMA StepSettles ==
  ASSUME TypeOK, NEW c \in Calls, CallInv(c), CallStep(c) \/ Timer(c) \/ StartStep(c)
  PROVE  Settles(c)
<1>1. /\ CallStands(c)
      /\ call[c].at \in {"idle", "preparing", "ensured"} => call[c].env = NoCall
      /\ Walking(c) => call[c].env # NoCall
  BY DEF CallInv, CallStands
<1>2. Limited \in Verdict /\ Undecided \in Verdict /\ Failed \in Verdict
  BY Verdicts
<1>3. ASSUME UNCHANGED rec, call[c].env # NoCall =>
               call'[c].env = call[c].env /\ call'[c].candidate = call[c].candidate
      PROVE  Settles(c)
  BY <1>3 DEF Settles
<1>4. \A at, phase, origin, deadline : Becomes(c, at, phase, origin, call[c].env, deadline) =>
        call'[c].env = call[c].env /\ call'[c].candidate = call[c].candidate
  BY DEF Becomes
<1>5. Ends(c) \/ (\E at : Moves(c, at)) \/ ProceedsTo(c) =>
        call'[c].env = call[c].env /\ call'[c].candidate = call[c].candidate
  BY <1>4 DEF Ends, Moves, ProceedsTo
<1>6. ASSUME NEW v, Records(c, v), call[c].env # NoCall, EntryOf(c) \notin Completion,
             call'[c].env = call[c].env /\ call'[c].candidate = call[c].candidate
      PROVE  Settles(c)
  <2>1. \A x \in Calls, p \in Phase :
          rec'[x].entry[<<c, p>>] =
            IF x = call[c].env /\ p = call[c].phase THEN v ELSE rec[x].entry[<<c, p>>]
    BY <1>6, OwnEntries
  <2>2. rec[call[c].env].entry[<<c, call[c].phase>>] \notin Completion
    BY <1>6 DEF EntryOf, Record, TokenOf
  <2> QED
    BY <1>6, <2>1, <2>2 DEF Settles
<1>7. "none" \notin Completion /\ "issued" \notin Completion /\ "bound" \notin Completion
  BY DEF Completion, Observed
<1>8. CASE StartStep(c) \/ Capture(c)
  BY <1>1, <1>3, <1>8 DEF StartStep, Start, Capture
<1>9. CASE Unpreparable(c)
  BY <1>1, <1>3, <1>9 DEF Unpreparable
<1>10. ASSUME NEW ready \in BOOLEAN, Prepared(c, ready) PROVE Settles(c)
  <2>1. rec \in [Calls -> Recorder] /\ rec' = [rec EXCEPT ![c] = RegisterAdapter(@)]
    BY <1>10 DEF TypeOK, Prepared
  <2>2. \A x \in Calls : rec'[x].entry = rec[x].entry
    BY <2>1 DEF RegisterAdapter, Recorder
  <2> QED
    BY <1>1, <1>10, <2>2 DEF Settles, Prepared
<1>11. CASE UnsupportedOperation(c) \/ ConfigurationThrows(c)
  BY <1>2, <1>3, <1>5, <1>11, EndWrites DEF UnsupportedOperation, ConfigurationThrows, Return
<1>12. CASE OpenFails(c) \/ RelaunchFails(c) \/ CloseThrows(c)
  BY <1>2, <1>3, <1>5, <1>12, EndWrites DEF OpenFails, RelaunchFails, CloseThrows
<1>13. CASE Relaunch(c) \/ GraceExpires(c) \/ (Expire(c) /\ call[c].at # "observing")
  <2>1. call'[c].env = call[c].env /\ call'[c].candidate = call[c].candidate
    BY <1>13, OtherWrites DEF Becomes
  <2> QED
    BY <1>3, <1>13, <2>1 DEF Relaunch, GraceExpires, Expire
<1>14. CASE BeginPhaseOf(c)
  <2>1. Begun(c) /\ EntryOf(c) \notin Completion /\ call[c].env # NoCall
    BY <1>1, <1>7, <1>14, PhaseWrites DEF BeginPhaseOf, CallStands, Walking
  <2> QED
    BY <1>3, <1>5, <1>6, <2>1 DEF Begun
<1>15. CASE SessionCreated(c)
  <2>1. Created(c) /\ EntryOf(c) \notin Completion /\ call[c].env # NoCall
    BY <1>1, <1>7, <1>15, PhaseWrites DEF SessionCreated, CallStands, Walking
  <2> QED
    BY <1>3, <1>5, <1>6, <2>1 DEF Created
<1>16. ASSUME NEW applied \in BOOLEAN, Configured(c, applied) PROVE Settles(c)
  <2>1. Configures(c) /\ EntryOf(c) \notin Completion /\ call[c].env # NoCall
    BY <1>1, <1>7, <1>16, PhaseWrites DEF Configured, CallStands, Walking
  <2> QED
    BY <1>3, <1>5, <1>6, <2>1 DEF Configures
<1>17. ASSUME \/ \E k \in Completion : Observe(c, k)
              \/ Expire(c) /\ call[c].at = "observing"
       PROVE  Settles(c)
  <2>1. call[c].at = "observing"
    BY <1>17 DEF Observe
  <2>2. Observes(c) /\ EntryOf(c) \notin Completion /\ call[c].env # NoCall
    BY <1>1, <1>7, <1>17, <2>1, PhaseWrites DEF CallStands, Walking
  <2>3. call'[c].env = call[c].env /\ call'[c].candidate = call[c].candidate
    BY <1>4, <2>2 DEF Observes
  <2> QED
    BY <1>6, <2>2, <2>3 DEF Observes
<1>18. CASE CloseReturns(c)
  <2>1. Closes(c)
    BY <1>1, <1>18, PhaseWrites DEF CloseReturns, CallStands, Walking
  <2> QED
    BY <1>3, <1>5, <2>1 DEF Closes
<1> QED
  BY <1>8, <1>9, <1>10, <1>11, <1>12, <1>13, <1>14, <1>15, <1>16, <1>17, <1>18
     DEF CallStep, Timer

\* A step of a call keeps every acceptance backed by its evidence.
LEMMA VerdictKeeps ==
  ASSUME TypeOK, NEW c \in Calls, CallInv(c), VerdictInv,
         CallStep(c) \/ Timer(c) \/ StartStep(c)
  PROVE  VerdictInv'
<1>1. Settles(c) /\ Speaks(c) /\ Frame(c) /\ UNCHANGED <<provisional, published>>
  BY StepSettles, StepSays, StepFrames DEF CallInv, CallStep, Timer, StartStep, finalVars
<1>2. ASSUME NEW d \in Calls, call[d].env # NoCall, Backed(rec[call[d].env], d)
      PROVE  /\ call'[d].env = call[d].env /\ call'[d].candidate = call[d].candidate
             /\ Backed(rec'[call[d].env], d)
  <2>1. call[d].env \in Calls
    BY <1>2, Fields
  <2>2. /\ \A p \in Phase : rec[call[d].env].entry[<<d, p>>] \in Completion
        /\ {"A", "B", "C"} = Phase
    BY <1>2 DEF Backed, Phase, Completion, Observed
  <2>3. /\ \A p \in Phase : rec'[call[d].env].entry[<<d, p>>] = rec[call[d].env].entry[<<d, p>>]
        /\ call'[d].env = call[d].env /\ call'[d].candidate = call[d].candidate
    <3>1. CASE d = c
      BY <1>1, <1>2, <2>1, <2>2, <3>1 DEF Settles
    <3>2. CASE d # c
      BY <1>1, <2>1, <3>2 DEF Frame
    <3> QED
      BY <3>1, <3>2
  <2> QED
    BY <1>2, <2>2, <2>3 DEF Backed
<1>3. \A r : Right(r) => Right(r)'
  <2> TAKE r
  <2> HAVE Right(r)
  <2> PICK d \in Calls : call[d].candidate = r /\ call[d].env # NoCall /\ Backed(rec[call[d].env], d)
    BY DEF Right
  <2> QED
    BY <1>2 DEF Right, Backed
<1>4. Shown(c) => Right(call[c].candidate)
  BY DEF Shown, Right
<1>5. (disposition.status = "verified" => Right(disposition.candidate))'
  BY <1>1, <1>3, <1>4 DEF VerdictInv, Speaks
<1>6. (\A r \in Candidates : accepted[r] # NoCall => Right(r))'
  BY <1>1, <1>3, <1>4 DEF VerdictInv, Speaks
<1>7. (provisional.status = "verified" => Right(provisional.candidate))'
  BY <1>1, <1>3 DEF VerdictInv
<1>8. (published.status = "verified" => Right(published.candidate))'
  BY <1>1, <1>3 DEF VerdictInv
<1> QED
  BY <1>5, <1>6, <1>7, <1>8 DEF VerdictInv
------------------------------------------------------------------------------
(* The steps of the finalizer *)

\* What those steps leave alone.
LEMMA FinalFrame ==
  ASSUME TypeOK, NEW c \in Calls, LedgerFollows(c), CallStands(c),
         call' = call, \A x \in Calls : rec'[x].entry = rec[x].entry
                                        /\ rec'[x].registered = rec[x].registered
  PROVE  LedgerFollows(c)' /\ CallStands(c)'
<1>1. LedgerFollows(c)'
  BY Fields DEF LedgerFollows, Walking
<1>2. Walking(c) => call[c].env \in Calls
  BY Fields DEF CallStands
<1>3. CallStands(c)'
  BY <1>2 DEF CallStands, Walking, Aborted, EntryOf, Record, TokenOf
<1> QED
  BY <1>1, <1>3

\* A step that touches neither calls nor evidence keeps every call, also one that
\* begins to drain the run's adapter.
LEMMA QuietKeeps ==
  ASSUME TypeOK, NEW c \in Calls, CallInv(c), UNCHANGED <<call, live, unclosed>>,
         run # "agent" => run' # "agent",
         toDrain' \subseteq toDrain \/ (env \in Calls /\ toDrain' \subseteq adapter[env].leases),
         \A x \in Calls : /\ rec'[x].entry = rec[x].entry
                          /\ rec'[x].registered = rec[x].registered
                          /\ adapter'[x].leases = adapter[x].leases
  PROVE  CallInv(c)'
<1>1. LedgerFollows(c) /\ CallStands(c) /\ SessionsFollow(c) /\ SessionInHand(c)
  BY DEF CallInv
<1>2. LedgerFollows(c)' /\ CallStands(c)'
  BY <1>1, FinalFrame
<1>3. call[c].env # NoCall => call[c].env \in Calls
  BY Fields
<1>7. \A s \in Session : Owner(s) = c /\ s \in toDrain' =>
        /\ call[c].env # NoCall
        /\ s \in toDrain \cup adapter[call[c].env].leases
  BY <1>1, ExperimentAssumption DEF SessionsFollow
<1>8. \A s \in Session : Owner(s) = c /\ call[c].env # NoCall =>
        ((s \in Kept(call[c].env))' => s \in Kept(call[c].env))
  BY <1>3, <1>7 DEF Kept
<1>9. Unclosed' = Unclosed /\ \A s : LostToDrain(s) => LostToDrain(s)'
  BY DEF Unclosed, LostToDrain
<1>4. SessionsFollow(c)'
  <2>1. \A s \in Session : Owner(s) = c =>
          /\ \A x \in Calls : s \in adapter'[x].leases => x = call'[c].env
          /\ s \in live' \cup unclosed' \cup toDrain' => call'[c].env # NoCall
    BY <1>1, <1>7 DEF SessionsFollow
  <2>2. ASSUME call[c].env # NoCall
        PROVE  /\ \A s \in Session : Owner(s) = c /\ (s \in Kept(call[c].env))' /\ Walking(c) =>
                    /\ PhaseOf(s) \notin Ahead(call[c].phase)
                    /\ call[c].at \in {"phase", "opening"} => PhaseOf(s) # call[c].phase
               /\ \A s \in Session :
                    Owner(s) = c /\ Relaunched(s) /\ (s \in Kept(call[c].env))' => Replaced(s) \notin Unclosed'
               /\ \A s, o \in adapter'[call[c].env].leases :
                    Owner(s) = c /\ LeaseOf(s) = LeaseOf(o) => s = o
               /\ \A s \in Unclosed' : Owner(s) = c =>
                    \/ s \in adapter'[call[c].env].leases
                    \/ call[c].at \in {"relaunched", "closing"} /\ s = SessionOf(c)
                    \/ LostToDrain(s)'
    BY <1>1, <1>3, <1>8, <1>9, <2>2 DEF SessionsFollow
  <2>3. Walking(c)' = Walking(c) /\ SessionOf(c)' = SessionOf(c)
    BY DEF Walking, SessionOf, TokenOf
  <2> QED
    BY <2>1, <2>2, <2>3 DEF SessionsFollow
<1>5. call[c].at \in {"configuring", "relaunched", "observing", "closing"} =>
        call[c].env # NoCall
  BY <1>1 DEF CallStands, Walking
<1>6. SessionInHand(c)'
  <2>1. /\ TokenOf(c)' = TokenOf(c) /\ SessionOf(c)' = SessionOf(c)
        /\ <<TokenOf(c), "relaunched">> \in Session /\ Owner(<<TokenOf(c), "relaunched">>) = c
    BY InHand DEF SessionOf, TokenOf, Owner
  <2>2. (call[c].at \in {"configuring", "observing", "closing"} /\ call[c].origin = "created" =>
           <<TokenOf(c), "relaunched">> \notin Kept(call[c].env))'
    BY <1>1, <1>5, <1>8, <2>1 DEF SessionInHand
  <2>3. (call[c].at \in {"relaunched", "observing", "closing"} /\ call[c].origin = "relaunched" =>
           <<TokenOf(c), "created">> \notin Unclosed)'
    BY <1>1, <1>9, <2>1 DEF SessionInHand
  <2>4. call[c].deadline # "detached" =>
          /\ call[c].at \in {"configuring", "relaunched"} =>
               SessionOf(c) \in live /\ <<TokenOf(c), "created">> \in adapter'[call[c].env].leases
          /\ call[c].at \in {"observing", "closing"} =>
               SessionOf(c) \in live \cap adapter'[call[c].env].leases
    BY <1>1, <1>3, <1>5 DEF SessionInHand, Adapt
  <2> QED
    BY <2>1, <2>2, <2>3, <2>4 DEF SessionInHand, Adapt
<1> QED
  BY <1>2, <1>4, <1>6 DEF CallInv

\* Evidence that the finalizer does not touch.
LEMMA RightStays ==
  ASSUME TypeOK, NEW r, Right(r), call' = call,
         \A x \in Calls : rec'[x].entry = rec[x].entry
  PROVE  Right(r)'
<1> PICK d \in Calls : call[d].candidate = r /\ call[d].env # NoCall /\ Backed(rec[call[d].env], d)
  BY DEF Right
<1>1. call[d].env \in Calls
  BY Fields
<1> QED
  BY <1>1 DEF Right, Backed

\* The end of the agent keeps the invariant.
LEMMA EndRunKeeps == IInv /\ EndRun => IInv'
<1> SUFFICES ASSUME IInv, EndRun PROVE IInv'
  OBVIOUS
<1>1. TypeOK /\ (\A c \in Calls : CallInv(c)) /\ RunInv /\ VerdictInv
  BY DEF IInv
<1>2. /\ UNCHANGED <<call, env, adapter, rec, live, unclosed, disposition, accepted,
                     candidateOrder, failedStages, published>>
      /\ run = "agent" /\ \A c \in Calls : ~Attended(c)
      /\ provisional' \in ProvisionalDispositions
      /\ \/ env = NoCall /\ run' = "done" /\ toDrain' = toDrain
         \/ env # NoCall /\ run' = "draining" /\ toDrain' = adapter[env].leases
  BY DEF EndRun, experimentVars
<1>3. provisional' \in Verdict
  BY <1>1, <1>2, Verdicts DEF ProvisionalDispositions, TypeOK
<1>4. toDrain' \subseteq Session
  BY <1>1, <1>2 DEF TypeOK, Adapter
<1>5. TypeOK'
  BY <1>1, <1>2, <1>3, <1>4 DEF TypeOK
<1>6. ASSUME NEW c \in Calls PROVE CallInv(c)'
  <2>1. toDrain' \subseteq toDrain \/ (env \in Calls /\ toDrain' \subseteq adapter[env].leases)
    BY <1>1, <1>2 DEF TypeOK
  <2> QED
    BY <1>1, <1>2, <2>1, QuietKeeps
<1>7. RunInv'
  BY <1>1, <1>2 DEF RunInv, Attended, Working, Finished
<1>8. VerdictInv'
  <2>1. \A r : Right(r) => Right(r)'
    BY <1>1, <1>2, RightStays
  <2>2. provisional'.status = "verified" => Right(provisional'.candidate)
    BY <1>1, <1>2, Statuses DEF ProvisionalDispositions, VerdictInv
  <2> QED
    BY <1>1, <1>2, <2>1, <2>2 DEF VerdictInv
<1> QED
  BY <1>5, <1>6, <1>7, <1>8 DEF IInv

\* Sessions of the run's adapter under one lease are one session.
LEMMA LeasesAreUnique ==
  ASSUME IInv, env # NoCall, NEW s \in adapter[env].leases, NEW o \in adapter[env].leases,
         LeaseOf(s) = LeaseOf(o)
  PROVE  s = o
<1>1. TypeOK /\ env \in Calls /\ s \in Session
  BY DEF IInv, TypeOK, Adapter
<1>2. Owner(s) \in Calls
  BY <1>1 DEF Session, Token, Owner, Calls
<1>3. SessionsFollow(Owner(s))
  BY <1>2 DEF IInv, CallInv
<1>4. call[Owner(s)].env = env
  BY <1>1, <1>3 DEF SessionsFollow
<1> QED
  BY <1>3, <1>4 DEF SessionsFollow

\* So dropping the lease of one of them drops that session and no other.
LEMMA LeaseIsOneSession ==
  ASSUME IInv, env # NoCall, NEW s \in adapter[env].leases
  PROVE  {o \in adapter[env].leases : LeaseOf(o) # LeaseOf(s)} = adapter[env].leases \ {s}
BY LeasesAreUnique

\* A step of the drain of session s, whether its close succeeds or throws.
LEMMA DrainKeeps ==
  ASSUME IInv, NEW s \in Session, DrainOne(s) \/ DrainThrows(s)
  PROVE  IInv'
<1>1. TypeOK /\ (\A c \in Calls : CallInv(c)) /\ RunInv /\ VerdictInv
  BY DEF IInv
<1>2. /\ UNCHANGED <<call, env, rec, disposition, accepted, candidateOrder, run, provisional, published>>
      /\ s \in toDrain /\ toDrain' = toDrain \ {s}
  BY DEF DrainOne, DrainThrows
<1>3. run \in {"draining", "cleaning"} /\ env \in Calls /\ env # NoCall
      /\ \A c \in Calls : ~Attended(c)
  BY <1>1, <1>2 DEF RunInv, TypeOK
<1>4. /\ adapter' \in [Calls -> Adapter] /\ live' \subseteq live /\ unclosed' \subseteq Session
      /\ \A x \in Calls : adapter'[x].leases \subseteq adapter[x].leases
      /\ \A x \in Calls : \A o \in adapter[x].leases :
           o \notin adapter'[x].leases => LeaseOf(o) = LeaseOf(s)
      /\ unclosed' \subseteq unclosed \cup live
      /\ \A o : o \in Unclosed' => o \in Unclosed
      /\ s \in Unclosed' => InFlight(s)
      /\ failedStages' \subseteq {"draining", "cleaning"}
  <2>1. /\ adapter \in [Calls -> Adapter] /\ unclosed \subseteq Session /\ live \subseteq Session
        /\ failedStages \subseteq {"draining", "cleaning"}
    BY <1>1 DEF TypeOK
  <2>2. Leaves(s) \/ (InFlight(s) /\ UNCHANGED <<live, unclosed>>)
    BY CloseWrites DEF DrainOne, DrainThrows
  <2>3. /\ live' \subseteq live /\ unclosed' \subseteq Session /\ unclosed' \subseteq unclosed \cup live
        /\ \A o : o \in Unclosed' => o \in Unclosed
        /\ s \in Unclosed' => InFlight(s)
    BY <2>1, <2>2 DEF Leaves, Unclosed
  <2>4. CASE DrainOne(s)
    <3>1. adapter' = [adapter EXCEPT ![env] = Release(@, s)] /\ failedStages' = failedStages
      BY <2>4 DEF DrainOne
    <3>2. Holds(env, {o \in adapter[env].leases : LeaseOf(o) # LeaseOf(s)})
      BY <1>1, <1>3, <3>1, LeaseWrites
    <3> QED
      BY <2>1, <2>3, <3>1, <3>2 DEF Holds
  <2>5. CASE DrainThrows(s)
    BY <1>3, <2>1, <2>3, <2>5 DEF DrainThrows
  <2> QED
    BY <2>4, <2>5
<1>5. TypeOK'
  BY <1>1, <1>2, <1>4 DEF TypeOK
<1>6. ASSUME NEW c \in Calls PROVE CallInv(c)'
  <2>1. LedgerFollows(c) /\ CallStands(c) /\ SessionsFollow(c) /\ SessionInHand(c)
    BY <1>1 DEF CallInv
  <2>2. LedgerFollows(c)' /\ CallStands(c)'
    BY <1>1, <1>2, <2>1, FinalFrame
  <2>3. call[c].env # NoCall => call[c].env \in Calls
    BY <1>1, Fields
  <2>4. call[c].env # NoCall => Kept(call[c].env)' \subseteq Kept(call[c].env)
    BY <1>2, <1>4, <2>3 DEF Kept
  <2>5. SessionsFollow(c)'
    <3>1. \A o \in Session : Owner(o) = c =>
            /\ \A x \in Calls : o \in adapter'[x].leases => x = call[c].env
            /\ o \in live' \cup unclosed' \cup toDrain' => call[c].env # NoCall
      BY <1>2, <1>4, <2>1 DEF SessionsFollow
    <3>2. call[c].env # NoCall =>
            /\ \A o \in Session : Owner(o) = c /\ o \in Kept(call[c].env)' /\ Walking(c) =>
                 /\ PhaseOf(o) \notin Ahead(call[c].phase)
                 /\ call[c].at \in {"phase", "opening"} => PhaseOf(o) # call[c].phase
            /\ \A o \in Session :
                 Owner(o) = c /\ Relaunched(o) /\ o \in Kept(call[c].env)' => Replaced(o) \notin Unclosed'
            /\ \A o, q \in adapter'[call[c].env].leases :
                 Owner(o) = c /\ LeaseOf(o) = LeaseOf(q) => o = q
      BY <1>4, <2>1, <2>3, <2>4 DEF SessionsFollow
    <3>3. ASSUME call[c].env # NoCall, NEW o \in Unclosed', Owner(o) = c
          PROVE  \/ o \in adapter'[call[c].env].leases
                 \/ call[c].at \in {"relaunched", "closing"} /\ o = SessionOf(c)
                 \/ LostToDrain(o)'
      <4>1. o \in Session /\ o \in Unclosed
        BY <1>1, <1>4 DEF TypeOK, Unclosed
      <4>2. \/ o \in adapter[call[c].env].leases
            \/ call[c].at \in {"relaunched", "closing"} /\ o = SessionOf(c)
            \/ LostToDrain(o)'
        BY <1>2, <2>1, <3>3, <4>1 DEF SessionsFollow, LostToDrain
      <4>3. CASE o = s
        <5> PICK d \in Calls : call[d].at = "closing" /\ SessionOf(d) = s
          BY <1>4, <3>3, <4>3 DEF InFlight
        <5>1. d = c
          BY <3>3, <4>3 DEF Owner, SessionOf, TokenOf
        <5> QED
          BY <4>3, <5>1
      <4>4. CASE LeaseOf(o) # LeaseOf(s)
        BY <1>4, <2>3, <3>3, <4>2, <4>4
      <4>5. CASE o # s /\ LeaseOf(o) = LeaseOf(s) /\ o \in adapter[call[c].env].leases
        <5>1. Owner(s) = c
          BY <3>3, <4>5 DEF Owner, LeaseOf
        <5>2. GraceMayExpire
          <6> SUFFICES ASSUME ~GraceMayExpire PROVE FALSE
            OBVIOUS
          <6>1. s \in adapter[env].leases
            BY <1>1, <1>2 DEF RunInv
          <6>2. call[c].env = env
            BY <1>3, <2>1, <5>1, <6>1 DEF SessionsFollow
          <6> QED
            BY <1>3, <4>5, <6>1, <6>2, LeasesAreUnique
        <5>3. Relaunched(o)
          <6> SUFFICES ASSUME ~Relaunched(o) PROVE FALSE
            OBVIOUS
          <6>1. Relaunched(s) /\ Replaced(s) = o
            BY <4>1, <4>5 DEF Relaunched, Replaced, LeaseOf, Session
          <6>2. s \in Kept(call[c].env)
            BY <1>2 DEF Kept
          <6> QED
            BY <2>1, <3>3, <4>1, <5>1, <6>1, <6>2 DEF SessionsFollow
        <5> QED
          BY <1>2, <1>3, <5>2, <5>3 DEF LostToDrain, Relaunched
      <4> QED
        BY <4>2, <4>3, <4>4, <4>5
    <3> QED
      BY <1>2, <3>1, <3>2, <3>3 DEF SessionsFollow, Walking, Kept, Unclosed, SessionOf, TokenOf
  <2>6. SessionInHand(c)'
    <3>1. call[c].at \in {"configuring", "relaunched", "observing", "closing"} =>
            call[c].deadline = "detached" /\ call[c].env # NoCall
      BY <1>1, <1>3, <2>1, Fields DEF Attended, Working, CallStands, Walking
    <3>2. TokenOf(c)' = TokenOf(c) /\ SessionOf(c)' = SessionOf(c)
      BY <1>2 DEF TokenOf, SessionOf
    <3>3. (call[c].at \in {"configuring", "observing", "closing"} /\ call[c].origin = "created" =>
             <<TokenOf(c), "relaunched">> \notin Kept(call[c].env))'
      BY <1>2, <2>1, <2>4, <3>1, <3>2 DEF SessionInHand
    <3>4. (call[c].at \in {"relaunched", "observing", "closing"} /\ call[c].origin = "relaunched" =>
             <<TokenOf(c), "created">> \notin Unclosed)'
      BY <1>2, <1>4, <2>1, <3>2 DEF SessionInHand
    <3> QED
      BY <1>2, <3>1, <3>3, <3>4 DEF SessionInHand
  <2> QED
    BY <2>2, <2>5, <2>6 DEF CallInv
<1>7. RunInv'
  <2>1. ~GraceMayExpire => toDrain' \subseteq adapter'[env].leases
    <3> SUFFICES ASSUME ~GraceMayExpire, NEW o \in toDrain' PROVE o \in adapter'[env].leases
      OBVIOUS
    <3>1. o \in adapter[env].leases /\ s \in adapter[env].leases /\ o # s
      BY <1>1, <1>2 DEF RunInv
    <3> QED
      BY <1>3, <1>4, <3>1, LeasesAreUnique
  <2> QED
    BY <1>1, <1>2, <1>3, <2>1 DEF RunInv, Attended, Working, Finished
<1>8. VerdictInv'
  BY <1>1, <1>2, RightStays DEF VerdictInv
<1> QED
  BY <1>5, <1>6, <1>7, <1>8 DEF IInv
\* So does the start of the cleanup.
LEMMA BeginCleanupKeeps == IInv /\ BeginCleanup => IInv'
<1> SUFFICES ASSUME IInv, BeginCleanup PROVE IInv'
  OBVIOUS
<1>1. TypeOK /\ (\A c \in Calls : CallInv(c)) /\ RunInv /\ VerdictInv
  BY DEF IInv
<1>2. /\ UNCHANGED <<call, env, adapter, rec, live, unclosed, disposition, accepted,
                     candidateOrder, failedStages, provisional, published>>
      /\ run = "draining" /\ run' = "cleaning" /\ toDrain' = adapter[env].leases
  BY DEF BeginCleanup, experimentVars
<1>3. env \in Calls
  BY <1>1, <1>2 DEF RunInv, TypeOK
<1>4. TypeOK'
  BY <1>1, <1>2, <1>3 DEF TypeOK, Adapter
<1>5. \A c \in Calls : CallInv(c)'
  BY <1>1, <1>2, <1>3, QuietKeeps
<1>6. RunInv'
  BY <1>1, <1>2 DEF RunInv, Attended, Working, Finished
<1>7. VerdictInv'
  BY <1>1, <1>2, RightStays DEF VerdictInv
<1> QED
  BY <1>4, <1>5, <1>6, <1>7 DEF IInv

\* What Finish makes of the recorder, of the adapter and of the published
\* execution: leases and entries stay, and a verdict is published as handed in.
Finishes ==
  /\ UNCHANGED <<call, env, live, unclosed, disposition, accepted, candidateOrder,
                 toDrain, failedStages, provisional>>
  /\ run = "cleaning" /\ toDrain = {}
  /\ adapter' \in [Calls -> Adapter] /\ rec' \in [Calls -> Recorder]
  /\ \A x \in Calls : /\ rec'[x].entry = rec[x].entry
                      /\ rec'[x].registered = rec[x].registered
                      /\ adapter'[x].leases = adapter[x].leases
  /\ \/ run' = "threw" /\ published' = published
     \/ /\ run' = "done"
        /\ \E attached \in BOOLEAN, status \in {"failed", provisional.status} :
             published' = [status |-> status,
                           candidate |-> IF status = "verified" THEN provisional.candidate
                                                                ELSE NoCandidate,
                           attached |-> attached]
        /\ published'.status # "failed" => adapter[env].leases = {}
        /\ published'.status = "verified" =>
             \A p \in Phase : \E x \in Experiments : rec[env].entry[<<x, p>>] \in Completion

\* What the cleanup of the environment does to adapter and recorder.
LEMMA CleanUpWrites ==
  ASSUME NEW a \in Adapter, NEW b \in BOOLEAN
  PROVE  /\ CleanUp(a, b) \in Adapter /\ CleanUp(a, b).leases = a.leases
         /\ CleanUp(a, b).receipt = "completed" => a.leases = {} /\ ~b
         /\ CleanUp(a, b).receipt \in {"completed", "failed"}
  BY DEF CleanUp, Adapter, Lifecycle, Receipt

\* A finalized recorder holds the same evidence.
LEMMA Finalized ==
  ASSUME NEW r \in Recorder
  PROVE  /\ Finalize(r) \in Recorder
         /\ Finalize(r).entry = r.entry /\ Finalize(r).registered = r.registered
  BY DEF Finalize, Recorder

\* What the finalization of the run writes.
LEMMA FinishWrites == TypeOK /\ RunInv /\ Finish => Finishes
<1> SUFFICES ASSUME TypeOK, RunInv, Finish PROVE Finishes
  OBVIOUS
<1> DEFINE cleaningFailed == "cleaning" \in failedStages
           drainFailed == "draining" \in failedStages
           a      == CleanUp(adapter[env], cleaningFailed)
           kept   == MayRecordCleanup(rec[env], a.lifecycle, a.leases, a.receipt)
           recorded == RecordCleanup(rec[env], a.receipt, drainFailed)
           r      == IF kept THEN recorded ELSE rec[env]
           status == FinalStatus(r, provisional.status)
           digest == IF status = "verified" THEN provisional.candidate ELSE NoCandidate
<1>1. /\ UNCHANGED <<call, env, live, unclosed, disposition, accepted, candidateOrder,
                     toDrain, failedStages, provisional>>
      /\ run = "cleaning" /\ toDrain = {}
      /\ adapter' = [adapter EXCEPT ![env] = a]
      /\ \/ /\ kept /\ MayFinalize(r, provisional.status)
            /\ rec' = [rec EXCEPT ![env] = Finalize(r)]
            /\ run' = "done"
            /\ published' = [status |-> status, candidate |-> digest,
                             attached |-> Projects(r, status, digest)]
         \/ /\ rec' = [rec EXCEPT ![env] = r]
            /\ run' = "threw"
            /\ published' = published
  BY DEF Finish
<1>2. /\ env \in Calls /\ adapter \in [Calls -> Adapter] /\ rec \in [Calls -> Recorder]
      /\ adapter[env] \in Adapter /\ rec[env] \in Recorder
      /\ provisional.status \in Disposition
  BY <1>1 DEF RunInv, TypeOK, Verdict
<1>0. cleaningFailed \in BOOLEAN /\ drainFailed \in BOOLEAN
  OBVIOUS
<1> HIDE DEF cleaningFailed, drainFailed
<1>3. /\ a \in Adapter /\ a.leases = adapter[env].leases /\ a.receipt \in {"completed", "failed"}
      /\ a.receipt = "completed" => a.leases = {}
  BY <1>0, <1>2, CleanUpWrites
<1> HIDE DEF a
<1>4. /\ recorded \in Recorder /\ recorded.entry = rec[env].entry
      /\ recorded.registered = rec[env].registered
      /\ recorded.cleanup = a.receipt
  <2>1. a.receipt \in Receipt
    BY <1>3 DEF Receipt
  <2> QED
    BY <1>0, <1>2, <2>1 DEF RecordCleanup, Recorder
<1> HIDE DEF recorded
<1>5. r \in Recorder /\ r.entry = rec[env].entry /\ r.registered = rec[env].registered
      /\ (kept => r.cleanup = a.receipt)
  BY <1>2, <1>4
<1> HIDE DEF kept, r
<1>6. /\ Finalize(r) \in Recorder /\ Finalize(r).entry = rec[env].entry
      /\ Finalize(r).registered = rec[env].registered
  BY <1>5, Finalized
<1>7. /\ adapter' \in [Calls -> Adapter]
      /\ \A x \in Calls : adapter'[x].leases = adapter[x].leases
  BY <1>1, <1>2, <1>3
<1>8. /\ rec' \in [Calls -> Recorder]
      /\ \A x \in Calls : rec'[x].entry = rec[x].entry /\ rec'[x].registered = rec[x].registered
  BY <1>1, <1>2, <1>5, <1>6
<1>9. ASSUME kept, MayFinalize(r, provisional.status), run' = "done",
             published' = [status |-> status, candidate |-> digest,
                           attached |-> Projects(r, status, digest)]
      PROVE  /\ \E attached \in BOOLEAN, st \in {"failed", provisional.status} :
                  published' = [status |-> st,
                                candidate |-> IF st = "verified" THEN provisional.candidate
                                                                 ELSE NoCandidate,
                                attached |-> attached]
             /\ published'.status # "failed" => adapter[env].leases = {}
             /\ published'.status = "verified" =>
                  \A p \in Phase : \E x \in Experiments : rec[env].entry[<<x, p>>] \in Completion
  <2>1. status \in {"failed", provisional.status}
    BY DEF FinalStatus
  <2>2. status # "failed" => adapter[env].leases = {}
    BY <1>3, <1>5, <1>9 DEF FinalStatus, CleanupFailed
  <2>3. status = "verified" =>
          \A p \in Phase : \E x \in Experiments : rec[env].entry[<<x, p>>] \in Completion
    BY <1>5, <1>9 DEF MayFinalize, Evidence, Token
  <2>4. Projects(r, status, digest) \in BOOLEAN
    BY DEF Projects, Backed
  <2>5. published'.status = status
    BY <1>9
  <2> HIDE DEF status
  <2> QED
    BY <1>9, <2>1, <2>2, <2>3, <2>4, <2>5
<1> QED
  BY <1>1, <1>7, <1>8, <1>9 DEF Finishes

\* The finalization keeps the invariant.
LEMMA FinishKeeps == IInv /\ Finish => IInv'
<1> SUFFICES ASSUME IInv, Finish PROVE IInv'
  OBVIOUS
<1>1. TypeOK /\ (\A c \in Calls : CallInv(c)) /\ RunInv /\ VerdictInv /\ Finishes
  BY FinishWrites DEF IInv
<1>2. provisional \in Verdict /\ "failed" \in Disposition
  BY <1>1 DEF TypeOK, Disposition
<1>3. published' \in [status : Disposition \cup {"none"},
                      candidate : Candidates \cup {NoCandidate}, attached : BOOLEAN]
  BY <1>1, <1>2 DEF Finishes, Verdict, TypeOK
<1>4. TypeOK'
  BY <1>1, <1>3 DEF TypeOK, Finishes
<1>5. \A c \in Calls : CallInv(c)'
  BY <1>1, QuietKeeps DEF Finishes
<1>6. RunInv'
  <2>1. \A c \in Calls : ~Attended(c) /\ Attended(c)' = Attended(c)
    BY <1>1 DEF RunInv, Finishes, Attended, Working
  <2>2. env \in Calls /\ env' = env /\ run' \in {"threw", "done"}
    BY <1>1 DEF RunInv, Finishes, TypeOK
  <2> QED
    BY <1>1, <2>1, <2>2 DEF RunInv, Finishes, Finished
<1>7. VerdictInv'
  <2>1. \A r : Right(r) => Right(r)'
    BY <1>1, RightStays DEF Finishes
  <2>2. published'.status = "verified" => \/ published' = published
                                         \/ /\ provisional.status = "verified"
                                            /\ published'.candidate = provisional.candidate
    BY <1>1 DEF Finishes
  <2> QED
    BY <1>1, <2>1, <2>2 DEF VerdictInv, Finishes
<1> QED
  BY <1>4, <1>5, <1>6, <1>7 DEF IInv
------------------------------------------------------------------------------
(* The invariant *)

\* The run starts in the invariant.
LEMMA InitInv == Init => IInv
<1> SUFFICES ASSUME Init PROVE IInv
  OBVIOUS
<1>1. TypeOK
  BY InitTypes
<1>2. \A c \in Calls : /\ call[c].at = "idle" /\ call[c].phase = "A" /\ call[c].origin = "created"
                       /\ call[c].env = NoCall /\ call[c].deadline = "attended"
                       /\ rec[c] = NewRecorder /\ adapter[c] = NewAdapter
  BY DEF Init
<1>3. ASSUME NEW c \in Calls PROVE CallInv(c)
  <2>1. \A x \in Calls, p \in Phase : rec[x].entry[<<c, p>>] = "none"
    BY <1>2 DEF NewRecorder, Token, Calls
  <2>2. \A x \in Calls : adapter[x].leases = {}
    BY <1>2 DEF NewAdapter
  <2> QED
    BY <1>2, <2>1, <2>2 DEF CallInv, LedgerFollows, CallStands, SessionsFollow, SessionInHand,
       Walking, Kept, Unclosed, Init
<1>4. RunInv
  <2>1. \A x \in Calls : ~rec[x].finalized /\ rec[x].cleanup = "none"
    BY <1>2 DEF NewRecorder
  <2> QED
    BY <1>2, <2>1 DEF RunInv, Init
<1>5. VerdictInv
  BY Statuses DEF VerdictInv, Init
<1> QED
  BY <1>1, <1>3, <1>4, <1>5 DEF IInv

\* A step of a call keeps the invariant.
LEMMA CallStepKeeps ==
  ASSUME IInv, NEW c \in Calls, CallStep(c) \/ Timer(c) \/ StartStep(c)
  PROVE  IInv'
<1>1. TypeOK /\ (\A d \in Calls : CallInv(d)) /\ RunInv /\ VerdictInv
  BY DEF IInv
<1>2. TypeOK' /\ Frame(c)
  BY <1>1, StepTypes, StepFrames DEF CallInv
<1>3. \A d \in Calls : CallInv(d)'
  <2>1. CallInv(c)'
    BY <1>1, <1>2, OwnKeeps
  <2>2. \A d \in Calls \ {c} : CallInv(d)'
    BY <1>1, <1>2, OthersKeep
  <2> QED
    BY <2>1, <2>2
<1>4. RunInv' /\ VerdictInv'
  BY <1>1, RunKeeps, VerdictKeeps
<1> QED
  BY <1>2, <1>3, <1>4 DEF IInv

\* Every step keeps the invariant.
LEMMA NextKeeps == IInv /\ [Next]_vars => IInv'
<1> SUFFICES ASSUME IInv, [Next]_vars PROVE IInv'
  OBVIOUS
<1>1. CASE UNCHANGED vars
  <2>1. /\ UNCHANGED <<call, env, adapter, rec, live, unclosed, disposition, accepted, candidateOrder>>
        /\ UNCHANGED <<run, toDrain, failedStages, provisional, published>>
    BY <1>1 DEF vars, experimentVars, finalVars
  <2>2. TypeOK /\ (\A c \in Calls : CallInv(c)) /\ RunInv /\ VerdictInv
    BY DEF IInv
  <2>3. TypeOK'
    BY <2>1, <2>2 DEF TypeOK
  <2>4. \A c \in Calls : CallInv(c)'
    BY <2>1, <2>2, QuietKeeps
  <2>5. RunInv'
    BY <2>1, <2>2 DEF RunInv, Attended, Working, Finished
  <2>6. VerdictInv'
    BY <2>1, <2>2, RightStays DEF VerdictInv
  <2> QED
    BY <2>3, <2>4, <2>5, <2>6 DEF IInv
<1>2. ASSUME NEW c \in Calls, CallStep(c) \/ Timer(c) \/ StartStep(c) PROVE IInv'
  BY <1>2, CallStepKeeps
<1>3. ASSUME NEW s \in Session, DrainOne(s) \/ DrainThrows(s) PROVE IInv'
  BY <1>3, DrainKeeps
<1> QED
  BY <1>1, <1>2, <1>3, EndRunKeeps, BeginCleanupKeeps, FinishKeeps DEF Next, FinalStep, AllDone

\* In every behaviour: the types, what holds of each call, of the run and of
\* the verdicts, with any number of calls in parallel and wedged calls.
THEOREM Invariance == Spec => []IInv
<1>1. Init => IInv
  BY InitInv
<1>2. IInv /\ [Next]_vars => IInv'
  BY NextKeeps
<1> QED
  BY <1>1, <1>2, PTL DEF Spec

\* Every variable keeps its type.
THEOREM TypeCorrect == Spec => []TypeOK
<1>1. IInv => TypeOK
  BY DEF IInv
<1> QED
  BY <1>1, Invariance, PTL

\* A call that observes does so on a live session that its adapter holds.
LEMMA InvObserves == IInv => ObservesOwnLiveSession
<1> SUFFICES ASSUME IInv, NEW c \in Calls, call[c].at = "observing"
             PROVE  SessionOf(c) \in live \cap Adapt(c).leases
  BY DEF ObservesOwnLiveSession
<1>1. CallStands(c) /\ SessionInHand(c)
  BY DEF IInv, CallInv
<1> QED
  BY <1>1 DEF CallStands, SessionInHand, Aborted

\* The validators only ever look at a live session that its adapter holds:
\* whatever the drain, the deadlines and the other calls do, a call that
\* observes was not drained.
THEOREM SessionsAreOwn == Spec => []ObservesOwnLiveSession
  BY InvObserves, Invariance, PTL

\* No live session is forgotten: it is retained under its lease until it is
\* closed, its close is in flight or did not end it, or its relaunch is being
\* configured.  The one exception is a session that a call left behind has
\* relaunched during a drain, which drops the lease identity it took over.
THEOREM SessionsAreRetained == Spec => []RetainedUntilClosed
<1>1. IInv => RetainedUntilClosed
  <2> SUFFICES ASSUME IInv, NEW s \in live \ unclosed
               PROVE  LET c == LeaseOf(s)[1]
                      IN  \/ s \in Adapt(c).leases
                          \/ call[c].at = "relaunched" /\ s = SessionOf(c)
                          \/ InFlight(s)
                          \/ LostToDrain(s)
    BY DEF RetainedUntilClosed
  <2>1. s \in Session /\ LeaseOf(s)[1] \in Calls /\ Owner(s) = LeaseOf(s)[1]
    BY DEF IInv, TypeOK, Session, Token, Calls, LeaseOf, Owner
  <2>2. SessionsFollow(Owner(s))
    BY <2>1 DEF IInv, CallInv
  <2>3. \/ s \in adapter[call[Owner(s)].env].leases
        \/ call[Owner(s)].at \in {"relaunched", "closing"} /\ s = SessionOf(Owner(s))
        \/ LostToDrain(s)
    BY <2>1, <2>2 DEF SessionsFollow, Unclosed
  <2> QED
    BY <2>1, <2>3 DEF Adapt, InFlight
<1> QED
  BY <1>1, Invariance, PTL

\* After the abort an experiment no longer speaks, however late it settles.
THEOREM AbortedIsSilent == Spec => AbortedExperimentIsSilent
<1>1. IInv /\ [Next]_vars =>
        [\A c \in Calls :
           Aborted(c) /\ call[c].at # "preparing" /\ call'[c] # call[c] =>
             /\ UNCHANGED <<disposition, accepted, candidateOrder>>
             /\ \A x \in Calls : \A t \in Token :
                  rec'[x].entry[t] \in Observed \cup {"issued", "bound"} =>
                    rec'[x].entry[t] = rec[x].entry[t]]_vars
  <2> SUFFICES ASSUME IInv, Next, NEW c \in Calls,
                      Aborted(c), call[c].at # "preparing", call'[c] # call[c]
               PROVE  /\ UNCHANGED <<disposition, accepted, candidateOrder>>
                      /\ \A x \in Calls : \A t \in Token :
                           rec'[x].entry[t] \in Observed \cup {"issued", "bound"} =>
                             rec'[x].entry[t] = rec[x].entry[t]
    OBVIOUS
  <2>1. TypeOK /\ \A d \in Calls : CallInv(d)
    BY DEF IInv
  <2>2. PICK d \in Calls : CallStep(d) \/ Timer(d) \/ StartStep(d)
    <3>1. ~EndRun /\ ~FinalStep /\ ~AllDone
      BY DEF EndRun, FinalStep, DrainOne, DrainThrows, BeginCleanup, Finish, AllDone,
             experimentVars, finalVars, vars
    <3> QED
      BY <3>1 DEF Next
  <2>3. Frame(d) /\ Silent(d)
    BY <2>1, <2>2, StepFrames, StepSays DEF CallInv
  <2>4. d = c
    BY <2>3 DEF Frame
  <2> QED
    BY <2>3, <2>4 DEF Silent
<1> QED
  BY <1>1, Invariance, PTL DEF Spec, AbortedExperimentIsSilent
------------------------------------------------------------------------------
(* One environment *)

\* A call has no environment but the one it captures from the run.
LEMMA StepCaptures ==
  ASSUME TypeOK, NEW c \in Calls, CallInv(c), CallStep(c) \/ Timer(c) \/ StartStep(c)
  PROVE  call'[c].env \in {call[c].env, env'}
<1>1. call[c].env # NoCall => call'[c].env = call[c].env
  BY StepSettles DEF Settles
<1>2. CASE call[c].env = NoCall
  <2>1. ~Walking(c)
    BY <1>2 DEF CallInv, CallStands
  <2>2. CASE StartStep(c)
    <3> PICK r \in Candidates : Start(c, r)
      BY <2>2 DEF StartStep
    <3> QED
      BY StartWrites
  <2>3. CASE Unpreparable(c)
    BY <2>3, ReturnedWrites DEF Unpreparable, Becomes
  <2>4. ASSUME NEW ready \in BOOLEAN, Prepared(c, ready)
        PROVE  call'[c].env = call[c].env
    BY <2>4, GoToWrites, ReturnedWrites DEF Prepared, Becomes, Stations
  <2>5. CASE Capture(c)
    BY <2>5, OtherWrites DEF Capture, Becomes
  <2>6. CASE UnsupportedOperation(c)
    BY <2>6, ReturnedWrites DEF UnsupportedOperation, Return, Becomes
  <2>7. CASE Timer(c)
    BY <2>7, OtherWrites DEF Timer, Becomes
  <2>8. ~(\/ BeginPhaseOf(c) \/ OpenFails(c) \/ SessionCreated(c) \/ Relaunch(c)
          \/ RelaunchFails(c) \/ (\E applied \in BOOLEAN : Configured(c, applied))
          \/ ConfigurationThrows(c) \/ (\E k \in Completion : Observe(c, k))
          \/ CloseReturns(c) \/ CloseThrows(c))
    BY <2>1 DEF Walking, BeginPhaseOf, OpenFails, SessionCreated, Relaunch, RelaunchFails,
                Configured, ConfigurationThrows, Observe, CloseReturns, CloseThrows
  <2> QED
    BY <2>2, <2>3, <2>4, <2>5, <2>6, <2>7, <2>8 DEF CallStep
<1> QED
  BY <1>1, <1>2

\* Every step is one of a call, of the end of the run, of the finalizer, or none.
LEMMA Steps ==
  ASSUME [Next]_vars
  PROVE  \/ \E c \in Calls : CallStep(c) \/ Timer(c) \/ StartStep(c)
         \/ EndRun
         \/ \E s \in Session : DrainOne(s) \/ DrainThrows(s)
         \/ BeginCleanup
         \/ Finish
         \/ UNCHANGED vars
  BY DEF Next, FinalStep, AllDone

\* While the environment stays the same, every call keeps using that one.
LEMMA OneEnvironmentKept ==
  IInv /\ OneEnvironment /\ [Next]_vars /\ (env # NoCall => env' = env) => OneEnvironment'
<1> SUFFICES ASSUME IInv, OneEnvironment, [Next]_vars, env # NoCall => env' = env,
                    NEW d \in Calls
             PROVE  call'[d].env \in {NoCall, env'}
  BY DEF OneEnvironment
<1>1. TypeOK /\ (\A c \in Calls : CallInv(c)) /\ call[d].env \in {NoCall, env}
  BY DEF IInv, OneEnvironment
<1>2. ASSUME NEW c \in Calls, CallStep(c) \/ Timer(c) \/ StartStep(c)
      PROVE  call'[d].env \in {NoCall, env'}
  <2>1. Frame(c)
    BY <1>1, <1>2, StepFrames DEF CallInv
  <2>2. call'[c].env \in {call[c].env, env'}
    BY <1>1, <1>2, StepCaptures
  <2> QED
    BY <1>1, <2>1, <2>2 DEF Frame
<1>3. ASSUME call' = call PROVE call'[d].env \in {NoCall, env'}
  BY <1>1, <1>3
<1>4. ASSUME EndRun \/ (\E s \in Session : DrainOne(s) \/ DrainThrows(s)) \/ BeginCleanup
             \/ Finish \/ UNCHANGED vars
      PROVE  call' = call
  BY <1>4 DEF EndRun, DrainOne, DrainThrows, BeginCleanup, Finish, vars, experimentVars
<1> QED
  BY <1>2, <1>3, <1>4, Steps

\* If the environment of the run is set once, every call works in it.
THEOREM EnvironmentIsShared == Spec /\ EnvironmentIsSetOnce => []OneEnvironment
<1>1. Init => OneEnvironment
  BY DEF Init, OneEnvironment
<1>2. IInv /\ OneEnvironment /\ [Next]_vars /\ [env # NoCall => env' = env]_vars => OneEnvironment'
  <2>1. UNCHANGED vars => UNCHANGED env
    BY DEF vars, experimentVars
  <2> QED
    BY <2>1, OneEnvironmentKept
<1> QED
  BY <1>1, <1>2, Invariance, PTL DEF Spec, EnvironmentIsSetOnce

\* With one call at a time, and none that outlives its grace, it is.
OneWorks ==
  /\ \A c \in Calls : call[c].deadline # "detached"
  /\ \A c, d \in Calls : Working(c) /\ Working(d) => c = d
  /\ env # NoCall => \A c \in Calls : call[c].at # "preparing"

\* One call at a time stays one call at a time.
LEMMA OneWorksKept ==
  ASSUME MaxParallel = 1, ~GraceMayExpire, IInv, OneWorks, [Next]_vars
  PROVE  OneWorks' /\ (env # NoCall => env' = env)
<1>1. TypeOK /\ (\A c \in Calls : CallInv(c))
  BY DEF IInv
<1>2. ASSUME NEW c \in Calls, CallStep(c) \/ Timer(c) \/ StartStep(c),
             call'[c].deadline # "detached", ~Working(c) => \A d \in Calls : ~Working(d),
             env' = env \/ (env' = c /\ env = NoCall),
             (env' # NoCall => call'[c].at # "preparing")
      PROVE  OneWorks' /\ (env # NoCall => env' = env)
  <2>1. Frame(c)
    BY <1>1, <1>2, StepFrames DEF CallInv
  <2>2. \A d \in Calls \ {c} : call'[d] = call[d] /\ Working(d)' = Working(d) /\ ~Working(d)
    BY <1>2, <2>1 DEF Frame, Working, OneWorks
  <2>3. \A d \in Calls \ {c} : call'[d].at # "preparing"
    BY <2>2 DEF Working
  <2> QED
    BY <1>2, <2>1, <2>2, <2>3 DEF OneWorks, Frame
<1>3. ASSUME NEW c \in Calls, NEW r \in Candidates, Start(c, r)
      PROVE  \A d \in Calls : ~Working(d)
  <2> SUFFICES ASSUME NEW d \in Calls, Working(d) PROVE FALSE
    OBVIOUS
  <2>1. {e \in Calls : Attended(e)} = {d}
    BY DEF OneWorks, Attended
  <2>2. Cardinality({d}) = 1
    BY FS_Singleton
  <2> QED
    BY <1>3, <2>1, <2>2 DEF Start
<1>4. ASSUME NEW c \in Calls, CallStep(c) \/ Timer(c) \/ StartStep(c)
      PROVE  OneWorks' /\ (env # NoCall => env' = env)
  <2>1. call[c].deadline # "detached"
    BY DEF OneWorks
  <2>2. ~Working(c) => \A d \in Calls : ~Working(d)
    BY <1>3, <1>4 DEF StartStep, CallStep, Timer, Working, Unpreparable, Prepared, Capture,
       UnsupportedOperation, BeginPhaseOf, OpenFails, SessionCreated, Relaunch, RelaunchFails,
       Configured, ConfigurationThrows, Observe, CloseReturns, CloseThrows, Expire,
       GraceExpires, Awaiting
  <2>3. /\ call'[c].deadline # "detached"
        /\ env' = env \/ (env' = c /\ env = NoCall)
        /\ env' # NoCall => call'[c].at # "preparing"
    BY <1>1, <1>4, <2>1, StepClocks DEF GraceExpires, OneWorks
  <2> QED
    BY <1>2, <1>4, <2>2, <2>3
<1>5. ASSUME EndRun \/ (\E s \in Session : DrainOne(s) \/ DrainThrows(s)) \/ BeginCleanup
             \/ Finish \/ UNCHANGED vars
      PROVE  OneWorks' /\ (env # NoCall => env' = env)
  <2>1. call' = call /\ env' = env
    BY <1>5 DEF EndRun, DrainOne, DrainThrows, BeginCleanup, Finish, vars, experimentVars
  <2> QED
    BY <2>1 DEF OneWorks, Working
<1> QED
  BY <1>4, <1>5, Steps

\* With one call at a time, and none that outlives its grace, the environment
\* of the run is set once.
THEOREM OneCallSetsOnce ==
  ASSUME MaxParallel = 1, ~GraceMayExpire
  PROVE  Spec => EnvironmentIsSetOnce
<1>1. Init => OneWorks
  BY DEF Init, OneWorks, Working
<1>2. IInv /\ OneWorks /\ [Next]_vars => OneWorks' /\ [env # NoCall => env' = env]_vars
  BY OneWorksKept
<1> QED
  BY <1>1, <1>2, Invariance, PTL DEF Spec, EnvironmentIsSetOnce
------------------------------------------------------------------------------
(* The recorder never refuses, and a published verification is backed *)

\* The bound of the schema on phases is not reached.
Sized == IsFiniteSet(Token) /\ Cardinality(Token) <= MaxPhases

\* What a call hands to the recorder while nobody has given it up.
CallsAreAccepted ==
  \A c \in Calls : ~Aborted(c) =>
    /\ call[c].at = "phase" => MayBegin(Record(c), TokenOf(c))
    /\ call[c].at \in {"opening", "configuring", "relaunched"} =>
         MayBind(Record(c), TokenOf(c))
    /\ call[c].at = "observing" =>
         MayComplete(Record(c), TokenOf(c), "failed", {}, {})

\* The invariant leaves the recorder no call to refuse.
LEMMA InvAccepts == IInv => CallsAreAccepted
<1> SUFFICES ASSUME IInv, NEW c \in Calls, ~Aborted(c)
             PROVE  /\ call[c].at = "phase" => MayBegin(Record(c), TokenOf(c))
                    /\ call[c].at \in {"opening", "configuring", "relaunched"} =>
                         MayBind(Record(c), TokenOf(c))
                    /\ call[c].at = "observing" =>
                         MayComplete(Record(c), TokenOf(c), "failed", {}, {})
  BY DEF CallsAreAccepted
<1>1. TypeOK /\ CallStands(c) /\ LedgerFollows(c) /\ RunInv
  BY DEF IInv, CallInv
<1>2. ASSUME Walking(c)
      PROVE  ~Record(c).finalized /\ Record(c).registered
  <2>1. call[c].env \in Calls /\ call[c].env # NoCall /\ Attended(c)
    BY <1>1, <1>2, Fields DEF CallStands, Walking, Attended, Working, Aborted
  <2>2. ~Finished
    BY <1>1, <2>1 DEF RunInv, Finished
  <2> QED
    BY <1>1, <2>1, <2>2 DEF RunInv, LedgerFollows, Record
<1>3. "failed" \notin Observed
  BY DEF Observed
<1> QED
  BY <1>1, <1>2, <1>3 DEF CallStands, Walking, EntryOf, MayBegin, MayBind, MayComplete, Writable

\* The finalizer is not refused either: the ledger is settled when the agent has
\* gone, the receipt agrees with the adapter, and a verified execution has
\* evidence of all three phases.
LEMMA FinishAccepts ==
  ASSUME Sized, IInv, OneEnvironment, Finish
  PROVE  run' # "threw"
<1> DEFINE cleaningFailed == "cleaning" \in failedStages
           drainFailed == "draining" \in failedStages
           a      == CleanUp(adapter[env], cleaningFailed)
           kept   == MayRecordCleanup(rec[env], a.lifecycle, a.leases, a.receipt)
           recorded == RecordCleanup(rec[env], a.receipt, drainFailed)
           r      == IF kept THEN recorded ELSE rec[env]
<1>1. (kept /\ MayFinalize(r, provisional.status)) => run' # "threw"
  BY DEF Finish
<1>2. TypeOK /\ (\A c \in Calls : CallInv(c)) /\ RunInv /\ VerdictInv /\ run = "cleaning"
  BY DEF IInv, Finish
<1>3. /\ env \in Calls /\ env # NoCall /\ adapter[env] \in Adapter /\ rec[env] \in Recorder
      /\ rec[env].registered /\ ~rec[env].finalized /\ rec[env].cleanup = "none"
      /\ \A c \in Calls : ~Attended(c)
  BY <1>2 DEF RunInv, TypeOK, Finished
<1>4. cleaningFailed \in BOOLEAN /\ drainFailed \in BOOLEAN
  OBVIOUS
<1> HIDE DEF cleaningFailed, drainFailed
<1>5. \/ a.receipt = "completed" /\ a.lifecycle = "cleaned" /\ a.leases = {}
      \/ a.receipt = "failed" /\ a.lifecycle = "cleanup_failed"
  BY <1>3, <1>4 DEF CleanUp, Adapter
<1> HIDE DEF a
<1>6. kept
  BY <1>3, <1>5 DEF MayRecordCleanup, Writable
<1>7. r = recorded
  BY <1>6
<1>8. a.receipt \in Receipt /\ a.receipt # "none"
  BY <1>5 DEF Receipt
<1>9. /\ recorded.entry = rec[env].entry /\ recorded.registered /\ ~recorded.finalized
      /\ recorded.cleanup = a.receipt
  BY <1>3, <1>4, <1>8 DEF RecordCleanup, Recorder
<1> HIDE DEF kept, recorded, r
<1>10. Unsettled(recorded) = {}
  <2> SUFFICES ASSUME NEW t \in Token, rec[env].entry[t] = "bound" PROVE FALSE
    BY <1>9 DEF Unsettled
  <2> PICK c \in Calls, p \in Phase : t = <<c, p>>
    BY DEF Token, Calls
  <2>1. LedgerFollows(c) /\ CallStands(c)
    BY <1>2 DEF CallInv
  <2>2. call[c].env = env
    BY <1>3, <2>1 DEF LedgerFollows
  <2>3. call[c].at = "observing" /\ ~Aborted(c)
    BY <1>3, <2>1, <2>2 DEF LedgerFollows, CallStands
  <2> QED
    BY <1>3, <2>3 DEF Attended, Working, Aborted
<1>11. Cardinality(Evidence(recorded)) <= MaxPhases
  <2>1. Evidence(recorded) \subseteq Token
    BY DEF Evidence
  <2>2. Cardinality(Evidence(recorded)) <= Cardinality(Token) /\ IsFiniteSet(Evidence(recorded))
    BY <2>1, FS_Subset DEF Sized
  <2>3. Cardinality(Evidence(recorded)) \in Nat /\ Cardinality(Token) \in Nat /\ MaxPhases \in Nat
    BY <2>2, FS_CardinalityType, LedgerAssumption DEF Sized
  <2> QED
    BY <2>2, <2>3 DEF Sized
<1>12. ASSUME FinalStatus(recorded, provisional.status) = "verified"
       PROVE  \A p \in Phase : \E x \in Experiments : <<x, p>> \in Evidence(recorded)
  <2>1. provisional.status = "verified"
    BY <1>12 DEF FinalStatus
  <2> PICK c \in Calls : call[c].env # NoCall /\ Backed(rec[call[c].env], c)
    BY <1>2, <2>1 DEF VerdictInv, Right
  <2>2. Backed(rec[env], c)
    BY DEF OneEnvironment
  <2>3. \A p \in Phase : rec[env].entry[<<c, p>>] \in Completion
    BY <2>2 DEF Backed, Phase, Completion, Observed
  <2> QED
    BY <1>9, <2>3 DEF Evidence, Token, Calls
<1>13. MayFinalize(recorded, provisional.status)
  BY <1>8, <1>9, <1>10, <1>11, <1>12 DEF MayFinalize, Writable
<1> QED
  BY <1>1, <1>6, <1>7, <1>13

\* Only the finalizer can end a run with an error.
LEMMA NeverThrows ==
  ASSUME Sized, IInv, OneEnvironment, run # "threw", [Next]_vars
  PROVE  run' # "threw"
<1>1. ASSUME NEW c \in Calls, CallStep(c) \/ Timer(c) \/ StartStep(c) PROVE run' = run
  BY <1>1 DEF CallStep, Timer, StartStep, finalVars
<1>2. ASSUME NEW s \in Session, DrainOne(s) \/ DrainThrows(s) PROVE run' = run
  BY <1>2 DEF DrainOne, DrainThrows
<1>3. EndRun \/ BeginCleanup => run' # "threw"
  BY DEF EndRun, BeginCleanup
<1>4. UNCHANGED vars => run' = run
  BY DEF vars, finalVars
<1> QED
  BY <1>1, <1>2, <1>3, <1>4, Steps, FinishAccepts

\* No call to the recorder is refused, by the experiments or by the finalizer,
\* in a run whose environment is set once and whose phases fit the schema.
THEOREM RecorderNeverRefuses ==
  ASSUME Sized
  PROVE  Spec /\ EnvironmentIsSetOnce => []RecorderAccepts
<1>1. Init => run # "threw"
  BY DEF Init
<1>2. IInv /\ OneEnvironment /\ run # "threw" /\ [Next]_vars => (run # "threw")'
  BY NeverThrows
<1>3. IInv /\ run # "threw" => RecorderAccepts
  BY InvAccepts DEF RecorderAccepts, CallsAreAccepted
<1> QED
  BY <1>1, <1>2, <1>3, Invariance, EnvironmentIsShared, PTL DEF Spec

\* A published verification is backed by one experiment of that candidate whose
\* three phases were observed, in the recorder that was published.
THEOREM VerificationIsBacked == Spec /\ EnvironmentIsSetOnce => []VerifiedIsBacked
<1>1. IInv /\ OneEnvironment => VerifiedIsBacked
  <2> SUFFICES ASSUME IInv, OneEnvironment, published.status = "verified"
               PROVE  \E c \in Calls : /\ call[c].candidate = published.candidate
                                       /\ Backed(rec[env], c)
    BY DEF VerifiedIsBacked
  <2> PICK c \in Calls : /\ call[c].candidate = published.candidate
                         /\ call[c].env # NoCall /\ Backed(rec[call[c].env], c)
    BY DEF IInv, VerdictInv, Right
  <2> QED
    BY DEF OneEnvironment
<1> QED
  BY <1>1, Invariance, EnvironmentIsShared, PTL
------------------------------------------------------------------------------
(* No browser outlives the run *)

\* Without calls left behind nothing runs once the agent has gone, the drain in
\* progress holds what is still to close, and what refused to close is known.
Drained ==
  /\ \A c \in Calls : call[c].deadline # "detached"
  /\ run # "threw"
  /\ run \in {"draining", "cleaning"} =>
       /\ toDrain \subseteq adapter[env].leases
       /\ adapter[env].leases \ toDrain \subseteq unclosed
  /\ run = "done" /\ env # NoCall =>
       /\ adapter[env].leases \subseteq unclosed
       /\ adapter[env].leases # {} => published.status = "failed"

\* Then only the finalizer takes steps after the agent.
LEMMA AgentIsDone ==
  ASSUME IInv, Drained, run # "agent"
  PROVE  /\ \A c \in Calls : ~Working(c)
         /\ \A c \in Calls : ~(CallStep(c) \/ Timer(c) \/ StartStep(c))
<1>1. \A c \in Calls : ~Working(c)
  BY DEF IInv, RunInv, Attended, Drained
<1>2. ASSUME NEW c \in Calls PROVE ~(CallStep(c) \/ Timer(c) \/ StartStep(c))
  BY <1>1 DEF StartStep, Start, CallStep, Timer, Working, Unpreparable, Prepared, Capture,
     UnsupportedOperation, BeginPhaseOf, OpenFails, SessionCreated, Relaunch, RelaunchFails,
     Configured, ConfigurationThrows, Observe, CloseReturns, CloseThrows, Expire, GraceExpires,
     Awaiting
<1> QED
  BY <1>1, <1>2

\* No step of such a run leaves behind a call that works or a lease that is held.
LEMMA DrainedKept ==
  ASSUME Sized, ~GraceMayExpire, IInv, OneEnvironment, Drained, [Next]_vars
  PROVE  Drained'
<1>1. TypeOK /\ RunInv /\ (\A c \in Calls : CallInv(c)) /\ run' # "threw"
  BY NeverThrows DEF IInv, Drained
<1>2. ASSUME NEW c \in Calls, CallStep(c) \/ Timer(c) \/ StartStep(c) PROVE Drained'
  <2>1. run = "agent" /\ run' = "agent"
    BY <1>2, AgentIsDone DEF CallStep, Timer, StartStep, finalVars
  <2>2. Frame(c) /\ ~GraceExpires(c)
    BY <1>1, <1>2, StepFrames DEF CallInv, GraceExpires
  <2>3. \A d \in Calls : call'[d].deadline # "detached"
    BY <1>1, <1>2, <2>2, StepClocks DEF Frame, Drained
  <2> QED
    BY <2>1, <2>3 DEF Drained
<1>3. CASE EndRun
  BY <1>1, <1>3 DEF Drained, EndRun, experimentVars
<1>4. ASSUME NEW s \in Session, DrainOne(s) PROVE Drained'
  <2>1. /\ run \in {"draining", "cleaning"} /\ env \in Calls
        /\ adapter' = [adapter EXCEPT ![env] = Release(@, s)]
    BY <1>1, <1>4 DEF RunInv, TypeOK, DrainOne
  <2>2. s \in adapter[env].leases /\ env # NoCall
    BY <1>1, <1>4, <2>1 DEF Drained, DrainOne, RunInv
  <2>3. adapter'[env].leases = adapter[env].leases \ {s}
    BY <1>1, <2>1, <2>2, LeaseWrites, LeaseIsOneSession DEF Holds
  <2>4. unclosed \subseteq unclosed'
    BY <1>4 DEF DrainOne, Closed, Survives
  <2> QED
    BY <1>4, <2>1, <2>3, <2>4 DEF Drained, DrainOne
<1>5. ASSUME NEW s \in Session, DrainThrows(s) PROVE Drained'
  <2>1. run \in {"draining", "cleaning"}
    BY <1>1, <1>5 DEF RunInv, DrainThrows
  <2> QED
    BY <1>5, <2>1 DEF Drained, DrainThrows, Survives
<1>6. CASE BeginCleanup
  BY <1>1, <1>6 DEF Drained, BeginCleanup, experimentVars
<1>7. CASE Finish
  <2>1. Finishes /\ run' = "done" /\ env' = env /\ call' = call /\ unclosed' = unclosed
    BY <1>1, <1>7, FinishWrites DEF Finishes
  <2>2. /\ adapter[env].leases \subseteq unclosed /\ env \in Calls
        /\ adapter'[env].leases = adapter[env].leases
        /\ published'.status # "failed" => adapter[env].leases = {}
    BY <1>1, <2>1 DEF Finishes, Drained, RunInv, TypeOK
  <2> QED
    BY <2>1, <2>2 DEF Drained
<1>8. CASE UNCHANGED vars
  BY <1>8 DEF Drained, vars, experimentVars, finalVars
<1> QED
  BY <1>2, <1>3, <1>4, <1>5, <1>6, <1>7, <1>8, Steps

\* A run that has one environment and where no grace expires is always drained.
LEMMA DrainedAlways ==
  ASSUME Sized, ~GraceMayExpire
  PROVE  Spec /\ EnvironmentIsSetOnce => []Drained
<1>1. Init => Drained
  BY DEF Init, Drained
<1>2. IInv /\ OneEnvironment /\ Drained /\ [Next]_vars => Drained'
  BY DrainedKept
<1> QED
  BY <1>1, <1>2, Invariance, EnvironmentIsShared, PTL DEF Spec

\* A finished run leaves no browser behind except one that refused to close,
\* and does not publish a verdict over a lease it still holds.
THEOREM NoSessionIsLeft ==
  ASSUME Sized, ~GraceMayExpire
  PROVE  Spec /\ EnvironmentIsSetOnce => []NoSessionOutlivesRun
<1>1. IInv /\ OneEnvironment /\ Drained => NoSessionOutlivesRun
  <2> SUFFICES ASSUME IInv, OneEnvironment, Drained, Finished
               PROVE  /\ live \subseteq unclosed
                      /\ env # NoCall /\ adapter[env].leases # {} => published.status = "failed"
    BY DEF NoSessionOutlivesRun
  <2>1. run = "done" /\ \A c \in Calls : ~Working(c)
    BY AgentIsDone DEF Finished, Drained
  <2>2. ASSUME NEW s \in live \ unclosed PROVE FALSE
    <3>1. s \in Session /\ Owner(s) \in Calls
      BY DEF IInv, TypeOK, Session, Token, Calls, Owner
    <3>2. SessionsFollow(Owner(s)) /\ call[Owner(s)].at \notin {"relaunched", "closing"}
      BY <2>1, <3>1 DEF IInv, CallInv, Working
    <3>3. call[Owner(s)].env # NoCall /\ s \in adapter[call[Owner(s)].env].leases
      BY <3>1, <3>2 DEF SessionsFollow, Unclosed, LostToDrain
    <3>4. call[Owner(s)].env = env /\ env # NoCall
      BY <3>1, <3>3 DEF OneEnvironment
    <3> QED
      BY <2>1, <3>3, <3>4 DEF Drained
  <2> QED
    BY <2>1, <2>2 DEF Drained
<1> QED
  BY <1>1, DrainedAlways, Invariance, EnvironmentIsShared, PTL
------------------------------------------------------------------------------
(* The run implements its promise *)

\* What the promise reads of the run.
Evidenced ==
  [t \in Token |-> IF env # NoCall /\ rec[env].entry[t] \in Completion
                   THEN rec[env].entry[t] ELSE "none"]

HeldLeases == IF env = NoCall THEN {} ELSE {LeaseOf(s) : s \in adapter[env].leases}

Outcome ==
  IF run = "threw" \/ (run = "done" /\ env = NoCall) THEN "absent"
  ELSE IF run = "done" THEN published.status ELSE "open"

\* The steps of the promise in those terms.
IsOpened(t) ==
  /\ t \notin HeldLeases /\ Evidenced[t] = "none"
  /\ t[2] = "B" => Evidenced[<<t[1], "A">>] # "none"
  /\ t[2] = "C" => Evidenced[<<t[1], "B">>] = "positive"
  /\ HeldLeases' = HeldLeases \cup {t}
  /\ Evidenced' = Evidenced /\ Outcome = "open" /\ Outcome' = Outcome

IsObserved(t, k) ==
  /\ t \in HeldLeases /\ Evidenced[t] = "none"
  /\ t[2] = "C" /\ k \in Observed => Evidenced[<<t[1], "A">>] \in Observed
  /\ Evidenced' = [Evidenced EXCEPT ![t] = k]
  /\ HeldLeases' = HeldLeases /\ Outcome = "open" /\ Outcome' = Outcome

IsClosed(t) ==
  /\ t \in HeldLeases /\ HeldLeases' = HeldLeases \ {t}
  /\ Evidenced' = Evidenced /\ Outcome = "open" /\ Outcome' = Outcome

IsPublished(status) ==
  /\ status # "failed" => HeldLeases = {}
  /\ status = "verified" =>
       \E x \in Experiments : /\ Evidenced[<<x, "A">>] \in Observed
                              /\ Evidenced[<<x, "B">>] = "positive"
                              /\ Evidenced[<<x, "C">>] = "positive"
  /\ Outcome = "open" /\ Outcome' = status
  /\ Evidenced' = Evidenced /\ HeldLeases' = HeldLeases

IsAbandoned ==
  /\ Evidenced = [t \in Token |-> "none"] /\ HeldLeases = {}
  /\ Outcome = "open" /\ Outcome' = "absent"
  /\ Evidenced' = Evidenced /\ HeldLeases' = HeldLeases

IsQuiet == Evidenced' = Evidenced /\ HeldLeases' = HeldLeases /\ Outcome' = Outcome

Promised ==
  \/ IsQuiet \/ IsAbandoned
  \/ \E t \in Token : IsOpened(t) \/ IsClosed(t) \/ \E k \in Completion : IsObserved(t, k)
  \/ \E status \in Disposition : IsPublished(status)

\* The promise speaks of the same tokens, completions and dispositions.
LEMMA PromiseNames ==
  /\ Promise!Token = Token /\ Promise!Observed = Observed
  /\ Promise!Completion = Completion /\ Promise!Disposition = Disposition
<1>1. Promise!Token = Token
  BY DEF Promise!Token, Promise!Phase, Token, Phase
<1>2. Promise!Observed = Observed
  BY DEF Promise!Observed, Observed
<1>3. Promise!Completion = Completion
  BY <1>2 DEF Promise!Completion, Completion
<1>4. Promise!Disposition = Disposition
  BY DEF Promise!Disposition, Disposition
<1> QED
  BY <1>1, <1>2, <1>3, <1>4

\* They are its steps.
LEMMA PromiseReads == Promised => [Promise!Next]_(Promise!vars)
<1>1. IsQuiet => UNCHANGED Promise!vars
  BY DEF IsQuiet, Promise!vars, Evidenced, HeldLeases, Outcome
<1>2. IsAbandoned => Promise!Abandon
  BY PromiseNames DEF IsAbandoned, Promise!Abandon, Evidenced, HeldLeases, Outcome
<1>3. \A t \in Token : IsOpened(t) => Promise!Open(t)
  BY DEF IsOpened, Promise!Open, Promise!Ready, Evidenced, HeldLeases, Outcome
<1>4. \A t \in Token : IsClosed(t) => Promise!Close(t)
  BY DEF IsClosed, Promise!Close, Evidenced, HeldLeases, Outcome
<1>5. \A t \in Token, k \in Completion : IsObserved(t, k) => Promise!Observe(t, k)
  BY PromiseNames DEF IsObserved, Promise!Observe, Evidenced, HeldLeases, Outcome
<1>6. \A status \in Disposition : IsPublished(status) => Promise!Publish(status)
  BY PromiseNames DEF IsPublished, Promise!Publish, Promise!Complete, Evidenced, HeldLeases,
     Outcome
<1> QED
  BY <1>1, <1>2, <1>3, <1>4, <1>5, <1>6, PromiseNames DEF Promised, Promise!Next

\* A token has a lease in the run's adapter exactly if one of its sessions is there.
LEMMA HeldBy ==
  ASSUME env # NoCall
  PROVE  \A t : t \in HeldLeases <=> \E s \in adapter[env].leases : LeaseOf(s) = t
  BY DEF HeldLeases

\* A step that leaves the evidence and the leases of the run alone.
LEMMA SameEvidence ==
  ASSUME env' = env,
         env # NoCall => \A t \in Token :
           rec'[env].entry[t] = rec[env].entry[t]
             \/ (rec'[env].entry[t] \notin Completion /\ rec[env].entry[t] \notin Completion)
  PROVE  Evidenced' = Evidenced
<1>1. \A t \in Token :
        (IF env' # NoCall /\ rec'[env'].entry[t] \in Completion
         THEN rec'[env'].entry[t] ELSE "none")
        = (IF env # NoCall /\ rec[env].entry[t] \in Completion
           THEN rec[env].entry[t] ELSE "none")
  OBVIOUS
<1> QED
  BY <1>1 DEF Evidenced

\* Closing a session of the run's adapter closes its lease.
LEMMA ClosesLease ==
  ASSUME IInv, env # NoCall, env' = env, NEW s \in adapter[env].leases,
         adapter'[env].leases = adapter[env].leases \ {s},
         Evidenced' = Evidenced, Outcome = "open", Outcome' = Outcome
  PROVE  Promised
<1>1. LeaseOf(s) \in Token
  BY DEF IInv, TypeOK, Adapter, Session, LeaseOf
<1>2. HeldLeases' = {LeaseOf(o) : o \in adapter[env].leases \ {s}}
  BY DEF HeldLeases
<1>3. HeldLeases = {LeaseOf(o) : o \in adapter[env].leases}
  BY DEF HeldLeases
<1>4. HeldLeases' = HeldLeases \ {LeaseOf(s)} /\ LeaseOf(s) \in HeldLeases
  BY <1>2, <1>3, LeasesAreUnique
<1> QED
  BY <1>1, <1>4 DEF IsClosed, Promised

\* The steps of a call: an experiment opens, observes and closes its phases, and
\* all the rest is invisible.
LEMMA CallPromised ==
  ASSUME IInv, OneEnvironment, Drained, NEW c \in Calls,
         CallStep(c) \/ Timer(c) \/ StartStep(c), env # NoCall => env' = env
  PROVE  Promised
<1>1. /\ TypeOK /\ CallStands(c) /\ LedgerFollows(c) /\ SessionsFollow(c) /\ SessionInHand(c)
      /\ RunInv /\ (Walking(c) => call[c].env # NoCall)
      /\ call[c].deadline # "detached"
  BY DEF IInv, CallInv, CallStands, Drained
<1>2. run = "agent" /\ run' = "agent"
  BY AgentIsDone DEF CallStep, Timer, StartStep, finalVars
<1>3. Outcome = "open" /\ Outcome' = Outcome
  BY <1>2 DEF Outcome
<1>4. call[c].env # NoCall => call[c].env = env /\ env' = env /\ env \in Calls /\ env # NoCall
  BY <1>1 DEF OneEnvironment, TypeOK
<1>5. ASSUME UNCHANGED <<env, adapter, rec>> PROVE Promised
  BY <1>3, <1>5 DEF IsQuiet, Promised, Evidenced, HeldLeases
<1>6. CASE StartStep(c) \/ Unpreparable(c) \/ Capture(c) \/ UnsupportedOperation(c)
           \/ OpenFails(c) \/ Relaunch(c) \/ RelaunchFails(c) \/ ConfigurationThrows(c)
           \/ CloseThrows(c) \/ GraceExpires(c) \/ (Expire(c) /\ call[c].at # "observing")
  BY <1>5, <1>6 DEF StartStep, Start, Unpreparable, Capture, UnsupportedOperation, Return,
     OpenFails, Relaunch, RelaunchFails, ConfigurationThrows, CloseThrows, GraceExpires, Expire
<1>7. ASSUME NEW ready \in BOOLEAN, Prepared(c, ready) PROVE Promised
  <2>1. /\ adapter \in [Calls -> Adapter] /\ rec \in [Calls -> Recorder]
        /\ adapter' = [adapter EXCEPT ![c] = Prepare(@, ready)]
        /\ rec' = [rec EXCEPT ![c] = RegisterAdapter(@)] /\ env' = c /\ c # NoCall
    BY <1>1, <1>7, ExperimentAssumption DEF TypeOK, Prepared
  <2>2. \A x \in Calls : /\ adapter'[x].leases = adapter[x].leases
                         /\ rec'[x].entry = rec[x].entry
    BY <2>1 DEF Prepare, RegisterAdapter, Adapter, Recorder
  <2>3. CASE env # NoCall
    <3>1. env' = env /\ env \in Calls
      BY <2>1, <2>3
    <3>2. Evidenced' = Evidenced
      BY <2>2, <3>1, SameEvidence
    <3>3. HeldLeases' = HeldLeases
      BY <2>2, <3>1 DEF HeldLeases
    <3> QED
      BY <1>3, <3>2, <3>3 DEF IsQuiet, Promised
  <2>4. CASE env = NoCall
    <3>1. \A d \in Calls : call[d].env = NoCall
      BY <1>1, <2>4 DEF RunInv
    <3>2. \A t \in Token : rec[c].entry[t] = "none"
      <4> SUFFICES ASSUME NEW d \in Calls, NEW p \in Phase PROVE rec[c].entry[<<d, p>>] = "none"
        BY DEF Token, Calls
      <4>1. LedgerFollows(d)
        BY DEF IInv, CallInv
      <4> QED
        BY <2>1, <3>1, <4>1 DEF LedgerFollows
    <3>3. adapter[c].leases = {}
      <4> SUFFICES ASSUME NEW s \in adapter[c].leases PROVE FALSE
        OBVIOUS
      <4>1. s \in Session /\ Owner(s) \in Calls
        BY <2>1 DEF Adapter, Session, Token, Owner, Calls
      <4>2. SessionsFollow(Owner(s))
        BY <4>1 DEF IInv, CallInv
      <4> QED
        BY <2>1, <3>1, <4>1, <4>2 DEF SessionsFollow
    <3>4. Evidenced = [t \in Token |-> "none"]
      BY <2>4 DEF Evidenced
    <3>5. \A t \in Token : rec'[c].entry[t] = "none"
      BY <2>2, <3>2
    <3>6. Evidenced' = [t \in Token |-> "none"]
      BY <2>1, <3>5 DEF Evidenced, Completion, Observed
    <3>7. HeldLeases = {} /\ HeldLeases' = {}
      BY <2>1, <2>2, <2>4, <3>3 DEF HeldLeases
    <3> QED
      BY <1>3, <3>4, <3>6, <3>7 DEF IsQuiet, Promised
  <2> QED
    BY <2>3, <2>4
<1> DEFINE t == TokenOf(c)
<1>8. /\ t \in Token /\ t[1] = c /\ t[2] = call[c].phase
      /\ SessionOf(c) \in Session /\ LeaseOf(SessionOf(c)) = t /\ Owner(SessionOf(c)) = c
      /\ LeaseOf(<<t, "created">>) = t
  BY <1>1, InHand DEF TokenOf, SessionOf, LeaseOf, Owner
<1>10. \A p \in Phase : <<c, p>> \in Token
  BY DEF Token, Calls
<1>11. ASSUME Walking(c), NEW p \in Earlier(call[c].phase)
       PROVE  /\ Evidenced[<<c, p>>] = rec[env].entry[<<c, p>>]
              /\ Evidenced[<<c, p>>] \in Completion
              /\ call[c].phase = "C" /\ p = "B" => Evidenced[<<c, p>>] = "positive"
  <2>1. p \in Phase
    <3>1. call[c].phase \in {"A", "B", "C"}
      BY <1>1, Fields DEF Phase
    <3> QED
      BY <3>1, <1>11 DEF Earlier, Phase
  <2>2. rec[env].entry[<<c, p>>] \in Completion
        /\ (call[c].phase = "C" /\ p = "B" => rec[env].entry[<<c, p>>] = "positive")
    BY <1>1, <1>4, <1>11 DEF LedgerFollows
  <2>3. Evidenced[<<c, p>>] = rec[env].entry[<<c, p>>]
    BY <1>1, <1>4, <1>10, <1>11, <2>1, <2>2 DEF Evidenced
  <2> QED
    BY <2>2, <2>3
<1>12. ASSUME Walking(c), NEW v \in {"issued", "bound"}, Records(c, v), env' = env,
              EntryOf(c) \notin Completion
       PROVE  Evidenced' = Evidenced
  <2>1. v \notin Completion
    BY DEF Completion, Observed
  <2> QED
    BY <1>1, <1>4, <1>12, <2>1, SameEvidence DEF Records, Enters, EntryOf, Record
<1>13. Walking(c) /\ EntryOf(c) \notin Completion => Evidenced[t] = "none"
  BY <1>1, <1>4, <1>8 DEF Evidenced, EntryOf, Record
<1>14. /\ "none" \notin Completion /\ "issued" \notin Completion /\ "bound" \notin Completion
  BY DEF Completion, Observed
<1> HIDE DEF t
<1>15. CASE BeginPhaseOf(c)
  <2>1. Begun(c) /\ Walking(c) /\ EntryOf(c) = "none" /\ env' = env /\ adapter' = adapter
    BY <1>1, <1>15, PhaseWrites DEF BeginPhaseOf, Walking, CallStands, Begun
  <2>2. Evidenced' = Evidenced
    BY <1>12, <1>14, <2>1 DEF Begun, Evidenced
  <2>3. HeldLeases' = HeldLeases
    BY <2>1 DEF HeldLeases
  <2> QED
    BY <1>3, <2>2, <2>3 DEF IsQuiet, Promised
<1>16. CASE SessionCreated(c)
  <2>1. Created(c) /\ Walking(c) /\ EntryOf(c) = "issued" /\ env' = env /\ call[c].at = "opening"
    BY <1>1, <1>16, PhaseWrites DEF SessionCreated, Walking, CallStands, Created
  <2>2. Evidenced' = Evidenced
    BY <1>12, <1>14, <2>1 DEF Created, Evidenced
  <2>3. adapter'[env].leases =
          {o \in adapter[env].leases : LeaseOf(o) # t} \cup {<<t, "created">>}
    BY <1>1, <1>4, <1>8, <2>1 DEF Created, RetainedIn, Holds, t
  <2>4. t \notin HeldLeases
    <3> SUFFICES ASSUME NEW s \in adapter[env].leases, LeaseOf(s) = t PROVE FALSE
      BY <1>1, <1>4, <2>1, HeldBy
    <3>1. s \in Session /\ Owner(s) = c /\ PhaseOf(s) = call[c].phase /\ s \in Kept(env)
      BY <1>1, <1>4, <1>8, <2>1 DEF TypeOK, Adapter, LeaseOf, Owner, PhaseOf, Kept
    <3> QED
      BY <1>1, <1>4, <2>1, <3>1 DEF SessionsFollow
  <2>5. HeldLeases' = HeldLeases \cup {t}
    <3>1. HeldLeases' = {LeaseOf(o) : o \in {o \in adapter[env].leases : LeaseOf(o) # t}
                                              \cup {<<t, "created">>}}
      BY <1>1, <1>4, <2>1, <2>3 DEF HeldLeases
    <3>2. HeldLeases = {LeaseOf(o) : o \in adapter[env].leases}
      BY <1>1, <1>4, <2>1 DEF HeldLeases
    <3> QED
      BY <1>8, <2>4, <3>1, <3>2
  <2>6. (call[c].phase = "B" => Evidenced[<<c, "A">>] # "none")
        /\ (call[c].phase = "C" => Evidenced[<<c, "B">>] = "positive")
    BY <1>11, <1>14, <2>1 DEF Earlier
  <2>7. Evidenced[t] = "none"
    BY <1>13, <1>14, <2>1
  <2>8. IsOpened(t)
    BY <1>3, <1>8, <2>2, <2>4, <2>5, <2>6, <2>7 DEF IsOpened
  <2> QED
    BY <1>8, <2>8 DEF Promised
<1>17. ASSUME NEW applied \in BOOLEAN, Configured(c, applied) PROVE Promised
  <2>1. /\ Configures(c) /\ Walking(c) /\ EntryOf(c) = "issued" /\ env' = env
        /\ call[c].at \in {"configuring", "relaunched"}
    BY <1>1, <1>17, PhaseWrites DEF Configured, Walking, CallStands, Configures
  <2>2. Evidenced' = Evidenced
    BY <1>12, <1>14, <2>1 DEF Configures, Evidenced
  <2>3. \/ adapter' = adapter
        \/ adapter'[env].leases =
             {o \in adapter[env].leases : LeaseOf(o) # t} \cup {SessionOf(c)}
    BY <1>1, <1>4, <1>8, <2>1 DEF Configures, RetainedIn, Holds
  <2>4. <<t, "created">> \in adapter[env].leases
    BY <1>1, <1>4, <2>1 DEF SessionInHand, Adapt, t
  <2>5. CASE adapter' = adapter
    BY <1>3, <2>1, <2>2, <2>5 DEF IsQuiet, Promised, HeldLeases
  <2>6. CASE adapter' # adapter
    <3>1. HeldLeases' = {LeaseOf(o) : o \in {o \in adapter[env].leases : LeaseOf(o) # t}
                                              \cup {SessionOf(c)}}
      BY <1>1, <1>4, <2>1, <2>3, <2>6 DEF HeldLeases
    <3>2. HeldLeases = {LeaseOf(o) : o \in adapter[env].leases}
      BY <1>1, <1>4, <2>1 DEF HeldLeases
    <3>3. HeldLeases' = HeldLeases
      BY <1>8, <2>4, <3>1, <3>2
    <3> QED
      BY <1>3, <2>2, <3>3 DEF IsQuiet, Promised
  <2> QED
    BY <2>5, <2>6
<1>18. ASSUME \/ \E k \in Completion : Observe(c, k)
              \/ Expire(c) /\ call[c].at = "observing"
       PROVE  Promised
  <2>1. Observes(c) /\ Walking(c) /\ EntryOf(c) = "bound" /\ call[c].at = "observing"
    BY <1>1, <1>18, PhaseWrites DEF Observe, Walking, CallStands
  <2>2. PICK k \in Completion :
          /\ k \in Observed /\ call[c].phase = "C" => Record(c).entry[<<c, "A">>] \in Observed
          /\ Records(c, k)
    BY <2>1 DEF Observes
  <2>3. env' = env /\ adapter' = adapter
    BY <2>1 DEF Observes
  <2>4. Evidenced' = [Evidenced EXCEPT ![t] = k]
    <3>1. \A u \in Token : rec'[env].entry[u] = IF u = t THEN k ELSE rec[env].entry[u]
      BY <1>1, <1>4, <2>1, <2>2 DEF Records, Enters, t
    <3> QED
      BY <1>1, <1>4, <1>8, <2>1, <2>3, <3>1 DEF Evidenced
  <2>5. HeldLeases' = HeldLeases
    BY <2>3 DEF HeldLeases
  <2>6. t \in HeldLeases
    BY <1>1, <1>4, <1>8, <2>1, HeldBy DEF SessionInHand, Adapt
  <2>7. k \in Observed /\ t[2] = "C" => Evidenced[<<t[1], "A">>] \in Observed
    <3>1. call[c].phase = "C" => Evidenced[<<c, "A">>] = rec[env].entry[<<c, "A">>]
      BY <1>11, <2>1 DEF Earlier
    <3> QED
      BY <1>1, <1>4, <1>8, <2>1, <2>2, <3>1 DEF Record
  <2>8. IsObserved(t, k)
    BY <1>3, <1>13, <1>14, <2>1, <2>4, <2>5, <2>6, <2>7 DEF IsObserved
  <2> QED
    BY <1>8, <2>2, <2>8 DEF Promised
<1>19. CASE CloseReturns(c)
  <2>1. call[c].at = "closing" /\ Walking(c) /\ EntryOf(c) \in Completion \cup {"issued"}
    BY <1>1, <1>19 DEF CloseReturns, Walking, CallStands
  <2>2. Closes(c)
    BY <1>1, <1>19, <2>1, PhaseWrites
  <2>3. /\ env' = env /\ env # NoCall /\ rec' = rec
        /\ SessionOf(c) \in adapter[env].leases
        /\ adapter'[env].leases = {o \in adapter[env].leases : LeaseOf(o) # TokenOf(c)}
    BY <1>1, <1>4, <2>1, <2>2 DEF Closes, Holds, SessionInHand, Adapt
  <2>4. Evidenced' = Evidenced
    BY <2>3 DEF Evidenced
  <2>5. LeaseOf(SessionOf(c)) = TokenOf(c)
    BY <1>8 DEF t
  <2> QED
    BY <1>3, <2>3, <2>4, <2>5, LeaseIsOneSession, ClosesLease
<1> QED
  BY <1>6, <1>7, <1>15, <1>16, <1>17, <1>18, <1>19 DEF CallStep, Timer

\* The finalizer publishes only what the evidence and the leases allow.
LEMMA FinishPromised ==
  ASSUME Sized, IInv, OneEnvironment, Drained, Finish
  PROVE  Promised
<1>1. TypeOK /\ RunInv /\ VerdictInv
  BY DEF IInv
<1>2. Finishes /\ run' = "done" /\ run = "cleaning" /\ env' = env
  BY <1>1, FinishWrites, FinishAccepts DEF Finishes
<1>3. env \in Calls /\ env # NoCall
  BY <1>1, <1>2 DEF RunInv, TypeOK
<1>4. Evidenced' = Evidenced
  BY <1>2, <1>3, SameEvidence DEF Finishes
<1>5. HeldLeases' = HeldLeases
  BY <1>2, <1>3 DEF Finishes, HeldLeases
<1>6. Outcome = "open" /\ Outcome' = published'.status
  BY <1>2, <1>3 DEF Outcome
<1>7. PICK attached \in BOOLEAN, status \in {"failed", provisional.status} :
        published' = [status |-> status,
                      candidate |-> IF status = "verified" THEN provisional.candidate
                                                           ELSE NoCandidate,
                      attached |-> attached]
  BY <1>2 DEF Finishes
<1>8. published'.status = status
  BY <1>7
<1>9. status \in Disposition
  BY <1>1, <1>7 DEF TypeOK, Verdict, Disposition
<1>10. status # "failed" => HeldLeases = {}
  BY <1>2, <1>3, <1>8 DEF Finishes, HeldLeases
<1>11. ASSUME status = "verified"
       PROVE  \E x \in Experiments : /\ Evidenced[<<x, "A">>] \in Observed
                                     /\ Evidenced[<<x, "B">>] = "positive"
                                     /\ Evidenced[<<x, "C">>] = "positive"
  <2>1. Right(provisional.candidate)
    BY <1>1, <1>7, <1>11 DEF VerdictInv
  <2> PICK c \in Calls : call[c].env # NoCall /\ Backed(rec[call[c].env], c)
    BY <2>1 DEF Right
  <2>2. Backed(rec[env], c)
    BY DEF OneEnvironment
  <2>3. \A p \in Phase : <<c, p>> \in Token /\ rec[env].entry[<<c, p>>] \in Completion
    BY <2>2 DEF Backed, Phase, Completion, Observed, Token, Calls
  <2>4. \A p \in Phase : Evidenced[<<c, p>>] = rec[env].entry[<<c, p>>]
    BY <1>3, <2>3 DEF Evidenced
  <2> QED
    BY <2>2, <2>4 DEF Backed, Phase, Calls
<1>12. IsPublished(status)
  BY <1>4, <1>5, <1>6, <1>8, <1>10, <1>11 DEF IsPublished
<1> QED
  BY <1>9, <1>12 DEF Promised

\* Every step of the run is a step of its promise or invisible.
LEMMA StepPromised ==
  ASSUME Sized, IInv, OneEnvironment, Drained, [Next]_vars, env # NoCall => env' = env
  PROVE  Promised
<1>1. TypeOK /\ RunInv
  BY DEF IInv
<1>2. ASSUME UNCHANGED <<env, adapter, rec>>, Outcome' = Outcome PROVE Promised
  BY <1>2 DEF IsQuiet, Promised, Evidenced, HeldLeases
<1>3. CASE EndRun
  <2>1. UNCHANGED <<env, adapter, rec>> /\ run = "agent"
    BY <1>3 DEF EndRun, experimentVars
  <2>2. CASE env = NoCall
    <3>1. run' = "done"
      BY <1>3, <2>2 DEF EndRun
    <3>2. Evidenced = [t \in Token |-> "none"] /\ HeldLeases = {}
      BY <2>2 DEF Evidenced, HeldLeases
    <3>3. Evidenced' = Evidenced /\ HeldLeases' = HeldLeases
      BY <2>1 DEF Evidenced, HeldLeases
    <3>4. Outcome = "open" /\ Outcome' = "absent"
      BY <2>1, <2>2, <3>1 DEF Outcome
    <3> QED
      BY <3>2, <3>3, <3>4 DEF IsAbandoned, Promised
  <2>3. CASE env # NoCall
    <3>1. run' = "draining"
      BY <1>3, <2>3 DEF EndRun
    <3> QED
      BY <1>2, <2>1, <3>1 DEF Outcome
  <2> QED
    BY <2>2, <2>3
<1>4. ASSUME NEW s \in Session, DrainOne(s) PROVE Promised
  <2>1. /\ run \in {"draining", "cleaning"} /\ env # NoCall /\ env \in Calls
        /\ UNCHANGED <<env, rec, run>> /\ s \in adapter[env].leases
        /\ adapter' = [adapter EXCEPT ![env] = Release(@, s)]
    BY <1>1, <1>4 DEF RunInv, TypeOK, DrainOne, Drained
  <2>2. adapter'[env].leases = adapter[env].leases \ {s}
    BY <1>1, <2>1, LeaseWrites, LeaseIsOneSession DEF Holds
  <2>3. Evidenced' = Evidenced /\ Outcome = "open" /\ Outcome' = Outcome
    BY <2>1 DEF Evidenced, Outcome
  <2> QED
    BY <2>1, <2>2, <2>3, ClosesLease
<1>5. ASSUME NEW s \in Session, DrainThrows(s) PROVE Promised
  BY <1>2, <1>5 DEF DrainThrows, Outcome
<1>6. CASE BeginCleanup
  BY <1>2, <1>6 DEF BeginCleanup, experimentVars, Outcome
<1>7. CASE UNCHANGED vars
  BY <1>2, <1>7 DEF vars, experimentVars, finalVars, Outcome
<1> QED
  BY <1>3, <1>4, <1>5, <1>6, <1>7, Steps, CallPromised, FinishPromised

\* A run whose environment is set once, whose phases fit the schema and that
\* leaves no call behind publishes exactly what EnvironmentExecution promises:
\* evidence gathered in order under open leases and never rewritten, and one
\* execution at most, whose verdict is backed and given over no open lease.
THEOREM RunKeepsPromise ==
  ASSUME Sized, ~GraceMayExpire
  PROVE  Spec /\ EnvironmentIsSetOnce => KeepsPromise
<1>1. Init => Promise!Init
  BY PromiseNames DEF Init, Promise!Init
<1>2. IInv /\ OneEnvironment /\ Drained /\ [Next]_vars /\ [env # NoCall => env' = env]_vars
        => [Promise!Next]_(Promise!vars)
  <2>1. UNCHANGED vars => env' = env
    BY DEF vars, experimentVars
  <2> QED
    BY <2>1, StepPromised, PromiseReads
<1> QED
  BY <1>1, <1>2, Invariance, EnvironmentIsShared, DrainedAlways, PTL
     DEF Spec, EnvironmentIsSetOnce, KeepsPromise, Promise!Spec

\* In particular a run of one call at a time keeps it, with no further hypothesis.
THEOREM OneCallKeepsPromise ==
  ASSUME Sized, ~GraceMayExpire, MaxParallel = 1
  PROVE  Spec => KeepsPromise /\ []RecorderAccepts /\ []VerifiedIsBacked /\ []NoSessionOutlivesRun
  BY OneCallSetsOnce, RunKeepsPromise, RecorderNeverRefuses, VerificationIsBacked,
     NoSessionIsLeft, PTL
------------------------------------------------------------------------------
(* The call limiter, for every finite set of requests and every limit, with *)
(* newcomers at any moment, also between the hand-over of a slot and the    *)
(* start of the call it was handed to.                                      *)

\* The queue holds waiting requests, each once.
QueueIsWaiting ==
  /\ \A i \in 1..Len(limiter.waiting) :
       limiter.standing[limiter.waiting[i]] = "waiting"
  /\ \A i, j \in 1..Len(limiter.waiting) :
       limiter.waiting[i] = limiter.waiting[j] => i = j

SlotsInv == limiter \in Limiter /\ QueueIsWaiting /\ SlotsAreCounted
------------------------------------------------------------------------------
\* The first request and the queue without it.
LEMMA HeadAndTail ==
  ASSUME NEW q \in Seq(Requests), q # <<>>
  PROVE  /\ Head(q) \in Requests
         /\ Head(q) = q[1]
         /\ 1 \in 1..Len(q)
         /\ Tail(q) \in Seq(Requests)
         /\ Len(Tail(q)) = Len(q) - 1
         /\ \A i \in 1..Len(Tail(q)) : Tail(q)[i] = q[i + 1] /\ i + 1 \in 1..Len(q)
  OBVIOUS

\* The requests that hold a slot are finitely many.
LEMMA HoldingIsFinite ==
  ASSUME NEW l \in Limiter
  PROVE  IsFiniteSet(Holding(l)) /\ Cardinality(Holding(l)) \in Nat
<1>1. Holding(l) \subseteq Requests
  BY DEF Holding
<1> QED
  BY <1>1, FS_Subset, FS_CardinalityType, LimiterAssumption

\* Nobody holds a slot of a new limiter.
LEMMA NewLimiterFits == LimiterInit => SlotsInv
<1> SUFFICES ASSUME LimiterInit PROVE SlotsInv
  OBVIOUS
<1>1. limiter \in Limiter
  BY DEF LimiterInit, NewLimiter, Limiter, Standing
<1>2. Holding(limiter) = {}
  BY DEF Holding, LimiterInit, NewLimiter
<1>3. Cardinality(Holding(limiter)) = 0
  BY <1>2, FS_EmptySet
<1> QED
  BY <1>1, <1>3, LimiterAssumption
     DEF SlotsInv, QueueIsWaiting, SlotsAreCounted, LimiterInit, NewLimiter

\* A request that enters takes a free slot or the last place in the queue.
LEMMA EnterFits ==
  ASSUME SlotsInv, NEW r \in Requests, limiter.standing[r] = "idle",
         limiter' = Enter(limiter, r)
  PROVE  SlotsInv'
<1> DEFINE l == limiter
<1>1. l \in Limiter /\ IsFiniteSet(Holding(l)) /\ Cardinality(Holding(l)) \in Nat
  BY HoldingIsFinite DEF SlotsInv
<1>2. CASE l.inFlight < Limit
  <2>1. /\ limiter'.inFlight = l.inFlight + 1
        /\ limiter'.waiting = l.waiting
        /\ limiter'.standing = [l.standing EXCEPT ![r] = "running"]
        /\ limiter' \in Limiter
    <3>1. limiter' = [l EXCEPT !.inFlight = @ + 1, !.standing[r] = "running"]
      BY <1>2 DEF Enter
    <3>2. limiter' = [inFlight |-> l.inFlight + 1, waiting |-> l.waiting,
                      standing |-> [l.standing EXCEPT ![r] = "running"]]
      BY <1>1, <3>1 DEF Limiter
    <3> QED
      BY <1>1, <3>2 DEF Limiter, Standing
  <2>2. Holding(limiter)' = Holding(l) \cup {r} /\ r \notin Holding(l)
    BY <1>1, <2>1 DEF Holding, Limiter
  <2>3. Cardinality(Holding(limiter)') = Cardinality(Holding(l)) + 1
    BY <1>1, <2>2, FS_AddElement
  <2>4. l.waiting = <<>>
    BY <1>1, <1>2 DEF SlotsInv, SlotsAreCounted
  <2>5. QueueIsWaiting'
    BY <2>1, <2>4 DEF QueueIsWaiting
  <2>6. SlotsAreCounted'
    BY <1>1, <1>2, <2>1, <2>3, <2>4, LimiterAssumption DEF SlotsInv, SlotsAreCounted, Limiter
  <2> QED
    BY <2>1, <2>5, <2>6 DEF SlotsInv
<1>3. CASE ~(l.inFlight < Limit)
  <2>1. /\ limiter'.inFlight = l.inFlight
        /\ limiter'.waiting = Append(l.waiting, r)
        /\ limiter'.standing = [l.standing EXCEPT ![r] = "waiting"]
        /\ limiter' \in Limiter
    <3>1. limiter' = [l EXCEPT !.waiting = Append(@, r), !.standing[r] = "waiting"]
      BY <1>3 DEF Enter
    <3>2. limiter' = [inFlight |-> l.inFlight, waiting |-> Append(l.waiting, r),
                      standing |-> [l.standing EXCEPT ![r] = "waiting"]]
      BY <1>1, <3>1 DEF Limiter
    <3> QED
      BY <1>1, <3>2 DEF Limiter, Standing
  <2>2. Holding(limiter)' = Holding(l)
    BY <1>1, <2>1 DEF Holding, Limiter
  <2>3. l.waiting \in Seq(Requests) /\ \A i \in 1..Len(l.waiting) : l.waiting[i] # r
    BY <1>1 DEF SlotsInv, QueueIsWaiting, Limiter
  <2>4. /\ Len(limiter'.waiting) = Len(l.waiting) + 1
        /\ limiter'.waiting[Len(l.waiting) + 1] = r
        /\ \A i \in 1..Len(l.waiting) : limiter'.waiting[i] = l.waiting[i]
    BY <2>1, <2>3
  <2>5. QueueIsWaiting'
    <3>1. \A i \in 1..Len(limiter'.waiting) :
            i \in 1..Len(l.waiting) \/ i = Len(l.waiting) + 1
      BY <2>3, <2>4
    <3>2. \A i \in 1..Len(l.waiting) : l.waiting[i] \in Requests
      BY <2>3
    <3>3. \A i \in 1..Len(limiter'.waiting) :
            limiter'.standing[limiter'.waiting[i]] = "waiting"
      BY <1>1, <2>1, <2>3, <2>4, <3>1, <3>2 DEF SlotsInv, QueueIsWaiting, Limiter
    <3>4. \A i, j \in 1..Len(limiter'.waiting) :
            limiter'.waiting[i] = limiter'.waiting[j] => i = j
      BY <2>3, <2>4, <3>1, SMTT(60) DEF SlotsInv, QueueIsWaiting
    <3> QED
      BY <3>3, <3>4 DEF QueueIsWaiting
  <2>6. SlotsAreCounted'
    BY <1>1, <1>3, <2>1, <2>2, LimiterAssumption DEF SlotsInv, SlotsAreCounted, Limiter
  <2> QED
    BY <2>1, <2>5, <2>6 DEF SlotsInv
<1> QED
  BY <1>2, <1>3

\* A call that starts in the slot it was handed holds the same slot.
LEMMA ResumeFits ==
  ASSUME SlotsInv, NEW r \in Requests, limiter.standing[r] = "handed",
         limiter' = Resume(limiter, r)
  PROVE  SlotsInv'
<1> DEFINE l == limiter
<1>1. /\ limiter'.inFlight = l.inFlight
      /\ limiter'.waiting = l.waiting
      /\ limiter'.standing = [l.standing EXCEPT ![r] = "running"]
      /\ limiter' \in Limiter
  BY DEF SlotsInv, Resume, Limiter, Standing
<1>2. Holding(limiter)' = Holding(l)
  BY <1>1 DEF SlotsInv, Holding, Limiter
<1>3. QueueIsWaiting'
  BY <1>1 DEF SlotsInv, QueueIsWaiting, Limiter
<1>4. SlotsAreCounted'
  BY <1>1, <1>2 DEF SlotsInv, SlotsAreCounted
<1> QED
  BY <1>1, <1>3, <1>4 DEF SlotsInv

\* A call that settles frees its slot, or hands it to the head of the queue,
\* which holds it from then on although it does not run yet.
LEMMA LeaveFits ==
  ASSUME SlotsInv, NEW r \in Requests, limiter.standing[r] = "running",
         limiter' = Leave(limiter, r)
  PROVE  SlotsInv'
<1> DEFINE l == limiter
<1>1. /\ l \in Limiter /\ l.waiting \in Seq(Requests) /\ l.inFlight \in Nat
      /\ IsFiniteSet(Holding(l)) /\ Cardinality(Holding(l)) \in Nat
  BY HoldingIsFinite DEF SlotsInv, Limiter
<1>2. r \in Holding(l)
  BY DEF Holding
<1>3. l.inFlight = Cardinality(Holding(l)) /\ l.inFlight <= Limit
  BY DEF SlotsInv, SlotsAreCounted
<1>4. /\ IsFiniteSet(Holding(l) \ {r})
      /\ Cardinality(Holding(l) \ {r}) = Cardinality(Holding(l)) - 1
  BY <1>1, <1>2, FS_RemoveElement
<1>5. l.inFlight >= 1
  BY <1>1, <1>3, <1>4, FS_CardinalityType
<1>6. CASE l.waiting = <<>>
  <2>1. /\ limiter'.inFlight = l.inFlight - 1
        /\ limiter'.waiting = <<>>
        /\ limiter'.standing = [l.standing EXCEPT ![r] = "done"]
        /\ limiter' \in Limiter
    <3>1. limiter' = [l EXCEPT !.inFlight = @ - 1, !.standing[r] = "done"]
      BY <1>6 DEF Leave
    <3>2. limiter' = [inFlight |-> l.inFlight - 1, waiting |-> <<>>,
                      standing |-> [l.standing EXCEPT ![r] = "done"]]
      BY <1>1, <1>6, <3>1 DEF Limiter
    <3> QED
      BY <1>1, <1>5, <3>2 DEF Limiter, Standing
  <2>2. Holding(limiter)' = Holding(l) \ {r}
    BY <1>1, <2>1 DEF Holding, Limiter
  <2>3. QueueIsWaiting'
    BY <2>1 DEF QueueIsWaiting
  <2>4. SlotsAreCounted'
    BY <1>1, <1>3, <1>4, <2>1, <2>2, LimiterAssumption DEF SlotsAreCounted
  <2> QED
    BY <2>1, <2>3, <2>4 DEF SlotsInv
<1>7. CASE l.waiting # <<>>
  <2> DEFINE h == Head(l.waiting)
  <2>1. /\ h \in Requests
        /\ l.standing[h] = "waiting"
        /\ h # r
        /\ h \notin Holding(l)
    BY <1>1, <1>7, HeadAndTail DEF SlotsInv, QueueIsWaiting, Holding
  <2>2. /\ limiter'.inFlight = l.inFlight
        /\ limiter'.waiting = Tail(l.waiting)
        /\ limiter'.standing =
             [l.standing EXCEPT ![r] = "done", ![h] = "handed"]
        /\ limiter' \in Limiter
    BY <1>1, <1>7, <2>1, HeadAndTail DEF Leave, Limiter, Standing
  <2>3. Holding(limiter)' = (Holding(l) \ {r}) \cup {h}
    BY <1>1, <2>1, <2>2 DEF Holding, Limiter
  <2>4. Cardinality(Holding(limiter)') = Cardinality(Holding(l))
    <3> DEFINE S == Holding(l) \ {r}
    <3>1. IsFiniteSet(S) /\ h \notin S
      BY <1>4, <2>1
    <3>2. Cardinality(S \cup {h}) = Cardinality(S) + 1
      BY <3>1, FS_AddElement
    <3> QED
      BY <1>1, <1>4, <2>3, <3>2
  <2>5. \A i \in 1..Len(Tail(l.waiting)) :
          /\ Tail(l.waiting)[i] = l.waiting[i + 1]
          /\ i + 1 \in 1..Len(l.waiting)
          /\ l.waiting[i + 1] \in Requests
          /\ l.waiting[i + 1] # h
          /\ l.waiting[i + 1] # r
    BY <1>1, <1>7, HeadAndTail DEF SlotsInv, QueueIsWaiting
  <2>6. QueueIsWaiting'
    BY <1>1, <2>1, <2>2, <2>5 DEF SlotsInv, QueueIsWaiting, Limiter
  <2>7. l.inFlight = Limit
    BY <1>7 DEF SlotsInv, SlotsAreCounted
  <2>8. SlotsAreCounted'
    BY <1>3, <2>2, <2>4, <2>7, LimiterAssumption DEF SlotsAreCounted
  <2> QED
    BY <2>2, <2>6, <2>8 DEF SlotsInv
<1> QED
  BY <1>6, <1>7
------------------------------------------------------------------------------
\* Whatever the order in which requests enter, start and settle, every slot in
\* use has exactly one holder, the limit is kept, and nobody queues beside a
\* free slot (createCallLimiter).
THEOREM SlotsCounted == LimiterSpec => []SlotsAreCounted
<1>1. LimiterInit => SlotsInv
  BY NewLimiterFits
<1>2. SlotsInv /\ [LimiterNext]_limiter => SlotsInv'
  <2> SUFFICES ASSUME SlotsInv, [LimiterNext]_limiter PROVE SlotsInv'
    OBVIOUS
  <2>1. CASE LimiterNext
    BY <2>1, EnterFits, ResumeFits, LeaveFits DEF LimiterNext
  <2>2. CASE UNCHANGED limiter
    BY <2>2 DEF SlotsInv, QueueIsWaiting, SlotsAreCounted, Holding
  <2> QED
    BY <2>1, <2>2
<1>3. SlotsInv => SlotsAreCounted
  BY DEF SlotsInv
<1> QED
  BY <1>1, <1>2, <1>3, PTL DEF LimiterSpec
------------------------------------------------------------------------------
(* The visual review, wherever it stands *)

\* What is known of a review: it has concluded nothing before it ends, its
\* synthesis is whole only over inventories that were covered, and a verified
\* review was seen to be right.
ReviewStands ==
  /\ stage \in {"none", "inventory", "synthesis", "ended"}
  /\ inventory \in [before : Nat, after : Nat, covered : BOOLEAN]
  /\ synthesis \in [whole : BOOLEAN, audited : BOOLEAN]
  /\ stage # "ended" => conclusion.verdict = "none"
  /\ stage \in {"none", "inventory"} => ~synthesis.whole
  /\ synthesis.whole => inventory.covered
  /\ VerifiedIsSeen

\* A review that has ended keeps what it concluded.
Concluded == stage = "ended" => stage' = "ended" /\ conclusion' = conclusion

\* The values a review starts with and falls back to.
LEMMA NothingKnown ==
  /\ NothingSeen \in [before : Nat, after : Nat, covered : BOOLEAN]
  /\ \A captured \in BOOLEAN : [NothingSeen EXCEPT !.covered = captured]
                                 \in [before : Nat, after : Nat, covered : BOOLEAN]
  /\ Unsynthesized \in [whole : BOOLEAN, audited : BOOLEAN] /\ ~Unsynthesized.whole
  /\ \A whole \in BOOLEAN :
       /\ [Unsynthesized EXCEPT !.whole = whole] \in [whole : BOOLEAN, audited : BOOLEAN]
       /\ [Unsynthesized EXCEPT !.whole = whole].whole = whole
  BY DEF NothingSeen, Unsynthesized

\* Every request of a review is about one of its two states.
LEMMA RequestsHaveStates == \A r \in Requests : r[1] \in States
<1> DEFINE Asked == States \X {"tiles", "viewport", "full"} \X Nat
<1>1. TileBatches \in Nat /\ Requests = ToSet(Enqueued)
  BY ReviewAssumption DEF ReviewRequests
<1>2. \A s \in States : Tiles(s) \in Seq(Asked)
  <2> SUFFICES ASSUME NEW s \in States PROVE Tiles(s) \in Seq(Asked)
    OBVIOUS
  <2>1. \A i \in 1..TileBatches : <<s, "tiles", i>> \in Asked
    BY <1>1
  <2>2. Tiles(s) \in [1..TileBatches -> Asked]
    BY <2>1 DEF Tiles
  <2> HIDE DEF Asked
  <2> QED
    BY <1>1, <2>2
<1>3. << <<"before", "viewport", 1>>, <<"before", "full", 1>>,
         <<"after", "viewport", 1>>, <<"after", "full", 1>> >> \in Seq(Asked)
  <2>1. /\ <<"before", "viewport", 1>> \in Asked /\ <<"before", "full", 1>> \in Asked
        /\ <<"after", "viewport", 1>> \in Asked /\ <<"after", "full", 1>> \in Asked
    BY DEF States
  <2> HIDE DEF Asked
  <2> QED
    BY <2>1
<1>4. Enqueued \in Seq(Asked)
  <2>1. "before" \in States /\ "after" \in States
    BY DEF States
  <2> HIDE DEF Asked
  <2> QED
    BY <1>2, <1>3, <2>1 DEF Enqueued
<1>5. \A r \in Requests : r \in Asked
  <2> HIDE DEF Asked
  <2> QED
    BY <1>1, <1>4 DEF ToSet
<1> QED
  BY <1>5

\* An answer adds to what was seen of its state.
LEMMA MergedFits ==
  ASSUME inventory \in [before : Nat, after : Nat, covered : BOOLEAN],
         NEW r \in Requests, NEW n \in Nat, NEW covered \in BOOLEAN
  PROVE  Merged(r, n, covered) \in [before : Nat, after : Nat, covered : BOOLEAN]
<1>1. \A m \in Nat : CountUpTo(m) \in Nat
  BY ReviewAssumption DEF CountUpTo
<1>2. r[1] \in {"before", "after"}
  BY RequestsHaveStates DEF States
<1>3. CountUpTo(inventory.before + n) \in Nat /\ CountUpTo(inventory.after + n) \in Nat
  BY <1>1
<1>4. CASE r[1] = "before"
  <2>1. Merged(r, n, covered) = [before |-> CountUpTo(inventory.before + n),
                                 after |-> inventory.after,
                                 covered |-> inventory.covered /\ covered]
    <3>1. Merged(r, n, covered) =
            [inventory EXCEPT !["before"] = CountUpTo(@ + n), !.covered = @ /\ covered]
      BY <1>4 DEF Merged
    <3> QED
      BY <3>1
  <2> QED
    BY <1>3, <2>1
<1>5. CASE r[1] = "after"
  <2>1. Merged(r, n, covered) = [before |-> inventory.before,
                                 after |-> CountUpTo(inventory.after + n),
                                 covered |-> inventory.covered /\ covered]
    <3>1. Merged(r, n, covered) =
            [inventory EXCEPT !["after"] = CountUpTo(@ + n), !.covered = @ /\ covered]
      BY <1>5 DEF Merged
    <3> QED
      BY <3>1
  <2> QED
    BY <1>3, <2>1
<1> QED
  BY <1>2, <1>4, <1>5

\* A review that fails is verified, if at all, by the requests of the page.
LEMMA FailureStands == FailReview => ReviewStands' /\ stage' = "ended"
<1> SUFFICES ASSUME FailReview PROVE ReviewStands' /\ stage' = "ended"
  OBVIOUS
<1>1. inventory' = NothingSeen /\ synthesis' = Unsynthesized /\ Conclude(Unseen, TRUE)
  BY DEF FailReview
<1>2. PICK network \in Networks :
        /\ stage' = "ended"
        /\ conclusion' = [verdict |-> Derived(Unseen, network), failed |-> TRUE,
                          byRequests |-> DecidedByRequests(Unseen, network)]
  BY <1>1 DEF Conclude
<1>3. ~ProvesCandidate(Unseen, network)
  BY DEF ProvesCandidate, Unseen
<1>4. Derived(Unseen, network) = "verified" => DecidedByRequests(Unseen, network)
  BY <1>3 DEF Derived
<1>5. VerifiedIsSeen'
  BY <1>2, <1>4 DEF VerifiedIsSeen
<1> QED
  BY <1>1, <1>2, <1>5, NothingKnown DEF ReviewStands

\* What a verified answer of the synthesis shows.
LEMMA VerifiedAnswer ==
  ASSUME ReviewStands, NEW o \in Outputs, NEW network \in Networks,
         Derived(o, network) = "verified", ~DecidedByRequests(o, network), ~Dismisses(o)
  PROVE  inventory.covered /\ inventory.before > 0 /\ (inventory.after > 0 => synthesis.audited)
<1>1. /\ o.coverage \in {FALSE, synthesis.whole}
      /\ o.kept \in 0..inventory.before /\ o.remaining \in 0..inventory.after
  BY DEF Outputs
<1>2. inventory.before \in Nat /\ inventory.after \in Nat
  BY DEF ReviewStands
<1>3. ~FailsCandidate(o, network) /\ ProvesCandidate(o, network)
  BY DEF Derived
<1>4. ~(o.remaining > 0) /\ o.coverage /\ o.kept > 0
  BY <1>3 DEF FailsCandidate, ProvesCandidate
<1>5. synthesis.whole
  BY <1>1, <1>4
<1>6. inventory.after > 0 => o.remaining < inventory.after
  BY <1>1, <1>2, <1>4
<1> QED
  BY <1>1, <1>2, <1>4, <1>5, <1>6 DEF ReviewStands, Dismisses

\* A step that leaves what was seen and concluded alone.
LEMMA ReviewRests ==
  ASSUME ReviewStands, UNCHANGED <<stage, inventory, synthesis, conclusion>>
  PROVE  ReviewStands' /\ Concluded
  BY DEF ReviewStands, VerifiedIsSeen, Concluded

\* The review begins.
LEMMA BeginStands == ReviewStands /\ BeginReview => ReviewStands' /\ Concluded
<1> SUFFICES ASSUME ReviewStands, BeginReview PROVE ReviewStands' /\ Concluded
  OBVIOUS
<1>1. stage = "none" /\ conclusion.verdict = "none" /\ ~synthesis.whole
  BY DEF BeginReview, ReviewStands
<1>2. CASE FailReview
  BY <1>1, <1>2, FailureStands DEF Concluded
<1>3. CASE ~FailReview
  <2>1. /\ stage' = "inventory" /\ UNCHANGED <<synthesis, conclusion>>
        /\ \E captured \in BOOLEAN : inventory' = [NothingSeen EXCEPT !.covered = captured]
    BY <1>3 DEF BeginReview
  <2>2. inventory' \in [before : Nat, after : Nat, covered : BOOLEAN]
    BY <2>1, NothingKnown
  <2> QED
    BY <1>1, <2>1, <2>2 DEF ReviewStands, Concluded, VerifiedIsSeen
<1> QED
  BY <1>2, <1>3

\* An inventory comes in, for a review that waits for it or for nobody.
LEMMA InventoryStands ==
  ASSUME ReviewStands, NEW r \in Requests, Inventoried(r) \/ InventoryThrows(r)
  PROVE  ReviewStands' /\ Concluded
<1>1. CASE Orphaned
  BY <1>1, ReviewRests DEF Orphaned
<1>2. CASE stage = "inventory" /\ FailReview
  BY <1>2, FailureStands DEF Concluded
<1>3. ASSUME stage = "inventory", NEW n \in 0..MaxObservations, NEW covered \in BOOLEAN,
             Proceeds(r, n, covered)
      PROVE  ReviewStands' /\ Concluded
  <2>1. CASE FailReview
    BY <1>3, <2>1, FailureStands DEF Concluded
  <2>2. CASE ~FailReview
    <3>1. PICK untruncated \in BOOLEAN :
            /\ stage' = "synthesis" /\ inventory' = Merged(r, n, covered)
            /\ synthesis' = [Unsynthesized EXCEPT !.whole = untruncated /\ inventory'.covered]
            /\ UNCHANGED conclusion
      BY <1>3, <2>2 DEF Proceeds
    <3>2. inventory' \in [before : Nat, after : Nat, covered : BOOLEAN]
      BY <1>3, <3>1, MergedFits DEF ReviewStands
    <3>3. /\ synthesis' \in [whole : BOOLEAN, audited : BOOLEAN]
          /\ synthesis'.whole = (untruncated /\ inventory'.covered)
      BY <3>1, NothingKnown
    <3> QED
      BY <1>3, <3>1, <3>2, <3>3 DEF ReviewStands, Concluded, VerifiedIsSeen
  <2> QED
    BY <2>1, <2>2
<1>4. ASSUME stage = "inventory", NEW n \in 0..MaxObservations, NEW covered \in BOOLEAN,
             inventory' = Merged(r, n, covered), UNCHANGED <<stage, synthesis, conclusion>>
      PROVE  ReviewStands' /\ Concluded
  <2>1. inventory' \in [before : Nat, after : Nat, covered : BOOLEAN]
    BY <1>4, MergedFits DEF ReviewStands
  <2> QED
    BY <1>4, <2>1 DEF ReviewStands, Concluded, VerifiedIsSeen
<1>5. CASE Inventoried(r)
  <2>1. \/ Orphaned
        \/ /\ stage = "inventory"
           /\ \E n \in 0..MaxObservations, covered \in BOOLEAN :
                \/ Proceeds(r, n, covered)
                \/ inventory' = Merged(r, n, covered) /\ UNCHANGED <<stage, synthesis, conclusion>>
    BY <1>5 DEF Inventoried
  <2> QED
    BY <1>1, <1>3, <1>4, <2>1
<1>6. CASE InventoryThrows(r)
  BY <1>1, <1>2, <1>6 DEF InventoryThrows
<1> QED
  BY <1>5, <1>6

\* The synthesis answers or fails.
LEMMA SynthesisStands ==
  ASSUME ReviewStands, (\E o \in Outputs : Synthesized(o)) \/ SynthesisThrows
  PROVE  ReviewStands' /\ Concluded
<1>1. stage = "synthesis"
  BY DEF Synthesized, SynthesisThrows, MayAnswer, MayGiveUp, Busy
<1>2. CASE FailReview
  BY <1>1, <1>2, FailureStands DEF Concluded
<1>3. ASSUME NEW o \in Outputs, ~Dismisses(o), Conclude(o, FALSE), UNCHANGED <<inventory, synthesis>>
      PROVE  ReviewStands' /\ Concluded
  <2>1. PICK network \in Networks :
          /\ stage' = "ended"
          /\ conclusion' = [verdict |-> Derived(o, network), failed |-> FALSE,
                            byRequests |-> DecidedByRequests(o, network)]
    BY <1>3 DEF Conclude
  <2>2. VerifiedIsSeen'
    BY <1>3, <2>1, VerifiedAnswer DEF VerifiedIsSeen
  <2> QED
    BY <1>1, <1>3, <2>1, <2>2 DEF ReviewStands, Concluded
<1>4. ASSUME synthesis' = [synthesis EXCEPT !.audited = TRUE],
             UNCHANGED <<stage, inventory, conclusion>>
      PROVE  ReviewStands' /\ Concluded
  <2>1. /\ synthesis' \in [whole : BOOLEAN, audited : BOOLEAN]
        /\ synthesis'.whole = synthesis.whole
    BY <1>4 DEF ReviewStands
  <2> QED
    BY <1>1, <1>4, <2>1 DEF ReviewStands, Concluded, VerifiedIsSeen
<1>5. CASE SynthesisThrows
  BY <1>2, <1>5 DEF SynthesisThrows
<1>6. ASSUME NEW o \in Outputs, Synthesized(o) PROVE ReviewStands' /\ Concluded
  BY <1>2, <1>3, <1>4, <1>6 DEF Synthesized
<1> QED
  BY <1>5, <1>6

\* Every step of the review keeps what is known of it, and leaves the signal alone.
LEMMA ReviewGoesOn ==
  ASSUME ReviewStands,
         BeginReview \/ (\E r \in Requests : RequestStep(r)) \/ SynthesisStep
  PROVE  ReviewStands' /\ Concluded /\ UNCHANGED aborted
<1>1. ASSUME NEW k, Retry(k) \/ Resend(k) \/ Repair(k)
      PROVE  ReviewStands' /\ Concluded /\ UNCHANGED aborted
  BY <1>1, ReviewRests DEF Retry, Resend, Repair
<1>2. CASE BeginReview
  BY <1>2, BeginStands DEF BeginReview
<1>3. ASSUME NEW r \in Requests, RequestStep(r)
      PROVE  ReviewStands' /\ Concluded /\ UNCHANGED aborted
  <2>1. CASE Inventoried(r) \/ InventoryThrows(r)
    BY <2>1, InventoryStands DEF Inventoried, InventoryThrows
  <2> QED
    BY <1>1, <1>3, <2>1 DEF RequestStep
<1>4. CASE SynthesisStep
  <2>1. CASE (\E o \in Outputs : Synthesized(o)) \/ SynthesisThrows
    BY <2>1, SynthesisStands DEF Synthesized, SynthesisThrows
  <2> QED
    BY <1>1, <1>4, <2>1 DEF SynthesisStep
<1> QED
  BY <1>2, <1>3, <1>4

\* So does the signal of the caller.
LEMMA AbortStands == ReviewStands /\ Abort => ReviewStands' /\ Concluded
<1> SUFFICES ASSUME ReviewStands, Abort PROVE ReviewStands' /\ Concluded
  OBVIOUS
<1>1. UNCHANGED <<stage, conclusion>>
  BY DEF Abort
<1>2. CASE stage = "ended"
  BY <1>1, <1>2, ReviewRests DEF Abort
<1>3. CASE stage # "ended"
  <2>1. inventory' = NothingSeen /\ synthesis' = Unsynthesized
    BY <1>3 DEF Abort
  <2> QED
    BY <1>1, <1>3, <2>1, NothingKnown DEF ReviewStands, Concluded, VerifiedIsSeen
<1> QED
  BY <1>2, <1>3
------------------------------------------------------------------------------
(* The experiment that waits for the review *)

\* Only an observation completes a phase, and only the phase in hand.
Completes(c) ==
  \A x \in Calls, p \in Phase :
    rec'[x].entry[<<c, p>>] \in Completion =>
      \/ rec'[x].entry[<<c, p>>] = rec[x].entry[<<c, p>>]
      \/ call[c].at = "observing" /\ x = call[c].env /\ p = call[c].phase

\* A call takes over no candidate but by evidence of its own.
Accepts(c) ==
  \A r \in Candidates : accepted'[r] = accepted[r] \/ accepted'[r] = NoCall
                        \/ (accepted'[r] = c /\ Shown(c))

\* What the steps of a call say of the completion of its phases.
LEMMA StepCompletes ==
  ASSUME TypeOK, NEW c \in Calls, CallInv(c), CallStep(c) \/ Timer(c) \/ StartStep(c)
  PROVE  Completes(c)
<1>1. CallStands(c) /\ (Walking(c) => call[c].env # NoCall)
  BY DEF CallInv, CallStands
<1>2. "none" \notin Completion /\ "issued" \notin Completion /\ "bound" \notin Completion
  BY DEF Completion, Observed
<1>3. ASSUME UNCHANGED rec PROVE Completes(c)
  BY <1>3 DEF Completes
<1>4. ASSUME NEW v, Records(c, v), call[c].env # NoCall,
             v \notin Completion \/ call[c].at = "observing"
      PROVE  Completes(c)
  <2>1. \A x \in Calls, p \in Phase :
          rec'[x].entry[<<c, p>>] =
            IF x = call[c].env /\ p = call[c].phase THEN v ELSE rec[x].entry[<<c, p>>]
    BY <1>4, OwnEntries
  <2> QED
    BY <1>4, <2>1 DEF Completes
<1>5. ASSUME NEW ready \in BOOLEAN, Prepared(c, ready) PROVE Completes(c)
  <2>1. rec \in [Calls -> Recorder] /\ rec' = [rec EXCEPT ![c] = RegisterAdapter(@)]
    BY <1>5 DEF TypeOK, Prepared
  <2>2. \A x \in Calls : rec'[x].entry = rec[x].entry
    BY <2>1 DEF RegisterAdapter, Recorder
  <2> QED
    BY <2>2 DEF Completes
<1>6. CASE \/ StartStep(c) \/ Capture(c) \/ Unpreparable(c) \/ UnsupportedOperation(c)
           \/ ConfigurationThrows(c) \/ OpenFails(c) \/ RelaunchFails(c) \/ CloseThrows(c)
           \/ Relaunch(c) \/ GraceExpires(c) \/ CloseReturns(c)
           \/ (Expire(c) /\ call[c].at # "observing")
  BY <1>3, <1>6 DEF StartStep, Start, Capture, Unpreparable, UnsupportedOperation, Return,
                    ConfigurationThrows, OpenFails, RelaunchFails, CloseThrows, Relaunch,
                    GraceExpires, CloseReturns, Expire
<1>7. CASE BeginPhaseOf(c)
  <2>1. Begun(c) /\ call[c].env # NoCall
    BY <1>1, <1>7, PhaseWrites DEF BeginPhaseOf, Walking
  <2> QED
    BY <1>2, <1>3, <1>4, <2>1 DEF Begun
<1>8. CASE SessionCreated(c)
  <2>1. Created(c) /\ call[c].env # NoCall
    BY <1>1, <1>8, PhaseWrites DEF SessionCreated, Walking
  <2> QED
    BY <1>2, <1>3, <1>4, <2>1 DEF Created
<1>9. ASSUME NEW applied \in BOOLEAN, Configured(c, applied) PROVE Completes(c)
  <2>1. Configures(c) /\ call[c].env # NoCall
    BY <1>1, <1>9, PhaseWrites DEF Configured, Walking
  <2> QED
    BY <1>2, <1>3, <1>4, <2>1 DEF Configures
<1>10. CASE (\E k \in Completion : Observe(c, k)) \/ (Expire(c) /\ call[c].at = "observing")
  <2>1. call[c].at = "observing"
    BY <1>10 DEF Observe
  <2>2. Observes(c) /\ call[c].env # NoCall
    BY <1>1, <1>10, <2>1, PhaseWrites DEF Walking
  <2> QED
    BY <1>4, <2>1, <2>2 DEF Observes
<1> QED
  BY <1>5, <1>6, <1>7, <1>8, <1>9, <1>10 DEF CallStep, Timer

\* What the end of a phase says of the candidates that are accepted.
LEMMA AfterAccepts ==
  ASSUME TypeOK, NEW c \in Calls, CallInv(c), call[c].at = "closing",
         NEW thrown \in BOOLEAN, AfterPhase(c, thrown)
  PROVE  Accepts(c)
<1>1. /\ call[c].phase \in {"A", "B", "C"} /\ call[c].env # NoCall /\ LedgerFollows(c)
      /\ Walking(c)
  BY Fields DEF CallInv, CallStands, Walking, Phase
<1>2. accepted \in [Candidates -> Calls \cup {NoCall}]
  BY DEF TypeOK
<1>3. ASSUME UNCHANGED accepted PROVE Accepts(c)
  BY <1>3 DEF Accepts
<1>4. CASE call[c].phase = "C" /\ EntryOf(c) = "positive" /\ Judge(c, TRUE)
  <2>1. /\ rec[call[c].env].entry[<<c, "C">>] = "positive"
        /\ rec[call[c].env].entry[<<c, "B">>] = "positive"
    BY <1>1, <1>4 DEF EntryOf, Record, TokenOf, LedgerFollows
  <2>2. rec[call[c].env].entry[<<c, "A">>] \in Observed
    BY <1>1, <2>1 DEF LedgerFollows, Observed
  <2>3. Shown(c)
    BY <1>1, <2>1, <2>2 DEF Shown, Backed
  <2> QED
    BY <1>2, <1>4, <2>3 DEF Judge, Accepts
<1>5. CASE Judge(c, FALSE)
  BY <1>2, <1>5 DEF Judge, Accepts
<1> DEFINE stops == EntryOf(c) = "issued" \/ thrown
<1>6. EntryOf(c) \in {"positive", "negative", "failed", "issued"}
  BY DEF CallInv, CallStands, Completion, Observed
<1>7. CASE stops
  BY <1>3, <1>7 DEF AfterPhase, SettleUnjudged
<1>8. CASE ~stops /\ (call[c].phase = "A" \/ (call[c].phase = "B" /\ EntryOf(c) = "positive"))
  BY <1>3, <1>8 DEF AfterPhase, Proceed
<1>9. CASE /\ ~stops
           /\ \/ call[c].phase = "B" /\ EntryOf(c) # "positive"
              \/ call[c].phase = "C" /\ EntryOf(c) = "failed"
  BY <1>3, <1>9 DEF AfterPhase, SettleUnjudged
<1>10. CASE ~stops /\ call[c].phase = "C" /\ EntryOf(c) = "positive"
  BY <1>4, <1>10 DEF AfterPhase
<1>11. CASE ~stops /\ call[c].phase = "C" /\ EntryOf(c) = "negative"
  BY <1>5, <1>11 DEF AfterPhase
<1>12. ~stops => EntryOf(c) # "issued"
  OBVIOUS
<1> HIDE DEF stops
<1> QED
  BY <1>1, <1>6, <1>7, <1>8, <1>9, <1>10, <1>11, <1>12

\* And what every step says of them.
LEMMA StepAccepts ==
  ASSUME TypeOK, NEW c \in Calls, CallInv(c), CallStep(c) \/ Timer(c) \/ StartStep(c)
  PROVE  Accepts(c)
<1>1. ASSUME UNCHANGED accepted PROVE Accepts(c)
  BY <1>1 DEF Accepts
<1>2. CASE CloseReturns(c)
  <2>1. call[c].at = "closing" /\ \E thrown \in BOOLEAN : AfterPhase(c, thrown)
    BY <1>2 DEF CloseReturns
  <2> QED
    BY <2>1, AfterAccepts
<1>3. CASE StartStep(c) \/ Capture(c) \/ Unpreparable(c) \/ Relaunch(c) \/ Timer(c)
           \/ UnsupportedOperation(c) \/ ConfigurationThrows(c)
           \/ \E ready \in BOOLEAN : Prepared(c, ready)
  BY <1>1, <1>3 DEF StartStep, Start, Capture, Unpreparable, Relaunch, Timer, Expire,
                    GraceExpires, UnsupportedOperation, ConfigurationThrows, Return, Prepared
<1>4. CASE BeginPhaseOf(c) \/ SessionCreated(c)
  BY <1>1, <1>4 DEF BeginPhaseOf, SessionCreated, SettleUnjudged
<1>5. CASE OpenFails(c) \/ RelaunchFails(c) \/ CloseThrows(c)
  BY <1>1, <1>5 DEF OpenFails, RelaunchFails, CloseThrows, SettleUnjudged
<1>6. CASE (\E applied \in BOOLEAN : Configured(c, applied)) \/ (\E k \in Completion : Observe(c, k))
  BY <1>1, <1>6 DEF Configured, Observe, SettleUnjudged
<1> QED
  BY <1>2, <1>3, <1>4, <1>5, <1>6 DEF CallStep

\* The evidence of phase C of the reviewed call.
ReviewedEntry == rec[call[Reviewed].env].entry[<<Reviewed, "C">>]

\* What the review stands for in the experiment: evidence for the candidate
\* rests on a review that has ended and verified it, the deadline has cut the
\* review off only where it also failed the phase, and the candidate was
\* accepted over evidence.
ReviewBacks ==
  /\ call[Reviewed].env # NoCall /\ ReviewedEntry = "positive" =>
       stage = "ended" /\ conclusion.verdict = "verified"
  /\ aborted => call[Reviewed].env # NoCall /\ ReviewedEntry = "failed"
  /\ (\E r \in Candidates : accepted[r] = Reviewed) =>
       call[Reviewed].env # NoCall /\ ReviewedEntry = "positive"

ReviewedInv == IInv /\ ReviewStands /\ ReviewBacks

\* A step that leaves the reviewed call, its evidence and the acceptances alone
\* while the review keeps its conclusion and nobody aborts it.
LEMMA BackingRests ==
  ASSUME IInv, ReviewBacks, Concluded, UNCHANGED <<aborted, accepted>>,
         call'[Reviewed] = call[Reviewed],
         \A x \in Calls : rec'[x].entry[<<Reviewed, "C">>] = rec[x].entry[<<Reviewed, "C">>]
  PROVE  ReviewBacks'
<1>1. Reviewed \in Calls
  BY ReviewedAssumption
<1>2. call[Reviewed].env # NoCall => ReviewedEntry' = ReviewedEntry
  BY <1>1, Fields DEF IInv, ReviewedEntry
<1> QED
  BY <1>2 DEF ReviewBacks, Concluded

\* An observation of the reviewed call stays in its phase.
LEMMA ObservationStays ==
  ASSUME IInv, NEW c \in Calls, call[c].at = "observing", CallStep(c) \/ Timer(c)
  PROVE  /\ call[c].env # NoCall /\ call'[c].env = call[c].env /\ call'[c].phase = call[c].phase
         /\ Timer(c) => Expire(c) /\ Enters(call[c].env, TokenOf(c), "failed")
<1>1. TypeOK /\ CallStands(c) /\ ~Aborted(c) /\ call[c].env \in Calls /\ TokenOf(c) \in Token
      /\ call[c].env # NoCall
  BY Fields, InHand DEF IInv, CallInv, CallStands, Walking
<1>2. CASE Timer(c)
  <2>1. Expire(c)
    BY <1>1, <1>2 DEF Timer, GraceExpires, Aborted
  <2>2. "failed" \in Completion
    BY DEF Completion
  <2>3. rec' = [rec EXCEPT ![call[c].env] = CompletePhase(@, TokenOf(c), "failed", {})]
    BY <2>1 DEF Expire
  <2>4. Enters(call[c].env, TokenOf(c), "failed")
    BY <1>1, <2>2, <2>3, EntryWrites
  <2> QED
    BY <1>1, <2>1, <2>4, OtherWrites DEF Becomes
<1>3. CASE CallStep(c) /\ ~Timer(c)
  <2>1. \E k \in Completion : Observe(c, k)
    BY <1>3 DEF CallStep, Unpreparable, Prepared, Capture, UnsupportedOperation, BeginPhaseOf,
                OpenFails, SessionCreated, Relaunch, RelaunchFails, Configured,
                ConfigurationThrows, CloseReturns, CloseThrows
  <2>2. Observes(c)
    BY <1>1, <2>1, PhaseWrites
  <2> QED
    BY <1>1, <1>3, <2>2 DEF Observes, Becomes
<1> QED
  BY <1>2, <1>3

\* Steps of the reviewed call itself.
LEMMA ReviewedCallKeeps ==
  ASSUME ReviewedInv,
         \/ StartStep(Reviewed) /\ UNCHANGED reviewVars
         \/ ReviewedCallStep(Reviewed)
         \/ ReviewedTimer(Reviewed)
  PROVE  ReviewBacks'
<1> DEFINE c == Reviewed
<1>1. c \in Calls /\ IInv /\ TypeOK /\ CallInv(c) /\ LedgerFollows(c) /\ ReviewBacks
  BY ReviewedAssumption DEF ReviewedInv, IInv, CallInv
<1>2. StartStep(c) \/ CallStep(c) \/ Timer(c)
  BY DEF ReviewedCallStep, ReviewedTimer
<1>3. Settles(c) /\ Completes(c) /\ Accepts(c) /\ TypeOK'
  BY <1>1, <1>2, StepSettles, StepCompletes, StepAccepts, StepTypes DEF CallInv
<1>4. call[c].env \in Calls \cup {NoCall} /\ call'[c].env \in Calls \cup {NoCall} /\ "C" \in Phase
      /\ c # NoCall
  BY <1>1, <1>3, ExperimentAssumption DEF TypeOK, Call, Phase
<1>5. "positive" \in Completion /\ "failed" \in Completion /\ "none" \notin Completion
  BY DEF Completion, Observed
<1>6. Concluded /\ ReviewStands'
  <2>1. ReviewStands /\ (UNCHANGED reviewVars \/ Abort)
    BY DEF ReviewedCallStep, ReviewedTimer, ReviewedInv
  <2> QED
    BY <2>1, AbortStands, ReviewRests DEF reviewVars
<1>7. ASSUME call[c].env # NoCall, ReviewedEntry \in Completion
      PROVE  call'[c].env = call[c].env /\ ReviewedEntry' = ReviewedEntry
  BY <1>1, <1>3, <1>4, <1>7 DEF Settles, ReviewedEntry
<1>8. ASSUME call'[c].env # NoCall, ReviewedEntry' \in Completion
      PROVE  \/ call[c].env # NoCall /\ ReviewedEntry = ReviewedEntry'
             \/ Observing /\ call[c].env # NoCall
  <2> DEFINE x == call'[c].env
  <2>1. x \in Calls /\ rec'[x].entry[<<c, "C">>] = ReviewedEntry'
    BY <1>4, <1>8 DEF ReviewedEntry
  <2>2. CASE rec'[x].entry[<<c, "C">>] = rec[x].entry[<<c, "C">>]
    <3>1. rec[x].entry[<<c, "C">>] # "none"
      BY <1>5, <1>8, <2>1, <2>2
    <3>2. x = call[c].env
      BY <1>1, <1>4, <2>1, <3>1 DEF LedgerFollows
    <3> QED
      BY <1>8, <2>1, <2>2, <3>2 DEF ReviewedEntry
  <2>3. CASE call[c].at = "observing" /\ x = call[c].env /\ "C" = call[c].phase
    BY <1>8, <2>3 DEF Observing
  <2> QED
    BY <1>3, <1>4, <1>8, <2>1, <2>2, <2>3 DEF Completes
<1>9. ASSUME call'[c].env # NoCall, ReviewedEntry' = "positive"
      PROVE  (stage = "ended" /\ conclusion.verdict = "verified")'
  <2>1. CASE call[c].env # NoCall /\ ReviewedEntry = "positive"
    BY <1>1, <1>6, <2>1 DEF ReviewBacks, Concluded
  <2>2. CASE Observing
    <3>1. call[c].at = "observing" /\ call[c].phase = "C" /\ ~StartStep(c)
      BY <2>2 DEF Observing, StartStep, Start
    <3>2. /\ call[c].env # NoCall /\ call'[c].env = call[c].env /\ call'[c].phase = "C"
          /\ Timer(c) => Enters(call[c].env, TokenOf(c), "failed")
      BY <1>1, <1>2, <3>1, ObservationStays
    <3>3. TokenOf(c) = <<c, "C">> /\ TokenOf(c)' = <<c, "C">> /\ TokenOf(c) \in Token
      BY <1>1, <3>1, <3>2, InHand DEF TokenOf
    <3>4. ~Timer(c)
      <4>1. SUFFICES ASSUME Timer(c) PROVE FALSE
        OBVIOUS
      <4>2. rec'[call[c].env].entry[<<c, "C">>] = "failed"
        BY <1>4, <3>2, <3>3, <4>1 DEF Enters
      <4> QED
        BY <1>9, <3>2, <4>2 DEF ReviewedEntry
    <3>5. ReviewedCallStep(c)
      BY <3>1, <3>4 DEF ReviewedTimer
    <3>6. EntryOf(c)' = "positive"
      BY <1>9, <3>3 DEF EntryOf, Record, ReviewedEntry
    <3>7. Backing[EntryOf(c)'] /\ UNCHANGED reviewVars
      BY <2>2, <3>5 DEF ReviewedCallStep
    <3>8. Backing["positive"] = (stage = "ended" /\ conclusion.verdict = "verified")
      BY DEF Backing
    <3> QED
      BY <3>6, <3>7, <3>8 DEF reviewVars
  <2> QED
    BY <1>5, <1>8, <1>9, <2>1, <2>2
<1>10. ASSUME aborted'
       PROVE  call'[c].env # NoCall /\ ReviewedEntry' = "failed"
  <2>1. CASE aborted
    BY <1>1, <1>5, <1>7, <2>1 DEF ReviewBacks
  <2>2. CASE ~aborted
    <3>1. ReviewedTimer(c) /\ Observing
      BY <1>10, <2>2 DEF ReviewedCallStep, ReviewedTimer, reviewVars
    <3>2. /\ call[c].env # NoCall /\ call'[c].env = call[c].env
          /\ Enters(call[c].env, TokenOf(c), "failed")
      BY <1>1, <3>1, ObservationStays DEF ReviewedTimer, Observing
    <3>3. TokenOf(c) = <<c, "C">> /\ TokenOf(c) \in Token
      BY <1>1, <3>1, InHand DEF TokenOf, Observing
    <3> QED
      BY <1>4, <3>2, <3>3 DEF Enters, ReviewedEntry
  <2> QED
    BY <2>1, <2>2
<1>11. ASSUME NEW r \in Candidates, accepted'[r] = c
       PROVE  call'[c].env # NoCall /\ ReviewedEntry' = "positive"
  <2>1. accepted[r] = c \/ Shown(c)
    BY <1>3, <1>4, <1>11 DEF Accepts
  <2>2. call[c].env # NoCall /\ ReviewedEntry = "positive"
    BY <1>1, <2>1 DEF ReviewBacks, Shown, Backed, ReviewedEntry
  <2> QED
    BY <1>5, <1>7, <2>2
<1> QED
  BY <1>9, <1>10, <1>11 DEF ReviewBacks

\* Steps of the other calls.
LEMMA OtherCallKeeps ==
  ASSUME ReviewedInv, NEW c \in Calls \ {Reviewed},
         \/ StartStep(c) /\ UNCHANGED reviewVars
         \/ ReviewedCallStep(c)
         \/ ReviewedTimer(c)
  PROVE  ReviewBacks'
<1>1. Reviewed \in Calls /\ Reviewed # NoCall /\ IInv /\ TypeOK /\ CallInv(c) /\ ReviewBacks
  BY ReviewedAssumption, ExperimentAssumption DEF ReviewedInv, IInv
<1>2. (StartStep(c) \/ CallStep(c) \/ Timer(c)) /\ UNCHANGED reviewVars
  BY DEF ReviewedCallStep, ReviewedTimer
<1>3. Frame(c) /\ Accepts(c)
  BY <1>1, <1>2, StepFrames, StepAccepts DEF CallInv
<1>4. call'[Reviewed] = call[Reviewed]
      /\ \A x \in Calls : rec'[x].entry[<<Reviewed, "C">>] = rec[x].entry[<<Reviewed, "C">>]
  BY <1>1, <1>3 DEF Frame, Phase
<1>5. call[Reviewed].env # NoCall => ReviewedEntry' = ReviewedEntry
  BY <1>1, <1>4, Fields DEF ReviewedEntry
<1>6. \A r \in Candidates : accepted'[r] = Reviewed => accepted[r] = Reviewed
  BY <1>1, <1>3 DEF Accepts
<1> QED
  BY <1>1, <1>2, <1>4, <1>5, <1>6 DEF ReviewBacks, reviewVars

\* The reviewed experiment starts in its invariant.
LEMMA ReviewedStarts == ReviewedInit => ReviewedInv
<1> SUFFICES ASSUME ReviewedInit PROVE ReviewedInv
  OBVIOUS
<1>1. Init /\ ReviewInit /\ IInv
  BY InitInv DEF ReviewedInit
<1>2. ReviewStands
  BY <1>1, NothingKnown DEF ReviewInit, ReviewStands, VerifiedIsSeen, NoReview
<1>3. Reviewed \in Calls /\ call[Reviewed].env = NoCall /\ \A r \in Candidates : accepted[r] = NoCall
  BY <1>1, ReviewedAssumption DEF Init
<1>4. ReviewBacks
  BY <1>1, <1>3, ExperimentAssumption DEF ReviewBacks, ReviewInit
<1> QED
  BY <1>1, <1>2, <1>4 DEF ReviewedInv

\* Every step of the reviewed experiment keeps it.
LEMMA ReviewedKeeps == ReviewedInv /\ [ReviewedNext]_allVars => ReviewedInv'
<1> SUFFICES ASSUME ReviewedInv, [ReviewedNext]_allVars PROVE ReviewedInv'
  OBVIOUS
<1>1. IInv /\ ReviewStands /\ ReviewBacks /\ Reviewed \in Calls
  BY ReviewedAssumption DEF ReviewedInv
<1>2. ASSUME UNCHANGED reviewVars
      PROVE  ReviewStands' /\ Concluded /\ UNCHANGED aborted
  BY <1>1, <1>2, ReviewRests DEF reviewVars
<1>3. ASSUME NEW c \in Calls,
             \/ StartStep(c) /\ UNCHANGED reviewVars
             \/ ReviewedCallStep(c)
             \/ ReviewedTimer(c)
      PROVE  ReviewedInv'
  <2>1. IInv'
    BY <1>1, <1>3, CallStepKeeps DEF ReviewedCallStep, ReviewedTimer
  <2>2. ReviewStands'
    BY <1>1, <1>2, <1>3, AbortStands DEF ReviewedCallStep, ReviewedTimer
  <2>3. ReviewBacks'
    BY <1>3, ReviewedCallKeeps, OtherCallKeeps
  <2> QED
    BY <2>1, <2>2, <2>3 DEF ReviewedInv
<1>4. ASSUME UNCHANGED vars, ReviewStands' /\ Concluded /\ UNCHANGED aborted
      PROVE  ReviewedInv'
  <2>1. IInv'
    BY <1>1, <1>4, NextKeeps
  <2>2. ReviewBacks'
    BY <1>1, <1>4, BackingRests DEF vars, experimentVars
  <2> QED
    BY <1>4, <2>1, <2>2 DEF ReviewedInv
<1>5. ASSUME EndRun \/ FinalStep, UNCHANGED reviewVars
      PROVE  ReviewedInv'
  <2>1. IInv'
    BY <1>1, <1>5, NextKeeps DEF Next
  <2>2. UNCHANGED <<call, accepted>> /\ \A x \in Calls : rec'[x].entry = rec[x].entry
    <3>1. CASE Finish
      BY <1>1, <3>1, FinishWrites DEF Finishes, IInv
    <3>2. CASE EndRun \/ BeginCleanup \/ \E s \in Session : DrainOne(s) \/ DrainThrows(s)
      BY <3>2 DEF EndRun, BeginCleanup, DrainOne, DrainThrows, experimentVars
    <3> QED
      BY <1>5, <3>1, <3>2 DEF FinalStep
  <2>3. ReviewBacks'
    BY <1>1, <1>2, <1>5, <2>2, BackingRests
  <2> QED
    BY <1>2, <1>5, <2>1, <2>3 DEF ReviewedInv
<1>6. CASE ReviewStep
  <2>1. UNCHANGED vars
        /\ (BeginReview \/ (\E r \in Requests : RequestStep(r)) \/ SynthesisStep)
    BY <1>6 DEF ReviewStep, StartReview, CallGoesOn
  <2> QED
    BY <1>1, <1>4, <2>1, ReviewGoesOn
<1>7. CASE Quiet \/ UNCHANGED allVars
  BY <1>2, <1>4, <1>7 DEF Quiet, AllDone, allVars
<1> QED
  BY <1>3, <1>5, <1>6, <1>7 DEF ReviewedNext

\* A candidate the run accepts was reviewed to the end before the deadline, and
\* seen to be right (candidateCompletion, deriveCandidateVisualVerdict), with any
\* number of calls beside it, wherever the deadline cuts the review off and
\* whatever the calls it leaves behind answer later.
THEOREM AcceptedCandidateWasSeen == ReviewedSpec => []AcceptedWasSeen
<1>1. ReviewedInit => ReviewedInv
  BY ReviewedStarts
<1>2. ReviewedInv /\ [ReviewedNext]_allVars => ReviewedInv'
  BY ReviewedKeeps
<1>3. ReviewedInv => AcceptedWasSeen
  BY DEF ReviewedInv, ReviewStands, ReviewBacks, AcceptedWasSeen
<1> QED
  BY <1>1, <1>2, <1>3, PTL DEF ReviewedSpec

\* In the reviewed experiment too, the validators only ever look at a live
\* session that its adapter holds.
THEOREM ReviewedSessionsAreOwn == ReviewedSpec => []ObservesOwnLiveSession
<1>1. ReviewedInit => ReviewedInv
  BY ReviewedStarts
<1>2. ReviewedInv /\ [ReviewedNext]_allVars => ReviewedInv'
  BY ReviewedKeeps
<1>3. ReviewedInv => ObservesOwnLiveSession
  BY InvObserves DEF ReviewedInv
<1> QED
  BY <1>1, <1>2, <1>3, PTL DEF ReviewedSpec

-----------------------------------------------------------------------------
(* The recorder alone, called in any order: what TLC checks of it for two   *)
(* experiments and one artifact, for every set of experiments and artifacts *)
(* and every bound on the phases.                                           *)

\* No phase token stands for "no owner".
LEMMA NoTokenIsNoPhase == NoToken \notin Token
  BY LedgerAssumption DEF Token, Phase

\* A fresh recorder is a recorder.
LEMMA NewRecorderType == NewRecorder \in Recorder
  BY DEF NewRecorder, Recorder, Entry, Receipt

\* Each method returns a recorder.
LEMMA MethodsKeepType ==
  ASSUME NEW r \in Recorder, NEW t \in Token, NEW k \in Completion,
         NEW new \in SUBSET Artifacts,
         NEW receipt \in {"completed", "failed"}, NEW drainFailed \in BOOLEAN
  PROVE  /\ RegisterAdapter(r) \in Recorder
         /\ BeginPhase(r, t) \in Recorder
         /\ BindPhaseLease(r, t) \in Recorder
         /\ CompletePhase(r, t, k, new) \in Recorder
         /\ RecordCleanup(r, receipt, drainFailed) \in Recorder
         /\ Finalize(r) \in Recorder
<1>1. RegisterAdapter(r) \in Recorder
  BY DEF RegisterAdapter, Recorder
<1>2. BeginPhase(r, t) \in Recorder
  BY DEF BeginPhase, Recorder, Entry
<1>3. BindPhaseLease(r, t) \in Recorder
  BY DEF BindPhaseLease, Recorder, Entry
<1>4. CompletePhase(r, t, k, new) \in Recorder
  <2>1. [r.entry EXCEPT ![t] = k] \in [Token -> Entry]
    BY DEF Recorder, Entry
  <2>2. [a \in Artifacts |-> IF a \in new THEN t ELSE r.owner[a]]
          \in [Artifacts -> Token \cup {NoToken}]
    BY DEF Recorder
  <2> QED
    BY <2>1, <2>2 DEF CompletePhase, Recorder
<1>5. RecordCleanup(r, receipt, drainFailed) \in Recorder
  BY DEF RecordCleanup, Recorder, Receipt
<1>6. Finalize(r) \in Recorder
  BY DEF Finalize, Recorder
<1> QED
  BY <1>1, <1>2, <1>3, <1>4, <1>5, <1>6

\* A status that is a disposition stays one under cleanup precedence.
LEMMA FinalStatusType ==
  ASSUME NEW r, NEW result \in Disposition
  PROVE  FinalStatus(r, result) \in Disposition
  BY DEF FinalStatus, Disposition
------------------------------------------------------------------------------
\* A new recorder has its types.
LEMMA InitTypeOK == RecorderInit => RecorderTypeOK
  BY NewRecorderType DEF RecorderInit, RecorderTypeOK

\* Every call of the recorder keeps its types.
LEMMA NextTypeOK == RecorderTypeOK /\ [RecorderNext]_recorderVars => RecorderTypeOK'
<1> SUFFICES ASSUME RecorderTypeOK, [RecorderNext]_recorderVars
             PROVE  RecorderTypeOK'
  OBVIOUS
<1> USE DEF RecorderTypeOK
<1>1. CASE Register
  BY <1>1 DEF Register, RegisterAdapter, Recorder
<1>2. ASSUME NEW t \in Token, Begin(t)
      PROVE  RecorderTypeOK'
  BY <1>2, MethodsKeepType DEF Begin, Completion
<1>3. ASSUME NEW t \in Token, Bind(t)
      PROVE  RecorderTypeOK'
  BY <1>3, MethodsKeepType DEF Bind, Completion
<1>4. ASSUME NEW t \in Token, NEW k \in Completion,
             NEW new \in SUBSET Artifacts, NEW cited \in SUBSET Artifacts,
             CompleteEntry(t, k, new, cited)
      PROVE  RecorderTypeOK'
  BY <1>4, MethodsKeepType DEF CompleteEntry
<1>5. ASSUME NEW lifecycle, NEW leases,
             NEW receipt \in {"completed", "failed"}, NEW drainFailed \in BOOLEAN,
             Cleanup(lifecycle, leases, receipt, drainFailed)
      PROVE  RecorderTypeOK'
  BY <1>5 DEF Cleanup, RecordCleanup, Recorder, Receipt
<1>6. ASSUME NEW result \in Disposition, PublishExecution(result)
      PROVE  RecorderTypeOK'
  BY <1>6, FinalStatusType DEF PublishExecution, Finalize, Recorder
<1>7. CASE UNCHANGED recorderVars
  BY <1>7 DEF recorderVars
<1> QED
  BY <1>1, <1>2, <1>3, <1>4, <1>5, <1>6, <1>7 DEF RecorderNext

\* The recorder and the status it published keep their types.
THEOREM RecorderTypeCorrect == RecorderSpec => []RecorderTypeOK
  BY InitTypeOK, NextTypeOK, PTL DEF RecorderSpec
------------------------------------------------------------------------------
(* Artifacts and the evidence they belong to *)

\* Completing a phase gives owners to its new artifacts only if the phase was
\* observed, and leaves every other entry alone.
LEMMA CompletionEffect ==
  ASSUME NEW r \in Recorder, NEW t \in Token, NEW k \in Completion,
         NEW new \in SUBSET Artifacts
  PROVE  /\ CompletePhase(r, t, k, new).entry = [r.entry EXCEPT ![t] = k]
         /\ \A a \in Artifacts :
              CompletePhase(r, t, k, new).owner[a] =
                IF k \in Observed /\ a \in new THEN t ELSE r.owner[a]
<1>1. CASE k \in Observed
  BY <1>1 DEF CompletePhase, Recorder
<1>2. CASE k \notin Observed
  BY <1>2 DEF CompletePhase, Recorder
<1> QED
  BY <1>1, <1>2

\* A new recorder owns no artifact.
LEMMA InitOwners == RecorderInit => OwnersWereObserved
  BY DEF RecorderInit, NewRecorder, OwnersWereObserved

\* An artifact gets an owner only by a call that observed it.
LEMMA NextOwners == RecorderTypeOK /\ OwnersWereObserved /\ [RecorderNext]_recorderVars
                      => OwnersWereObserved'
<1> SUFFICES ASSUME RecorderTypeOK, OwnersWereObserved, [RecorderNext]_recorderVars,
                    NEW a \in Artifacts, recorder'.owner[a] # NoToken
             PROVE  recorder'.entry[recorder'.owner[a]] \in Observed
  BY DEF OwnersWereObserved
<1>0. recorder \in Recorder /\ recorder.owner[a] \in Token \cup {NoToken}
  BY DEF RecorderTypeOK, Recorder
<1> USE DEF OwnersWereObserved
<1>1. CASE Register
  BY <1>0, <1>1 DEF Register, RegisterAdapter, Recorder
<1>2. ASSUME NEW t \in Token, Begin(t)
      PROVE  recorder'.entry[recorder'.owner[a]] \in Observed
  <2>1. recorder'.owner[a] = recorder.owner[a] /\ recorder'.entry = [recorder.entry EXCEPT ![t] = "issued"]
    BY <1>0, <1>2 DEF Begin, BeginPhase, Recorder
  <2>2. recorder.owner[a] # t
    BY <1>0, <1>2, <2>1 DEF Begin, MayBegin, Observed
  <2> QED
    BY <1>0, <2>1, <2>2 DEF Recorder
<1>3. ASSUME NEW t \in Token, Bind(t)
      PROVE  recorder'.entry[recorder'.owner[a]] \in Observed
  <2>1. recorder'.owner[a] = recorder.owner[a] /\ recorder'.entry = [recorder.entry EXCEPT ![t] = "bound"]
    BY <1>0, <1>3 DEF Bind, BindPhaseLease, Recorder
  <2>2. recorder.owner[a] # t
    BY <1>0, <1>3, <2>1 DEF Bind, MayBind, Observed
  <2> QED
    BY <1>0, <2>1, <2>2 DEF Recorder
<1>4. ASSUME NEW t \in Token, NEW k \in Completion,
             NEW new \in SUBSET Artifacts, NEW cited \in SUBSET Artifacts,
             CompleteEntry(t, k, new, cited)
      PROVE  recorder'.entry[recorder'.owner[a]] \in Observed
  <2>1. /\ recorder'.entry = [recorder.entry EXCEPT ![t] = k]
        /\ recorder'.owner[a] = IF k \in Observed /\ a \in new THEN t ELSE recorder.owner[a]
    BY <1>0, <1>4, CompletionEffect DEF CompleteEntry
  <2>2. CASE k \in Observed /\ a \in new
    BY <1>0, <2>1, <2>2 DEF Recorder
  <2>3. CASE ~(k \in Observed /\ a \in new)
    <3>1. recorder.owner[a] \in Token /\ recorder.entry[recorder.owner[a]] \in Observed
      BY <1>0, <2>1, <2>3
    <3>2. recorder.owner[a] # t
      BY <1>4, <3>1 DEF CompleteEntry, MayComplete, Observed
    <3> QED
      BY <1>0, <2>1, <2>3, <3>1, <3>2 DEF Recorder
  <2> QED
    BY <2>2, <2>3
<1>5. ASSUME NEW lifecycle, NEW leases,
             NEW receipt \in {"completed", "failed"}, NEW drainFailed \in BOOLEAN,
             Cleanup(lifecycle, leases, receipt, drainFailed)
      PROVE  recorder'.entry[recorder'.owner[a]] \in Observed
  BY <1>0, <1>5 DEF Cleanup, RecordCleanup, Recorder
<1>6. ASSUME NEW result \in Disposition, PublishExecution(result)
      PROVE  recorder'.entry[recorder'.owner[a]] \in Observed
  BY <1>0, <1>6 DEF PublishExecution, Finalize, Recorder
<1>7. CASE UNCHANGED recorderVars
  BY <1>7 DEF recorderVars
<1> QED
  BY <1>1, <1>2, <1>3, <1>4, <1>5, <1>6, <1>7 DEF RecorderNext

\* No artifact is owned by a phase that was refused or failed, in any run.
THEOREM OwnersCorrect == RecorderSpec => []OwnersWereObserved
<1>1. RecorderSpec => []RecorderTypeOK
  BY RecorderTypeCorrect
<1>2. RecorderTypeOK /\ OwnersWereObserved /\ [RecorderNext]_recorderVars => OwnersWereObserved'
  BY NextOwners
<1> QED
  BY InitOwners, <1>1, <1>2, PTL DEF RecorderSpec
------------------------------------------------------------------------------
(* Publication *)

\* Every call to a recorder that accepts it needs a recorder not yet finalized.
LEMMA CallsNeedWritable == RecorderNext => Writable(recorder)
  BY DEF RecorderNext, Register, Begin, MayBegin, Bind, MayBind, CompleteEntry, MayComplete,
         Cleanup, MayRecordCleanup, PublishExecution, MayFinalize

\* A new recorder has published nothing.
LEMMA InitPublished == RecorderInit => PublishedIsSettled
  BY DEF RecorderInit, PublishedIsSettled

\* Only Publish publishes: every other call leaves the status as it was.
LEMMA OnlyPublishPublishes ==
  ASSUME RecorderNext PROVE \/ execution' = execution
                    \/ \E result \in Disposition : PublishExecution(result)
  BY DEF RecorderNext, Register, Begin, Bind, CompleteEntry, Cleanup

\* A published execution was accepted by the checks of finalize.
LEMMA PublishSettles ==
  ASSUME RecorderTypeOK, NEW result \in Disposition, PublishExecution(result)
  PROVE  PublishedIsSettled'
<1>1. /\ recorder' = [recorder EXCEPT !.finalized = TRUE]
      /\ execution' = FinalStatus(recorder, result)
      /\ MayFinalize(recorder, result)
  BY DEF PublishExecution, Finalize
<1>2. /\ recorder'.finalized
      /\ recorder'.entry = recorder.entry
      /\ recorder'.cleanup = recorder.cleanup
      /\ recorder'.drainFailed = recorder.drainFailed
  BY <1>1 DEF RecorderTypeOK, Recorder
<1>3. /\ Unsettled(recorder') = Unsettled(recorder)
      /\ Evidence(recorder') = Evidence(recorder)
      /\ CleanupFailed(recorder') = CleanupFailed(recorder)
  BY <1>2 DEF Unsettled, Evidence, CleanupFailed
<1>4. CleanupFailed(recorder) => execution' = "failed"
  BY <1>1 DEF FinalStatus
<1> QED
  BY <1>1, <1>2, <1>3, <1>4 DEF MayFinalize, PublishedIsSettled

\* Every call keeps what is published settled.
LEMMA NextPublished == RecorderTypeOK /\ PublishedIsSettled /\ [RecorderNext]_recorderVars
                         => PublishedIsSettled'
<1> SUFFICES ASSUME RecorderTypeOK, PublishedIsSettled, [RecorderNext]_recorderVars
             PROVE  PublishedIsSettled'
  OBVIOUS
<1>1. CASE UNCHANGED recorderVars
  BY <1>1 DEF recorderVars, PublishedIsSettled
<1>2. CASE RecorderNext /\ execution' = execution
  BY <1>2, CallsNeedWritable DEF PublishedIsSettled, Writable
<1>3. ASSUME NEW result \in Disposition, PublishExecution(result)
      PROVE  PublishedIsSettled'
  BY <1>3, PublishSettles
<1> QED
  BY <1>1, <1>2, <1>3, OnlyPublishPublishes

\* Whatever the callers do, what escapes was written over a settled ledger,
\* within the bound on phases, and a failed drain or cleanup is never
\* published as anything but a failure.
THEOREM PublicationCorrect == RecorderSpec => []PublishedIsSettled
<1>1. RecorderSpec => []RecorderTypeOK
  BY RecorderTypeCorrect
<1>2. RecorderTypeOK /\ PublishedIsSettled /\ [RecorderNext]_recorderVars => PublishedIsSettled'
  BY NextPublished
<1> QED
  BY InitPublished, <1>1, <1>2, PTL DEF RecorderSpec

\* After publication every call is refused.
THEOREM PublicationFreezes == RecorderSpec => FrozenAfterPublication
<1>1. PublishedIsSettled /\ [RecorderNext]_recorderVars
        => [execution # "none" => UNCHANGED recorderVars]_recorderVars
  BY CallsNeedWritable DEF PublishedIsSettled, Writable
<1> QED
  BY <1>1, PublicationCorrect, PTL DEF RecorderSpec, FrozenAfterPublication
------------------------------------------------------------------------------
(* Evidence is written once *)

\* What one step leaves alone in the recorder r: evidence and owners.
LEMMA StepKeepsEvidence ==
  ASSUME RecorderTypeOK, [RecorderNext]_recorderVars
  PROVE  /\ \A t \in Token :
              recorder.entry[t] \in Completion => recorder'.entry[t] = recorder.entry[t]
         /\ \A a \in Artifacts :
              recorder.owner[a] # NoToken => recorder'.owner[a] = recorder.owner[a]
<1> DEFINE Final == /\ \A t \in Token :
                         recorder.entry[t] \in Completion => recorder'.entry[t] = recorder.entry[t]
                    /\ \A a \in Artifacts :
                         recorder.owner[a] # NoToken => recorder'.owner[a] = recorder.owner[a]
<1>0. recorder \in Recorder
  BY DEF RecorderTypeOK
<1>1. CASE Register
  BY <1>0, <1>1 DEF Register, RegisterAdapter, Recorder
<1>2. ASSUME NEW t \in Token, Begin(t)
      PROVE  Final
  <2>1. recorder.entry[t] \notin Completion
    BY <1>2 DEF Begin, MayBegin, Completion, Observed
  <2> QED
    BY <1>0, <1>2, <2>1 DEF Begin, BeginPhase, Recorder
<1>3. ASSUME NEW t \in Token, Bind(t)
      PROVE  Final
  <2>1. recorder.entry[t] \notin Completion
    BY <1>3 DEF Bind, MayBind, Completion, Observed
  <2> QED
    BY <1>0, <1>3, <2>1 DEF Bind, BindPhaseLease, Recorder
<1>4. ASSUME NEW t \in Token, NEW k \in Completion,
             NEW new \in SUBSET Artifacts, NEW cited \in SUBSET Artifacts,
             CompleteEntry(t, k, new, cited)
      PROVE  Final
  <2>1. recorder.entry[t] \notin Completion
    BY <1>4 DEF CompleteEntry, MayComplete, Completion, Observed
  <2>2. /\ recorder'.entry = [recorder.entry EXCEPT ![t] = k]
        /\ \A a \in Artifacts :
             recorder'.owner[a] = IF k \in Observed /\ a \in new THEN t ELSE recorder.owner[a]
    BY <1>0, <1>4, CompletionEffect DEF CompleteEntry
  <2>3. k \in Observed => \A a \in new : recorder.owner[a] = NoToken
    BY <1>4 DEF CompleteEntry, MayComplete
  <2> QED
    BY <1>0, <2>1, <2>2, <2>3 DEF Recorder
<1>5. ASSUME NEW lifecycle, NEW leases,
             NEW receipt \in {"completed", "failed"}, NEW drainFailed \in BOOLEAN,
             Cleanup(lifecycle, leases, receipt, drainFailed)
      PROVE  Final
  BY <1>0, <1>5 DEF Cleanup, RecordCleanup, Recorder
<1>6. ASSUME NEW result \in Disposition, PublishExecution(result)
      PROVE  Final
  BY <1>0, <1>6 DEF PublishExecution, Finalize, Recorder
<1>7. CASE UNCHANGED recorderVars
  BY <1>7 DEF recorderVars
<1> QED
  BY <1>1, <1>2, <1>3, <1>4, <1>5, <1>6, <1>7 DEF RecorderNext

\* No call rewrites the evidence of a phase or moves an artifact to another.
THEOREM EvidenceCorrect == RecorderSpec => EvidenceIsFinal
<1>1. RecorderTypeOK /\ [RecorderNext]_recorderVars
        => [/\ \A t \in Token :
                 recorder.entry[t] \in Completion => recorder'.entry[t] = recorder.entry[t]
            /\ \A a \in Artifacts :
                 recorder.owner[a] # NoToken => recorder'.owner[a] = recorder.owner[a]]_recorderVars
  BY StepKeepsEvidence
<1> QED
  BY <1>1, RecorderTypeCorrect, PTL DEF RecorderSpec, EvidenceIsFinal
==============================================================================
