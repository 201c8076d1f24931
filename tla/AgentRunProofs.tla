---------------------------- MODULE AgentRunProofs ----------------------------
(***************************************************************************)
(* What TLC checks of AgentRun for caps of two and four, proved for every  *)
(* set of reasons, every pair of caps, and every bound on turns and on     *)
(* batches.  Three inductive invariants build on each other: Shape (types, *)
(* the controller below its caps, the slot and the call it belongs to),    *)
(* Course (where a run can stand once it is settled or stopped), and       *)
(* Counted (the counters are those of the rejections that were observed).  *)
(***************************************************************************)
EXTENDS AgentRun, TLAPS

\* An unsettled controller is below both caps and has accepted nothing.
Sound(t) ==
  /\ t \in Controller
  /\ ~Settled(t) => /\ t.repeated < MaxRejections
                    /\ t.rejections < MaxTotalRejections

\* A call is executed within a turn whose batch still holds it, and a refused
\* call is the one whose fingerprint is in the slot.
CallsAreOfBatch ==
  /\ calling # "none" => stage = "turn" /\ batch > 0
  /\ calling = "refused" /\ ~Settled(terminal) => terminal.pending # NoWall

Shape == TypeOK /\ Sound(terminal) /\ CallsAreOfBatch /\ SlotBelongsToCall

\* Before the guards are attached nothing has happened; a recorded cause has
\* aborted the session; a settled run that is back at a request is aborted; a
\* sealed run has an outcome.
StopsAbort ==
  /\ stage \in {"called", "building"} => cause = "none" /\ ~Settled(terminal)
  /\ cause # "none" => aborted
  /\ stage \in {"requesting", "streaming"} /\ Settled(terminal) => aborted
  /\ outcome = "none" <=> stage # "sealed"

Course == StopsAbort /\ SettlementSeals

\* The counters of the controller read off the observed rejections: the length
\* of the history, its last member, and the longest suffix of that member.
Counted ==
  LET n == Len(observed)
      t == terminal
  IN  /\ t.rejections = n
      /\ n = 0 => t.repeated = 0 /\ t.last = NoWall
      /\ n > 0 => t.repeated > 0 /\ t.last = observed[n]
      /\ t.repeated <= n
      /\ \A i \in 1..n : i > n - t.repeated => observed[i] = t.last
      /\ t.repeated < n => observed[n - t.repeated] # t.last
      /\ t.settled = "streak" <=> t.repeated >= MaxRejections
      /\ t.settled = "total" <=> /\ t.repeated < MaxRejections
                                 /\ n >= MaxTotalRejections
------------------------------------------------------------------------------
(* The controller *)

\* Both rejection caps are at least one: the second is a multiple of the first.
LEMMA CapsArePositive ==
  /\ MaxRejections \in Nat \ {0}
  /\ MaxTotalRejections \in Nat \ {0}
  BY TerminalAssumption DEF MaxTotalRejections

\* A fresh terminal tool controller is sound and has settled nothing.
LEMMA NewControllerSound == Sound(NewController) /\ ~Settled(NewController)
  BY CapsArePositive
  DEF Sound, NewController, Controller, Settled, Settlement

\* Accepting settles the controller, whatever it was.
LEMMA AcceptSound ==
  ASSUME NEW t, Sound(t)
  PROVE  Sound(Accept(t)) /\ Settled(Accept(t))
  BY DEF Accept, SettleOnce, Sound, Settled, Controller, Settlement

\* A refusal keeps the controller sound, settles nothing and leaves its wall pending.
LEMMA RefuseSound ==
  ASSUME NEW t, Sound(t), NEW wall \in Walls
  PROVE  /\ Sound(Refuse(t, wall))
         /\ Settled(Refuse(t, wall)) <=> Settled(t)
         /\ Refuse(t, wall).pending = wall
  BY TerminalAssumption DEF Refuse, Sound, Settled, Controller

\* What an observed rejection does to each field of an unsettled controller.
LEMMA ObserveFields ==
  ASSUME NEW t, Sound(t), NEW reason, ~Settled(t)
  PROVE  LET wall     == Fingerprint(t, reason)
             repeated == IF wall = t.last THEN t.repeated + 1 ELSE 1
             s        == ObserveRejection(t, reason)
         IN  /\ s.rejections = t.rejections + 1
             /\ s.repeated = repeated
             /\ s.last = wall
             /\ s.pending = NoWall
             /\ s.accepted = t.accepted
             /\ s.settled = IF repeated >= MaxRejections THEN "streak"
                            ELSE IF t.rejections + 1 >= MaxTotalRejections
                                 THEN "total" ELSE "pending"
  BY DEF ObserveRejection, Sound, Controller, Streak, Capped

\* Observing a rejection never passes a cap.
LEMMA ObserveSound ==
  ASSUME NEW t, Sound(t), NEW reason, Fingerprint(t, reason) \in Walls
  PROVE  Sound(ObserveRejection(t, reason))
<1>1. CASE Settled(t)
  BY <1>1 DEF ObserveRejection
<1>2. CASE ~Settled(t)
  <2> DEFINE s == ObserveRejection(t, reason)
  <2>1. s.repeated \in 0..MaxRejections /\ s.rejections \in 0..MaxTotalRejections
    BY <1>2, ObserveFields, CapsArePositive DEF Sound, Controller
  <2>2. s \in Controller
    BY <1>2, <2>1, CapsArePositive
    DEF ObserveRejection, Sound, Controller, Streak, Capped, Settlement, Cap,
        Settled
  <2>3. ~Settled(s) => /\ s.repeated < MaxRejections
                       /\ s.rejections < MaxTotalRejections
    BY <1>2, <2>1, ObserveFields, CapsArePositive DEF Settled, Sound, Controller
  <2> QED
    BY <2>2, <2>3 DEF Sound
<1> QED
  BY <1>1, <1>2
------------------------------------------------------------------------------
(* Sealing *)

\* What a settled controller seals with is one of the outcomes of a run.
LEMMA SettlementSealIsOutcome ==
  ASSUME Sound(terminal), Settled(terminal)
  PROVE  SettlementSeal \in Outcome /\ SettlementSeal # "none"
<1>1. terminal.settled \in {"accepted", "streak", "total"}
  BY DEF Sound, Controller, Settlement, Cap, Settled
<1> QED
  BY <1>1 DEF SettlementSeal, Outcome

\* A prompt that ended goes on to the nudge only if nothing settled, no guard
\* tripped, and the nudge has not been spent.
LEMMA SealCases ==
  ASSUME Sound(terminal), NEW c \in Guard \cup {"none"}, NEW reason
  PROVE  /\ Seal(c, reason) \in Outcome \cup {"none"}
         /\ Settled(terminal) => Seal(c, reason) = SettlementSeal
         /\ Seal(c, reason) = "none" =>
              ~Settled(terminal) /\ c = "none" /\ prompts # 2
<1>1. CASE Settled(terminal)
  BY <1>1, SettlementSealIsOutcome DEF Seal
<1>2. CASE ~Settled(terminal)
  BY <1>2 DEF Seal, CauseSeal, Guard, Outcome
<1> QED
  BY <1>1, <1>2

\* How a prompt ends, without the definition of the seal.
LEMMA EndPromptCases ==
  ASSUME TypeOK, Sound(terminal), NEW c \in Guard \cup {"none"}, NEW reason,
         EndPrompt(c, reason)
  PROVE  /\ outcome' \in Outcome \cup {"none"}
         /\ Settled(terminal) => outcome' = SettlementSeal /\ outcome' # "none"
         /\ \/ /\ outcome' = "none"
               /\ ~Settled(terminal)
               /\ c = "none"
               /\ stage' = "requesting"
               /\ prompts' = prompts + 1
               /\ prompts' \in 0..2
               /\ requests' = requests + 1
            \/ /\ outcome' # "none"
               /\ stage' = "sealed"
               /\ prompts' = prompts
               /\ requests' = requests
<1>1. outcome' = Seal(c, reason)
  BY DEF EndPrompt
<1>2. CASE outcome' = "none"
  <2>1. stage' = "requesting" /\ prompts' = prompts + 1 /\ requests' = requests + 1
    BY <1>2 DEF EndPrompt
  <2>2. ~Settled(terminal) /\ c = "none" /\ prompts # 2
    BY <1>1, <1>2, SealCases
  <2>3. prompts' \in 0..2
    BY <2>1, <2>2 DEF TypeOK
  <2> QED
    BY <1>2, <2>1, <2>2, <2>3
<1>3. CASE outcome' # "none"
  <2>1. stage' = "sealed" /\ prompts' = prompts /\ requests' = requests
    BY <1>3 DEF EndPrompt
  <2>2. outcome' \in Outcome \cup {"none"}
    BY <1>1, SealCases
  <2>3. Settled(terminal) => outcome' = SettlementSeal
    BY <1>1, SealCases
  <2> QED
    BY <1>3, <2>1, <2>2, <2>3
<1> QED
  BY <1>2, <1>3

\* Counting a turn keeps the types, and records a cause only by aborting.
LEMMA CountTurnCases ==
  ASSUME TypeOK, CountTurn
  PROVE  /\ turns' \in 0..MaxTurns
         /\ CauseAfterTurn \in Guard \cup {"none"}
         /\ cause' = CauseAfterTurn
         /\ aborted' \in BOOLEAN
         /\ aborted => aborted'
         /\ cause # "none" => cause' = cause
         /\ cause' # cause => aborted'
<1>1. turns' \in 0..MaxTurns
  BY AgentAssumption DEF CountTurn, TypeOK
<1>2. CauseAfterTurn \in Guard \cup {"none"}
  BY DEF CauseAfterTurn, TypeOK, Guard
<1>3. CASE CauseAfterTurn = cause
  BY <1>1, <1>2, <1>3 DEF CountTurn, TypeOK
<1>4. CASE CauseAfterTurn # cause
  <2>1. cause = "none" /\ CauseAfterTurn = "turns"
    BY <1>4 DEF CauseAfterTurn
  <2>2. cause' = "turns" /\ aborted'
    BY <1>4, <2>1 DEF CountTurn, Fire
  <2> QED
    BY <1>1, <1>2, <2>1, <2>2
<1> QED
  BY <1>3, <1>4
------------------------------------------------------------------------------
(* Shape *)

\* A run starts in shape: typed, with a sound and unsettled controller.
LEMMA InitShape == Init => Shape
<1> SUFFICES ASSUME Init PROVE Shape
  OBVIOUS
<1>1. Sound(terminal) /\ ~Settled(terminal)
  BY NewControllerSound DEF Init
<1>2. terminal \in Controller
  BY <1>1 DEF Sound
<1>3. TypeOK
  <2>1. observed \in Seq(Walls)
    BY DEF Init
  <2>2. turns \in 0..MaxTurns /\ batch \in 0..MaxBatch /\ prompts \in 0..2
    BY AgentAssumption DEF Init
  <2>3. cancelled \in BOOLEAN /\ aborted \in BOOLEAN
    BY DEF Init
  <2>4. cause \in Guard \cup {"none"} /\ outcome \in Outcome \cup {"none"}
    BY DEF Init
  <2>5. requests \in Nat
    BY DEF Init
  <2> QED
    BY <1>2, <2>1, <2>2, <2>3, <2>4, <2>5, Zenon DEF Init, TypeOK
<1>4. CallsAreOfBatch
  BY DEF Init, CallsAreOfBatch
<1>5. SlotBelongsToCall
  BY DEF Init, SlotBelongsToCall, NewController
<1> QED
  BY <1>1, <1>3, <1>4, <1>5 DEF Shape

\* A step that leaves the controller, the call in hand and the history alone
\* has only the types and the turn of the call to answer for.
LEMMA ShapeOutsideCalls ==
  ASSUME Shape, UNCHANGED <<calling, terminal, observed>>,
         stage' \in {"called", "building", "requesting", "streaming", "turn",
                     "sealed"},
         prompts' \in 0..2, requests' \in Nat, turns' \in 0..MaxTurns,
         batch' \in 0..MaxBatch, cancelled' \in BOOLEAN,
         cause' \in Guard \cup {"none"}, aborted' \in BOOLEAN,
         outcome' \in Outcome \cup {"none"},
         calling # "none" => UNCHANGED <<stage, batch>>
  PROVE  Shape'
  BY DEF Shape, TypeOK, CallsAreOfBatch, SlotBelongsToCall, Sound, Settled

\* A rejection is observed under a reason the controller knows.
LEMMA ObserveShape ==
  ASSUME Shape, NEW reason, Fingerprint(terminal, reason) \in Walls \/ Settled(terminal),
         Observe(reason)
  PROVE  /\ Sound(terminal')
         /\ observed' \in Seq(Walls)
         /\ Settled(terminal) => Settled(terminal')
         /\ ~Settled(terminal) => terminal'.pending = NoWall
<1>1. CASE Settled(terminal)
  BY <1>1 DEF Observe, ObserveRejection, Shape, TypeOK
<1>2. CASE ~Settled(terminal)
  BY <1>2, ObserveSound, ObserveFields DEF Observe, Shape, TypeOK
<1> QED
  BY <1>1, <1>2

\* A turn that ends its prompt outside any call keeps the shape.
LEMMA ShapeAfterPrompt ==
  ASSUME Shape, calling = "none", CountTurn, NEW reason,
         EndPrompt(CauseAfterTurn, reason),
         UNCHANGED <<batch, calling, terminal, cancelled, observed>>
  PROVE  Shape'
<1>1. /\ turns' \in 0..MaxTurns /\ cause' \in Guard \cup {"none"}
      /\ aborted' \in BOOLEAN /\ CauseAfterTurn \in Guard \cup {"none"}
  BY CountTurnCases DEF Shape
<1>2. TypeOK /\ Sound(terminal)
  BY DEF Shape
<1>3. outcome' \in Outcome \cup {"none"} /\ stage' \in {"requesting", "sealed"}
  BY <1>1, <1>2, EndPromptCases
<1>4. prompts' \in 0..2 /\ requests' \in Nat
  <2>1. \/ prompts' \in 0..2 /\ requests' = requests + 1
        \/ prompts' = prompts /\ requests' = requests
    BY <1>1, <1>2, EndPromptCases
  <2> QED
    BY <1>2, <2>1 DEF TypeOK
<1>5. batch' \in 0..MaxBatch /\ cancelled' \in BOOLEAN
  BY <1>2 DEF TypeOK
<1> QED
  BY <1>1, <1>3, <1>4, <1>5, ShapeOutsideCalls

\* Every step keeps the shape.
LEMMA NextShape == Shape /\ [Next]_vars => Shape'
<1> SUFFICES ASSUME Shape, [Next]_vars
             PROVE  Shape'
  OBVIOUS
<1> USE DEF Shape
<1>1. CASE Enter
  BY <1>1, ShapeOutsideCalls DEF Enter, TypeOK, CallsAreOfBatch, Outcome
<1>2. CASE Attach
  BY <1>2, ShapeOutsideCalls DEF Attach, TypeOK, CallsAreOfBatch
<1>3. CASE CallerAborts
  BY <1>3, ShapeOutsideCalls DEF CallerAborts, Fire, TypeOK, Guard
<1>4. CASE WallClock
  BY <1>4, ShapeOutsideCalls DEF WallClock, Fire, TypeOK, Guard
<1>5. CASE RequestDeadline
  BY <1>5, ShapeOutsideCalls DEF RequestDeadline, Fire, TypeOK, Guard
<1>6. CASE NoticeSettlement
  BY <1>6, ShapeOutsideCalls DEF NoticeSettlement, TypeOK
<1>7. CASE Respond
  BY <1>7, ShapeOutsideCalls DEF Respond, TypeOK, CallsAreOfBatch
<1>8. CASE AnswersInProse
  BY <1>8, ShapeAfterPrompt DEF AnswersInProse, CallsAreOfBatch
<1>9. ASSUME NEW retried \in BOOLEAN, RequestFails(retried)
      PROVE  Shape'
  <2>1. calling = "none"
    BY <1>9 DEF RequestFails, CallsAreOfBatch
  <2>2. CASE retried /\ ~aborted'
    BY <1>9, <2>1, <2>2, CountTurnCases, ShapeOutsideCalls DEF RequestFails, TypeOK
  <2>3. CASE ~(retried /\ ~aborted')
    BY <1>9, <2>1, <2>3, ShapeAfterPrompt DEF RequestFails
  <2> QED
    BY <2>2, <2>3
<1>10. CASE RequestAborted
  BY <1>10, ShapeAfterPrompt DEF RequestAborted, CallsAreOfBatch
<1>11. ASSUME NEW n \in 0..MaxBatch, AnswersWithCalls(n)
       PROVE  Shape'
  BY <1>11, ShapeOutsideCalls DEF AnswersWithCalls, TypeOK, CallsAreOfBatch
<1>12. ASSUME NEW wall \in Walls, Bounce(wall)
       PROVE  Shape'
  <2>1. Fingerprint(terminal, wall) \in Walls
    BY DEF Fingerprint, TypeOK, Controller
  <2>2. ~Settled(terminal) => terminal.pending = NoWall
    BY <1>12 DEF Bounce, MayCall, SlotBelongsToCall
  <2>3. /\ Sound(terminal') /\ observed' \in Seq(Walls)
        /\ Settled(terminal) => Settled(terminal')
        /\ ~Settled(terminal) => terminal'.pending = NoWall
    BY <1>12, <2>1, ObserveShape DEF Bounce
  <2>4. TypeOK'
    BY <1>12, <2>3, AgentAssumption DEF Bounce, MayCall, TypeOK, Sound
  <2> QED
    BY <1>12, <2>3, <2>4
    DEF Bounce, MayCall, CallsAreOfBatch, SlotBelongsToCall, Sound, Settled
<1>13. CASE Execute
  BY <1>13 DEF Execute, MayCall, TypeOK, CallsAreOfBatch, SlotBelongsToCall, Sound,
               Settled
<1>14. CASE HostAccepts
  <2>1. Sound(terminal') /\ Settled(terminal')
    BY <1>14, AcceptSound DEF HostAccepts
  <2>2. TypeOK'
    BY <1>14, <2>1, AgentAssumption DEF HostAccepts, TypeOK, CallsAreOfBatch, Sound
  <2> QED
    BY <1>14, <2>1, <2>2
    DEF HostAccepts, CallsAreOfBatch, SlotBelongsToCall, Sound, Settled
<1>15. ASSUME NEW wall \in Walls, HostRefuses(wall)
       PROVE  Shape'
  <2>1. Sound(terminal') /\ terminal'.pending = wall
    BY <1>15, RefuseSound DEF HostRefuses
  <2>2. TypeOK'
    BY <1>15, <2>1 DEF HostRefuses, TypeOK, Sound
  <2> QED
    BY <1>15, <2>1, <2>2, TerminalAssumption
    DEF HostRefuses, CallsAreOfBatch, SlotBelongsToCall, Sound, Settled
<1>16. CASE RefusalReported
  <2>1. Fingerprint(terminal, terminal.pending) \in Walls \/ Settled(terminal)
    BY <1>16 DEF RefusalReported, Fingerprint, TypeOK, Controller, CallsAreOfBatch
  <2>2. /\ Sound(terminal') /\ observed' \in Seq(Walls)
        /\ Settled(terminal) => Settled(terminal')
        /\ ~Settled(terminal) => terminal'.pending = NoWall
    BY <1>16, <2>1, ObserveShape DEF RefusalReported
  <2>3. TypeOK'
    BY <1>16, <2>2, AgentAssumption
    DEF RefusalReported, TypeOK, CallsAreOfBatch, Sound
  <2> QED
    BY <1>16, <2>2, <2>3
    DEF RefusalReported, CallsAreOfBatch, SlotBelongsToCall, Sound, Settled
<1>17. CASE SkipCalls
  BY <1>17, ShapeOutsideCalls, AgentAssumption DEF SkipCalls, MayCall, TypeOK
<1>18. CASE TurnEnds
  <2>1. calling = "none"
    BY <1>18 DEF TurnEnds, CallsAreOfBatch
  <2>2. CASE aborted'
    BY <1>18, <2>1, <2>2, ShapeAfterPrompt DEF TurnEnds
  <2>3. CASE ~aborted'
    BY <1>18, <2>1, <2>3, CountTurnCases, ShapeOutsideCalls DEF TurnEnds, TypeOK
  <2> QED
    BY <2>2, <2>3
<1>19. CASE Sealed \/ UNCHANGED vars
  BY <1>19
  DEF Sealed, vars, TypeOK, CallsAreOfBatch, SlotBelongsToCall, Sound, Settled
<1> QED
  BY <1>1, <1>2, <1>3, <1>4, <1>5, <1>6, <1>7, <1>8, <1>9, <1>10, <1>11,
     <1>12, <1>13, <1>14, <1>15, <1>16, <1>17, <1>18, <1>19
  DEF Next, Turn
------------------------------------------------------------------------------
(* Course *)

\* A run that has not started is on course: nothing stopped it and nothing settled.
LEMMA InitCourse == Init => Course
  BY NewControllerSound DEF Init, Course, StopsAbort, SettlementSeals

\* Within a turn the course changes only through the guards.
LEMMA CourseOfCall ==
  ASSUME Course, stage = "turn", UNCHANGED <<stage, cause, aborted, outcome>>
  PROVE  Course'
  BY DEF Course, StopsAbort, SettlementSeals

\* A guard that trips, or the runner that notices the settlement.
LEMMA CourseOfAbort ==
  ASSUME Course, UNCHANGED <<stage, terminal, outcome>>, stage # "called",
         stage # "building", aborted'
  PROVE  Course'
  BY DEF Course, StopsAbort, SettlementSeals, SettlementSeal, Settled

\* After a counted turn a recorded cause has aborted the session.
LEMMA CountTurnAborts ==
  ASSUME TypeOK, StopsAbort, CountTurn
  PROVE  cause' # "none" => aborted'
  BY CountTurnCases DEF StopsAbort

\* A turn that a guard may stop keeps the course when its prompt ends.
LEMMA CourseAfterPrompt ==
  ASSUME Shape, Course, CountTurn, NEW reason, EndPrompt(CauseAfterTurn, reason),
         UNCHANGED terminal
  PROVE  Course'
<1>1. TypeOK /\ Sound(terminal) /\ CauseAfterTurn \in Guard \cup {"none"}
  BY CountTurnCases DEF Shape
<1>2. cause' # "none" => aborted'
  BY <1>1, CountTurnAborts DEF Course
<1>3. \/ outcome' = "none" /\ ~Settled(terminal) /\ stage' = "requesting"
      \/ outcome' # "none" /\ stage' = "sealed"
  BY <1>1, EndPromptCases
<1>4. Settled(terminal) => outcome' = SettlementSeal
  BY <1>1, EndPromptCases
<1>5. SettlementSeal' = SettlementSeal /\ (Settled(terminal') <=> Settled(terminal))
  BY DEF SettlementSeal, Settled
<1> QED
  BY <1>2, <1>3, <1>4, <1>5 DEF Course, StopsAbort, SettlementSeals

\* Every step keeps the course.
LEMMA NextCourse == Shape /\ Course /\ [Next]_vars => Course'
<1> SUFFICES ASSUME Shape, Course, [Next]_vars
             PROVE  Course'
  OBVIOUS
<1> TypeOK /\ Sound(terminal)
  BY DEF Shape
<1>1. CASE Enter
  BY <1>1 DEF Enter, Course, StopsAbort, SettlementSeals, Settled
<1>2. CASE Attach
  BY <1>2 DEF Attach, Course, StopsAbort, SettlementSeals, Settled
<1>3. CASE CallerAborts
  <2>1. CASE Prompting
    BY <1>3, <2>1, CourseOfAbort DEF CallerAborts, Fire, Prompting
  <2>2. CASE ~Prompting
    BY <1>3, <2>2
    DEF CallerAborts, Course, StopsAbort, SettlementSeals, SettlementSeal, Settled
  <2> QED
    BY <2>1, <2>2
<1>4. CASE WallClock \/ RequestDeadline
  BY <1>4, CourseOfAbort DEF WallClock, RequestDeadline, Fire, Prompting
<1>5. CASE NoticeSettlement
  BY <1>5, CourseOfAbort DEF NoticeSettlement, Prompting
<1>6. CASE Respond
  BY <1>6 DEF Respond, Course, StopsAbort, SettlementSeals, SettlementSeal, Settled
<1>7. CASE AnswersInProse
  BY <1>7, CourseAfterPrompt DEF AnswersInProse
<1>8. ASSUME NEW retried \in BOOLEAN, RequestFails(retried)
      PROVE  Course'
  <2>1. CASE retried /\ ~aborted'
    <3>1. cause' # "none" => aborted'
      BY <1>8, CountTurnAborts DEF RequestFails, Course
    <3>2. ~Settled(terminal)
      BY <1>8 DEF RequestFails, Course, StopsAbort
    <3> QED
      BY <1>8, <2>1, <3>1, <3>2
      DEF RequestFails, Course, StopsAbort, SettlementSeals, Settled
  <2>2. CASE ~(retried /\ ~aborted')
    BY <1>8, <2>2, CourseAfterPrompt DEF RequestFails
  <2> QED
    BY <2>1, <2>2
<1>9. CASE RequestAborted
  BY <1>9, CourseAfterPrompt DEF RequestAborted
<1>10. ASSUME NEW n \in 0..MaxBatch, AnswersWithCalls(n)
       PROVE  Course'
  BY <1>10
  DEF AnswersWithCalls, Course, StopsAbort, SettlementSeals, SettlementSeal, Settled
<1>11. ASSUME NEW wall \in Walls, Bounce(wall)
       PROVE  Course'
  BY <1>11, CourseOfCall DEF Bounce, MayCall
<1>12. CASE Execute \/ SkipCalls
  BY <1>12, CourseOfCall DEF Execute, SkipCalls, MayCall
<1>13. CASE HostAccepts
  BY <1>13, CourseOfCall DEF HostAccepts, Shape, CallsAreOfBatch
<1>14. ASSUME NEW wall \in Walls, HostRefuses(wall)
       PROVE  Course'
  BY <1>14, CourseOfCall DEF HostRefuses, Shape, CallsAreOfBatch
<1>15. CASE RefusalReported
  BY <1>15, CourseOfCall DEF RefusalReported, Shape, CallsAreOfBatch
<1>16. CASE TurnEnds
  <2>1. CASE aborted'
    BY <1>16, <2>1, CourseAfterPrompt DEF TurnEnds
  <2>2. CASE ~aborted'
    <3>1. (cause' # "none" => aborted') /\ (aborted => aborted')
      BY <1>16, CountTurnAborts, CountTurnCases DEF TurnEnds, Course
    <3>2. ~Settled(terminal)
      BY <1>16, <2>2, <3>1 DEF TurnEnds
    <3> QED
      BY <1>16, <2>2, <3>1, <3>2
      DEF TurnEnds, Course, StopsAbort, SettlementSeals, Settled
  <2> QED
    BY <2>1, <2>2
<1>17. CASE Sealed \/ UNCHANGED vars
  BY <1>17
  DEF Sealed, vars, Course, StopsAbort, SettlementSeals, SettlementSeal, Settled
<1> QED
  BY <1>1, <1>2, <1>3, <1>4, <1>5, <1>6, <1>7, <1>8, <1>9, <1>10, <1>11,
     <1>12, <1>13, <1>14, <1>15, <1>16, <1>17
  DEF Next, Turn
------------------------------------------------------------------------------
(* Counted *)

\* The counters of a fresh controller agree with its empty history of walls.
LEMMA InitCounted == Init => Counted
  BY CapsArePositive DEF Init, Counted, NewController

\* A longer history differs from a shorter one in its last member only.
LEMMA AppendToHistory ==
  ASSUME NEW h \in Seq(Walls), NEW wall \in Walls
  PROVE  /\ Len(Append(h, wall)) = Len(h) + 1
         /\ Append(h, wall)[Len(h) + 1] = wall
         /\ \A i \in 1..Len(h) : Append(h, wall)[i] = h[i]
  OBVIOUS

\* Observing a wall moves the counters and the history together.
LEMMA CountedObserve ==
  ASSUME Shape, Counted, NEW reason, Observe(reason),
         Fingerprint(terminal, reason) \in Walls \/ Settled(terminal)
  PROVE  Counted'
<1>1. CASE Settled(terminal)
  BY <1>1 DEF Observe, ObserveRejection, Counted
<1>2. CASE ~Settled(terminal)
  <2> DEFINE n    == Len(observed)
             wall == Fingerprint(terminal, reason)
             t    == terminal
             s    == terminal'
  <2>1. n \in Nat /\ observed \in Seq(Walls) /\ wall \in Walls /\ Sound(t)
    BY <1>2 DEF Shape, TypeOK
  <2>2. /\ t.repeated \in Nat /\ t.rejections \in Nat
        /\ t.repeated < MaxRejections /\ t.rejections < MaxTotalRejections
    BY <1>2, CapsArePositive DEF Shape, Sound, Controller
  <2>3. observed' = Append(observed, wall)
    BY <1>2 DEF Observe
  <2>4. /\ Len(observed') = n + 1 /\ observed'[n + 1] = wall
        /\ \A i \in 1..n : observed'[i] = observed[i]
    BY <2>1, <2>3, AppendToHistory
  <2>5. /\ s.rejections = t.rejections + 1
        /\ s.repeated = IF wall = t.last THEN t.repeated + 1 ELSE 1
        /\ s.last = wall
        /\ s.settled = IF s.repeated >= MaxRejections THEN "streak"
                       ELSE IF t.rejections + 1 >= MaxTotalRejections
                            THEN "total" ELSE "pending"
    BY <1>2, <2>1, ObserveFields DEF Observe
  <2>6. /\ t.rejections = n /\ t.repeated <= n
        /\ n = 0 => t.last = NoWall
        /\ n > 0 => t.repeated > 0 /\ t.last = observed[n]
        /\ \A i \in 1..n : i > n - t.repeated => observed[i] = t.last
        /\ t.repeated < n => observed[n - t.repeated] # t.last
    BY DEF Counted
  <2>7. ASSUME s.repeated \in Nat \ {0}, s.repeated <= n + 1,
               \A i \in 1..(n + 1) : i > n + 1 - s.repeated => observed'[i] = wall,
               s.repeated < n + 1 => observed'[n + 1 - s.repeated] # wall
        PROVE  Counted'
    <3>1. s.rejections = n + 1 /\ n + 1 # 0 /\ s.last = observed'[n + 1]
      BY <2>1, <2>4, <2>5, <2>6
    <3>2. s.settled = "streak" <=> s.repeated >= MaxRejections
      BY <2>5
    <3>3. s.settled = "total" <=> /\ s.repeated < MaxRejections
                                  /\ n + 1 >= MaxTotalRejections
      BY <2>1, <2>5, <2>6, <2>7, CapsArePositive
    <3> QED
      BY <2>1, <2>4, <2>5, <2>7, <3>1, <3>2, <3>3 DEF Counted
  <2>8. CASE wall = t.last
    <3>1. n > 0
      BY <2>1, <2>6, <2>8, TerminalAssumption
    <3>2. s.repeated = t.repeated + 1 /\ s.repeated <= n + 1
      BY <2>1, <2>2, <2>5, <2>6, <2>8
    <3>3. \A i \in 1..(n + 1) : i > n + 1 - s.repeated => observed'[i] = wall
      <4> SUFFICES ASSUME NEW i \in 1..(n + 1), i > n + 1 - s.repeated
                   PROVE  observed'[i] = wall
        OBVIOUS
      <4>1. CASE i = n + 1
        BY <2>4, <4>1
      <4>2. CASE i # n + 1
        <5>1. i \in 1..n /\ i > n - t.repeated
          BY <2>1, <2>2, <3>2, <4>2
        <5> QED
          BY <2>4, <2>6, <2>8, <5>1
      <4> QED
        BY <4>1, <4>2
    <3>4. s.repeated < n + 1 => observed'[n + 1 - s.repeated] # wall
      <4> SUFFICES ASSUME s.repeated < n + 1
                   PROVE  observed'[n + 1 - s.repeated] # wall
        OBVIOUS
      <4>1. /\ n + 1 - s.repeated = n - t.repeated
            /\ t.repeated < n /\ n - t.repeated \in 1..n
        BY <2>1, <2>2, <2>6, <3>1, <3>2
      <4> QED
        BY <2>4, <2>6, <2>8, <4>1
    <3> QED
      BY <2>7, <3>2, <3>3, <3>4, <2>2
  <2>9. CASE wall # t.last
    <3>1. s.repeated = 1
      BY <2>5, <2>9
    <3>2. \A i \in 1..(n + 1) : i > n + 1 - s.repeated => observed'[i] = wall
      BY <2>1, <2>4, <3>1
    <3>3. s.repeated < n + 1 => observed'[n + 1 - s.repeated] # wall
      BY <2>1, <2>4, <2>6, <2>9, <3>1
    <3> QED
      BY <2>1, <2>7, <3>1, <3>2, <3>3
  <2> QED
    BY <2>8, <2>9
<1> QED
  BY <1>1, <1>2

\* A submission accepted below the caps leaves them out of reach.
LEMMA CountedAccept ==
  ASSUME Shape, Counted, terminal' = Accept(terminal), UNCHANGED observed
  PROVE  Counted'
<1>1. CASE Settled(terminal)
  BY <1>1 DEF Accept, SettleOnce, Settled, Counted, Shape, Sound, Controller
<1>2. CASE ~Settled(terminal)
  <2>1. /\ terminal.repeated < MaxRejections /\ terminal.repeated \in Nat
        /\ terminal.rejections < MaxTotalRejections /\ terminal.rejections \in Nat
    BY <1>2, CapsArePositive DEF Shape, Sound, Controller
  <2>2. /\ terminal'.settled = "accepted"
        /\ terminal'.rejections = terminal.rejections
        /\ terminal'.repeated = terminal.repeated
        /\ terminal'.last = terminal.last
    BY <1>2 DEF Accept, SettleOnce, Settled, Shape, Sound, Controller
  <2> QED
    BY <2>1, <2>2, CapsArePositive DEF Counted
<1> QED
  BY <1>1, <1>2

\* Every step keeps the counters in agreement with the history.
LEMMA NextCounted == Shape /\ Counted /\ [Next]_vars => Counted'
<1> SUFFICES ASSUME Shape, Counted, [Next]_vars
             PROVE  Counted'
  OBVIOUS
<1>1. CASE UNCHANGED <<terminal, observed>>
  BY <1>1 DEF Counted
<1>2. ASSUME NEW wall \in Walls, Bounce(wall)
      PROVE  Counted'
  <2>1. Fingerprint(terminal, wall) \in Walls
    BY DEF Fingerprint, Shape, TypeOK, Controller
  <2> QED
    BY <1>2, <2>1, CountedObserve DEF Bounce
<1>3. CASE HostAccepts
  BY <1>3, CountedAccept DEF HostAccepts
<1>4. ASSUME NEW wall \in Walls, HostRefuses(wall)
      PROVE  Counted'
  BY <1>4 DEF HostRefuses, Refuse, Counted, Shape, Sound, Controller
<1>5. CASE RefusalReported
  <2>1. Fingerprint(terminal, terminal.pending) \in Walls \/ Settled(terminal)
    BY <1>5
    DEF RefusalReported, Fingerprint, Shape, TypeOK, Controller, CallsAreOfBatch
  <2> QED
    BY <1>5, <2>1, CountedObserve DEF RefusalReported
<1>6. ASSUME Next, ~HostAccepts, ~RefusalReported,
             \A wall \in Walls : ~Bounce(wall) /\ ~HostRefuses(wall)
      PROVE  UNCHANGED <<terminal, observed>>
  BY <1>6
  DEF Next, Turn, Enter, Attach, CallerAborts, WallClock, RequestDeadline,
      NoticeSettlement, Respond, AnswersInProse, AnswersWithCalls, Execute,
      SkipCalls, TurnEnds, RequestFails, RequestAborted, Sealed, vars
<1>7. CASE UNCHANGED vars
  BY <1>1, <1>7 DEF vars
<1> QED
  BY <1>1, <1>2, <1>3, <1>4, <1>5, <1>6, <1>7
------------------------------------------------------------------------------
(* Theorems *)

IInv == Shape /\ Course /\ Counted

\* The inductive invariant holds in every state of every run.
LEMMA Inductive == Spec => []IInv
<1>1. Init => IInv
  BY InitShape, InitCourse, InitCounted DEF IInv
<1>2. IInv /\ [Next]_vars => IInv'
  BY NextShape, NextCourse, NextCounted DEF IInv
<1> QED
  BY <1>1, <1>2, PTL DEF Spec

\* The run, its controller and its counters keep their types: no counter passes
\* its cap and no second nudge is issued.
THEOREM TypeCorrect == Spec => []TypeOK
<1>1. IInv => TypeOK
  BY DEF IInv, Shape
<1> QED
  BY <1>1, Inductive, PTL

\* What settled first seals the run: an accepted submission or a reached cap is
\* never overruled by a guard, a provider failure or a cancellation.
THEOREM SettlementWins == Spec => []SettlementSeals
<1>1. IInv => SettlementSeals
  BY DEF IInv, Course
<1> QED
  BY <1>1, Inductive, PTL

\* The one-slot hand-over of a fingerprint never serves another call.
THEOREM SlotIsExclusive == Spec => []SlotBelongsToCall
<1>1. IInv => SlotBelongsToCall
  BY DEF IInv, Shape
<1> QED
  BY <1>1, Inductive, PTL

\* The streak cap and the total cap seal exactly the histories they describe.
LEMMA CountedGivesStreaks == Shape /\ Counted => StreakIsReal
<1> SUFFICES ASSUME Shape, Counted
             PROVE  StreakIsReal
  OBVIOUS
<1> DEFINE n == Len(observed)
           t == terminal
           streak == /\ n >= MaxRejections
                     /\ \A i \in (n - MaxRejections + 1)..n :
                          observed[i] = observed[n]
<1>1. /\ n \in Nat /\ t.repeated \in 0..MaxRejections
      /\ t.rejections \in 0..MaxTotalRejections
      /\ MaxRejections \in Nat \ {0} /\ MaxTotalRejections \in Nat \ {0}
  BY CapsArePositive DEF Shape, TypeOK, Controller
<1>2. t.repeated >= MaxRejections => streak
  <2> SUFFICES ASSUME t.repeated >= MaxRejections
               PROVE  streak
    OBVIOUS
  <2>1. n >= MaxRejections /\ n > 0 /\ observed[n] = t.last
    BY <1>1 DEF Counted
  <2>2. \A i \in 1..n : i > n - MaxRejections => observed[i] = t.last
    BY <1>1 DEF Counted
  <2>3. \A i \in (n - MaxRejections + 1)..n : i \in 1..n /\ i > n - MaxRejections
    BY <1>1, <2>1
  <2> QED
    BY <2>1, <2>2, <2>3
<1>3. streak => t.repeated >= MaxRejections
  <2> SUFFICES ASSUME streak, t.repeated < MaxRejections
               PROVE  FALSE
    BY <1>1
  <2>1. t.repeated < n /\ n > 0
    BY <1>1
  <2>2. n - t.repeated \in (n - MaxRejections + 1)..n
    BY <1>1, <2>1
  <2>3. observed[n - t.repeated] = observed[n]
    BY <2>2
  <2> QED
    BY <2>1, <2>3 DEF Counted
<1>4. n <= MaxTotalRejections
  BY <1>1 DEF Counted
<1>5. t.settled = "streak" <=> streak
  BY <1>2, <1>3 DEF Counted
<1>6. t.settled = "total" <=> n = MaxTotalRejections /\ ~streak
  BY <1>1, <1>2, <1>3, <1>4 DEF Counted
<1> QED
  BY <1>5, <1>6 DEF StreakIsReal

\* A run is capped by its streak exactly when its last MaxRejections counted
\* rejections hit one wall, and by the total exactly when it is exhausted
\* without such a streak.
THEOREM CapsAreExact == Spec => []StreakIsReal
<1>1. IInv => StreakIsReal
  BY CountedGivesStreaks DEF IInv
<1> QED
  BY <1>1, Inductive, PTL

\* A prompt that ends while the run is stopped or settled is not followed by
\* another.
LEMMA StoppedPromptIsLast ==
  ASSUME Shape, cause # "none" \/ Settled(terminal), CountTurn, NEW reason,
         EndPrompt(CauseAfterTurn, reason)
  PROVE  requests' = requests
<1>1. /\ TypeOK /\ Sound(terminal) /\ CauseAfterTurn \in Guard \cup {"none"}
      /\ cause # "none" => CauseAfterTurn # "none"
  BY CountTurnCases DEF Shape
<1> QED
  BY <1>1, EndPromptCases

\* Every request after a turn needs a session that is not aborted.
LEMMA StoppedRunIsAborted ==
  ASSUME Course, cause # "none" \/ Settled(terminal),
         stage \in {"requesting", "streaming"} \/ (Settled(terminal) => aborted)
  PROVE  aborted
  BY DEF Course, StopsAbort

\* Once a guard has tripped or the terminal tool has settled, no step of any
\* run issues a provider request.
THEOREM StoppedRunPaysNothing == Spec => StoppedRunRequestsNothing
<1> DEFINE Quiet == cause # "none" \/ Settled(terminal) => requests' = requests
<1>1. IInv /\ [Next]_vars => Quiet
  <2> SUFFICES ASSUME IInv, [Next]_vars, cause # "none" \/ Settled(terminal)
               PROVE  requests' = requests
    OBVIOUS
  <2> Shape /\ Course /\ TypeOK
    BY DEF IInv, Shape
  <2>1. ~Attach
    BY DEF Attach, Course, StopsAbort
  <2>2. CASE AnswersInProse \/ RequestAborted
    BY <2>2, StoppedPromptIsLast DEF AnswersInProse, RequestAborted
  <2>3. ASSUME NEW retried \in BOOLEAN, RequestFails(retried)
        PROVE  requests' = requests
    <3>1. ~aborted /\ stage \in {"requesting", "streaming"}
      BY <2>3 DEF RequestFails
    <3> QED
      BY <3>1, StoppedRunIsAborted
  <2>4. CASE TurnEnds
    <3>1. aborted /\ CountTurn
      BY <2>4, StoppedRunIsAborted DEF TurnEnds
    <3>2. aborted'
      BY <3>1, CountTurnCases
    <3> QED
      BY <2>4, <3>1, <3>2, StoppedPromptIsLast DEF TurnEnds
  <2>5. ASSUME Next, ~Attach, ~AnswersInProse, ~RequestAborted, ~TurnEnds,
               \A retried \in BOOLEAN : ~RequestFails(retried)
        PROVE  requests' = requests
    BY <2>5
    DEF Next, Turn, Enter, CallerAborts, WallClock, RequestDeadline,
        NoticeSettlement, Respond, AnswersWithCalls, Bounce, Execute,
        HostAccepts, HostRefuses, RefusalReported, SkipCalls, Sealed, vars
  <2>6. CASE UNCHANGED vars
    BY <2>6 DEF vars
  <2> QED
    BY <2>1, <2>2, <2>3, <2>4, <2>5, <2>6
<1> QED
  BY <1>1, Inductive, PTL DEF Spec, StoppedRunRequestsNothing
=============================================================================
