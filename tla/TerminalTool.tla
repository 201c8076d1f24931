----------------------------- MODULE TerminalTool -----------------------------
(***************************************************************************)
(* The controller of the terminal tool: the single way an agent run ends   *)
(* with a decision.  Its counters see a rejection only through             *)
(* observeRejection, which the session's tool events feed; a host          *)
(* rejection hands the fingerprint of its reason over in a one-slot        *)
(* variable.  A fingerprint, or the text of a bounce that has none, is a   *)
(* member of Walls: only whether two rejections are the same matters.      *)
(***************************************************************************)
EXTENDS Naturals

CONSTANTS
  Walls,         \* what a submission can be rejected for
  NoWall,        \* stands for an undefined fingerprint
  MaxRejections, \* maxRejections, 3 by default
  TotalMultiple  \* TERMINAL_REJECTION_TOTAL_MULTIPLE, 3

ASSUME TerminalAssumption ==
  /\ NoWall \notin Walls
  /\ MaxRejections \in Nat \ {0}
  /\ TotalMultiple \in Nat \ {0}

MaxTotalRejections == MaxRejections * TotalMultiple

Cap        == {"streak", "total"}
Settlement == {"pending", "accepted"} \cup Cap

Controller ==
  [accepted   : BOOLEAN,                    \* acceptedPayload is set
   rejections : 0..MaxTotalRejections,
   repeated   : 0..MaxRejections,           \* repeatedRejections
   last       : Walls \cup {NoWall},        \* lastFingerprint
   pending    : Walls \cup {NoWall},        \* pendingFingerprint
   settled    : Settlement]

NewController ==
  [accepted |-> FALSE, rejections |-> 0, repeated |-> 0,
   last |-> NoWall, pending |-> NoWall, settled |-> "pending"]

Settled(t) == t.settled # "pending"

\* settleOnce
SettleOnce(t, kind) == IF Settled(t) THEN t ELSE [t EXCEPT !.settled = kind]

Accept(t) == SettleOnce([t EXCEPT !.accepted = TRUE], "accepted")

\* The host refuses a submission before pi reports the failed call.
Refuse(t, wall) == [t EXCEPT !.pending = wall]

\* Mutant: one rejection more than the bounds allow.
CappedLate(repeated, rejections) ==
  IF repeated > MaxRejections THEN "streak"
  ELSE IF rejections > MaxTotalRejections THEN "total" ELSE "pending"

Capped(repeated, rejections) ==
  IF repeated >= MaxRejections THEN "streak"
  ELSE IF rejections >= MaxTotalRejections THEN "total" ELSE "pending"

\* Mutant: a new reason does not start the streak over.
StreakWithoutReset(t, wall) == t.repeated + 1

Streak(t, wall) == IF wall = t.last THEN t.repeated + 1 ELSE 1

\* The fingerprint a reported rejection counts under.
Fingerprint(t, reason) == IF t.pending = NoWall THEN reason ELSE t.pending

\* observeRejection
ObserveRejection(t, reason) ==
  IF Settled(t) THEN t
  ELSE LET wall     == Fingerprint(t, reason)
           repeated == Streak(t, wall)
       IN  [t EXCEPT !.rejections = @ + 1,
                     !.pending = NoWall,
                     !.repeated = repeated,
                     !.last = wall,
                     !.settled = Capped(repeated, t.rejections + 1)]
=============================================================================
