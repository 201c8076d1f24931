----------------------------- MODULE CallLimiter -----------------------------
(***************************************************************************)
(* The first-come-first-served limiter for provider calls                  *)
(* (createCallLimiter).  A request takes a slot while one is free and      *)
(* queues otherwise; a finishing call hands its slot to the head of the    *)
(* queue by resolving a promise, whose continuation runs later.  Until     *)
(* then the slot belongs to a request that is not running yet, and a       *)
(* newcomer must find it taken.                                            *)
(***************************************************************************)
EXTENDS Naturals, Sequences, FiniteSets

CONSTANTS
  Requests,  \* calls that will ask for a slot, each once
  Limit      \* how many calls may be in flight at once

ASSUME LimiterAssumption == IsFiniteSet(Requests) /\ Limit \in Nat \ {0}

VARIABLE limiter  \* the closure of one createCallLimiter call

Standing == {"idle", "waiting", "handed", "running", "done"}

Limiter == [inFlight : Nat, waiting : Seq(Requests),
            standing : [Requests -> Standing]]

NewLimiter == [inFlight |-> 0, waiting |-> <<>>,
               standing |-> [r \in Requests |-> "idle"]]

\* Requests whose slot is counted: the running ones and the one it was handed to.
Holding(l) == {r \in Requests : l.standing[r] \in {"handed", "running"}}

LimiterInit == limiter = NewLimiter

\* Mutant: the queue is looked at one slot too late.
EnterOneMore(l, r) ==
  IF l.inFlight <= Limit
  THEN [l EXCEPT !.inFlight = @ + 1, !.standing[r] = "running"]
  ELSE [l EXCEPT !.waiting = Append(@, r), !.standing[r] = "waiting"]

\* run() up to its first await.
Enter(l, r) ==
  IF l.inFlight < Limit
  THEN [l EXCEPT !.inFlight = @ + 1, !.standing[r] = "running"]
  ELSE [l EXCEPT !.waiting = Append(@, r), !.standing[r] = "waiting"]

\* The resolved promise continues: the call starts in the slot it was handed.
Resume(l, r) == [l EXCEPT !.standing[r] = "running"]

\* The finally block, however the call settled.
Leave(l, r) ==
  IF l.waiting = <<>>
  THEN [l EXCEPT !.inFlight = @ - 1, !.standing[r] = "done"]
  ELSE [l EXCEPT !.waiting = Tail(@), !.standing[r] = "done",
                 !.standing[Head(l.waiting)] = "handed"]

LimiterNext ==
  \E r \in Requests :
    \/ limiter.standing[r] = "idle"    /\ limiter' = Enter(limiter, r)
    \/ limiter.standing[r] = "handed"  /\ limiter' = Resume(limiter, r)
    \/ limiter.standing[r] = "running" /\ limiter' = Leave(limiter, r)

LimiterSpec == LimiterInit /\ [][LimiterNext]_limiter
------------------------------------------------------------------------------
\* Every slot in use belongs to exactly one request that runs or was handed the
\* slot, there are never more of them than the limit, and nobody queues while a
\* slot is free (createCallLimiter: "inFlight stays as it is" on a hand-over).
SlotsAreCounted ==
  /\ limiter.inFlight = Cardinality(Holding(limiter))
  /\ limiter.inFlight <= Limit
  /\ limiter.waiting # <<>> => limiter.inFlight = Limit
=============================================================================
