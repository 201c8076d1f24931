---------------------------- MODULE LeaseRegistry ----------------------------
(***************************************************************************)
(* The state an adapter of the Extension environments keeps about browser  *)
(* sessions: its lifecycle, the open leases and the cleanup receipt        *)
(* (PhaseLeaseRegistry, and the same code inlined in                       *)
(* BrowserExtensionEnvironment).  A lease identity is the phase token it   *)
(* was opened for; a session is that token and how it came to be, because  *)
(* the Firefox route replaces the created session by a relaunched one      *)
(* under the same lease.                                                   *)
(***************************************************************************)
EXTENDS PhaseLedger

Session == Token \X {"created", "relaunched"}

LeaseOf(s) == s[1]

Lifecycle == {"unprepared", "ready", "limited", "cleaned", "cleanup_failed"}

Adapter ==
  [lifecycle : Lifecycle,
   leases    : SUBSET Session,
   receipt   : Receipt]

NewAdapter == [lifecycle |-> "unprepared", leases |-> {}, receipt |-> "none"]

Prepare(a, ready) ==
  [a EXCEPT !.lifecycle = IF ready THEN "ready" ELSE "limited"]

MayOpen(a) == a.lifecycle = "ready"

\* Mutant: a lease keeps the session it was opened with.
RetainFirst(a, s) ==
  IF \E o \in a.leases : LeaseOf(o) = LeaseOf(s)
  THEN a ELSE [a EXCEPT !.leases = @ \cup {s}]

\* Retaining a session replaces whatever its lease identity held.
Retain(a, s) ==
  [a EXCEPT !.leases = {o \in @ : LeaseOf(o) # LeaseOf(s)} \cup {s}]

\* A closed session is dropped by its lease identity, with whatever session the
\* identity holds by then.
Release(a, s) == [a EXCEPT !.leases = {o \in @ : LeaseOf(o) # LeaseOf(s)}]

\* Mutant: the receipt is complete whatever the drain left.
CleanUpBlindly(a, closeFailed) ==
  [a EXCEPT !.receipt = "completed", !.lifecycle = "cleaned"]

\* The receipt and lifecycle that cleanup leaves once its own drain is over:
\* complete only if no close failed and no lease is left.
CleanUp(a, closeFailed) ==
  LET receipt == IF ~closeFailed /\ a.leases = {} THEN "completed" ELSE "failed"
  IN  [a EXCEPT !.receipt = receipt,
                !.lifecycle = IF receipt = "completed" THEN "cleaned"
                                                       ELSE "cleanup_failed"]
=============================================================================
