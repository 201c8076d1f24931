------------------------- MODULE EnvironmentExecution -------------------------
(***************************************************************************)
(* What the filtering environment of a run promises to whoever reads its   *)
(* execution, without adapters, deadlines, drains or parallel calls:       *)
(* evidence is gathered phase by phase under open leases, it is never      *)
(* rewritten, and at most one execution escapes, after which nothing       *)
(* changes.  A verdict other than "failed" is published only when no lease *)
(* is held, and "verified" only over a complete experiment.                *)
(***************************************************************************)
EXTENDS PhaseLedger

VARIABLES
  evidence, \* per phase token: its completion, or "none"
  held,     \* phase tokens whose lease is open
  outcome   \* "open", the published status, or "absent" when none escapes

vars == <<evidence, held, outcome>>

Init ==
  /\ evidence = [t \in Token |-> "none"]
  /\ held = {}
  /\ outcome = "open"

\* Phase B follows evidence of A, phase C a baseline that shows the symptom.
Ready(t) ==
  /\ t[2] = "B" => evidence[<<t[1], "A">>] # "none"
  /\ t[2] = "C" => evidence[<<t[1], "B">>] = "positive"

Complete(x) ==
  /\ evidence[<<x, "A">>] \in Observed
  /\ evidence[<<x, "B">>] = "positive"
  /\ evidence[<<x, "C">>] = "positive"

Open(t) ==
  /\ outcome = "open"
  /\ t \notin held
  /\ evidence[t] = "none"
  /\ Ready(t)
  /\ held' = held \cup {t}
  /\ UNCHANGED <<evidence, outcome>>

\* A phase is observed under its own lease; a judged candidate needs the
\* observed control phase.
Observe(t, k) ==
  /\ outcome = "open"
  /\ t \in held
  /\ evidence[t] = "none"
  /\ t[2] = "C" /\ k \in Observed => evidence[<<t[1], "A">>] \in Observed
  /\ evidence' = [evidence EXCEPT ![t] = k]
  /\ UNCHANGED <<held, outcome>>

Close(t) ==
  /\ outcome = "open"
  /\ t \in held
  /\ held' = held \ {t}
  /\ UNCHANGED <<evidence, outcome>>

Publish(status) ==
  /\ outcome = "open"
  /\ status # "failed" => held = {}
  /\ status = "verified" => \E x \in Experiments : Complete(x)
  /\ outcome' = status
  /\ UNCHANGED <<evidence, held>>

Abandon ==
  /\ outcome = "open"
  /\ evidence = [t \in Token |-> "none"]
  /\ held = {}
  /\ outcome' = "absent"
  /\ UNCHANGED <<evidence, held>>

Next ==
  \/ \E t \in Token : Open(t) \/ Close(t) \/ \E k \in Completion : Observe(t, k)
  \/ \E status \in Disposition : Publish(status)
  \/ Abandon

Spec == Init /\ [][Next]_vars
=============================================================================
