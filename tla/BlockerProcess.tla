---------------------------- MODULE BlockerProcess ----------------------------
(* The blocker module and the proxy process it owns, as operators on one     *)
(* record.  The module serves its requests one at a time, so a request is    *)
(* one operator; what a launch of the proxy comes to is a parameter.         *)

CONSTANTS
  Lists,   \* filter lists given to the blocker at its start
  Every,   \* stands for "every list": no selection was made yet
  NoEdit,  \* no list executes a replacement
  ListOf   \* the list each edit of the published baseline changes

\* What the present proxy process was spawned with; executed === null.
Nothing == [lists |-> {}, rules |-> {}, edit |-> NoEdit]

(* module: whether and how it ended; started: a proxy host was created; prepared: its     *)
(* authority is known.  enabled, rules and file are what the next launch     *)
(* executes, known is the replacement the module believes in force.  serving *)
(* is what state() answers, addressed whether the remembered route is that   *)
(* of the last launch.                                                       *)
NewModule ==
  [module |-> "up", started |-> FALSE, prepared |-> FALSE, enabled |-> Every,
   rules |-> {}, file |-> NoEdit, known |-> NoEdit, child |-> "none",
   ran |-> Nothing, serving |-> FALSE, addressed |-> FALSE, licence |-> "none"]

Active(lists) == IF lists = Every THEN Lists ELSE lists

-----------------------------------------------------------------------------
(* The proxy process. *)

\* refused: no process; died: gone before it is ready; late: alive, not ready.
Launches == {"ready", "refused", "died", "late"}

Spawned(b) ==
  LET lists == Active(b.enabled)
  IN [lists |-> lists, rules |-> b.rules,
      edit |-> IF b.file # NoEdit /\ ListOf[b.file] \in lists THEN b.file ELSE NoEdit]

Launch(b, o) ==
  IF o = "refused" THEN b
  ELSE [b EXCEPT !.child = IF o = "died" THEN "dead" ELSE "live", !.ran = Spawned(b),
                 !.serving = o = "ready", !.addressed = o = "ready"]

\* Mutant: a proxy that never became ready is taken for one that is gone.
TerminateServing(b) ==
  [b EXCEPT !.child = IF b.serving THEN "none" ELSE @, !.ran = Nothing,
            !.serving = FALSE, !.addressed = FALSE]

Terminate(b) ==
  [b EXCEPT !.child = "none", !.ran = Nothing, !.serving = FALSE, !.addressed = FALSE]

\* The licence device is given back once; a failed reset is only logged.
Release(b, resets) ==
  [b EXCEPT !.licence = IF @ # "held" THEN @ ELSE IF resets THEN "returned" ELSE "kept"]

-----------------------------------------------------------------------------
(* An attempt at a request: the module it leaves, whether it has not thrown, *)
(* whether it cut the sessions of the proxy, whether it restarted it.        *)

Kept(b) == [to |-> b, ok |-> TRUE, cut |-> FALSE, restarted |-> FALSE]
Thrown(b) == [to |-> b, ok |-> FALSE, cut |-> FALSE, restarted |-> FALSE]

\* Without an authority a launch throws before it spawns anything.
Relaunched(b, o) ==
  LET got == IF b.prepared THEN o ELSE "refused"
  IN [to |-> Launch(Terminate(b), got), ok |-> got = "ready", cut |-> TRUE,
      restarted |-> got = "ready"]

\* The second attempt is made when the first has not thrown.
Then(first, second) ==
  IF ~first.ok THEN first
  ELSE [second EXCEPT !.cut = @ \/ first.cut, !.restarted = @ \/ first.restarted]

\* Mutant: every request for a selection restarts the proxy.
RelistedAnew(b, lists, o) ==
  IF b.child = "none" THEN Kept([b EXCEPT !.enabled = lists])
  ELSE Relaunched([b EXCEPT !.enabled = lists], o)

\* Mutant: a new selection waits for the next launch.
RelistedLater(b, lists, o) == Kept([b EXCEPT !.enabled = lists])

\* setEnabledFilters: without a process only the selection is remembered.
Relisted(b, lists, o) ==
  IF lists = b.enabled THEN Kept(b)
  ELSE IF b.child = "none" THEN Kept([b EXCEPT !.enabled = lists])
  ELSE Relaunched([b EXCEPT !.enabled = lists], o)

\* setFilterReplacement: the files change first, belief only after the launch.
Replaced(b, edit, o) ==
  IF edit = b.known THEN Kept(b)
  ELSE LET r == Relaunched([b EXCEPT !.file = edit], o)
       IN IF r.ok THEN [r EXCEPT !.to.known = edit] ELSE r

\* Mutant: a request without rules leaves the rules as they are.
RuledByAny(b, current, rules, o) ==
  IF rules \in {current, {}} THEN Kept(b) ELSE Relaunched([b EXCEPT !.rules = rules], o)

\* setUserRules, for the rules executed when the request was taken up.
Ruled(b, current, rules, o) ==
  IF rules = current THEN Kept(b) ELSE Relaunched([b EXCEPT !.rules = rules], o)

Apply(b, want, o) ==
  LET relisted == Relisted(b, want.lists, o[1])
      replaced == Then(relisted, Replaced(relisted.to, want.edit, o[2]))
  IN IF ~b.started THEN Thrown(b)
     ELSE Then(replaced, Ruled(replaced.to, b.ran.rules, want.rules, o[3]))

\* How the engine gets ready: from the archived home, by an activation, or not.
Preparations == {"restored", "activated", "unprepared", "refused"}

Prepare(b, how, resets) ==
  CASE how = "restored" -> [b EXCEPT !.prepared = TRUE]
    [] how = "activated" -> [b EXCEPT !.prepared = TRUE, !.licence = "held"]
    [] how = "unprepared" -> b
    [] how = "refused" -> Release([b EXCEPT !.licence = "held"], resets)

Start(b, want, o, how, resets) ==
  LET host == Prepare([b EXCEPT !.started = TRUE], how, resets)
      listed == [host EXCEPT !.enabled = want.lists]
      first == Relaunched(listed, o[1])
  IN IF b.started THEN Thrown(b)
     ELSE IF ~host.prepared THEN Thrown(host)
     ELSE IF want.rules = {} /\ want.edit = NoEdit THEN first
     ELSE Then(first, Apply(first.to, want, o))

\* Idempotent; the module runs it for a stop and again when its input ends.
Stop(b, resets) == IF b.started THEN Release(Terminate(b), resets) ELSE b

-----------------------------------------------------------------------------
(* state(): a process that dies later is not noticed. *)

StateLists(b) == IF b.serving THEN b.ran.lists ELSE {}
StateRules(b) == IF b.serving THEN b.ran.rules ELSE {}

\* The file of a list now, read from the disk.
StateEdit(b, l) == IF b.file # NoEdit /\ ListOf[b.file] = l THEN b.file ELSE NoEdit

\* The module ends on its own: its exit guard kills the proxy unless it was
\* killed itself; no licence is given back.
Perish(b, killed) ==
  [b EXCEPT !.module = IF killed THEN "killed" ELSE "died",
            !.child = IF @ = "live" /\ ~killed THEN "dead" ELSE @]
===============================================================================
