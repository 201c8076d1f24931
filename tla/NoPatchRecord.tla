----------------------------- MODULE NoPatchRecord -----------------------------
(***************************************************************************)
(* The record the run publishes for an accepted claim that no patch is     *)
(* needed.  The claim is judged once more by runAgenticFixCore, on         *)
(* serialized sessions and with predicates of its own; the sessions of the *)
(* record are then replaced by those of the filtering environment, if one  *)
(* was built; and FixRunResultSchema has the last word: a record it        *)
(* rejects fails the run.                                                  *)
(***************************************************************************)
EXTENDS TerminalJudgement

VARIABLE record

NoRecord == [status |-> "none", verification |-> "unavailable", parses |-> TRUE]

NoPatchClaims == Resolutions \cup {"close_not_reproduced"}

\* browserState.usable
Usable == \E i \in Ids : sessions[i].navigated

\* deriveFixRunStatus, and what runAgenticFixCore puts before it: a claim that
\* was accepted for want of a browser is not the status of the record, and a
\* close for want of a symptom is a resolution.
StatusOf(claim) ==
  IF ~Usable THEN "unavailable"
  ELSE IF claim = "close_not_reproduced" THEN "not_reproduced" ELSE claim

-----------------------------------------------------------------------------
(* Sessions as the record holds them.  A session of the agent is known by  *)
(* its launch order; those of an experiment's phases, which browse on      *)
(* their own, have the identity zero.                                      *)

PhaseSessionId == 0

\* serializeAgentBrowserSessions
Serialized(i) ==
  LET s == sessions[i]
      read == {k \in DOMAIN s.captures : WhollyRead(s.captures[k])}
  IN [id       |-> i,
      mode     |-> s.mode,
      kind     |-> s.kind,
      profile  |-> s.profile,
      settings |-> Credited(s),
      readBack |-> s.credit = "read back",
      proven   |-> Proven(i),
      shows    |-> {s.captures[k].presence : k \in read}]

AgentSessions == {Serialized(i) : i \in Ids}

PhaseOutcomes == {"failed", "unread"} \cup Presences

\* projectPhaseSession for the phase of that rank; A runs without the blocker.
\* Its kind and profile are left out: a comparison never names a phase.
PhaseSession(rank, outcome) ==
  [id       |-> PhaseSessionId,
   mode     |-> IF rank = 1 THEN "none" ELSE "prepared",
   settings |-> rank # 1,
   readBack |-> rank # 1,
   proven   |-> outcome # "unread",
   shows    |-> {outcome} \cap Presences]

\* The phases of the experiment the projection answers for; failed ones have
\* no session.
PhaseSessions(outcomes) ==
  {PhaseSession(k, outcomes[k]) : k \in {j \in DOMAIN outcomes : outcomes[j] # "failed"}}

-----------------------------------------------------------------------------
(* The second judgement.                                                    *)

\* Mutant: a control is asked for the settings that only a prepared session has.
ControlWithSettings(S) ==
  /\ \E s \in S : s.proven /\ s.mode = "none" /\ s.readBack
  /\ \E s \in S : s.proven /\ s.mode = "prepared" /\ s.readBack

\* hasControl and hasPreparedExtension: settings count by their read-back.
AlreadyFixedComplete(S) ==
  /\ \E s \in S : s.proven /\ s.mode = "none"
  /\ \E s \in S : s.proven /\ s.mode = "prepared" /\ s.readBack

\* selectConfigurationSpecificEnvironmentMatrix: a session with the symptom,
\* and one with the defaults and without it.
Showing(S, presence) ==
  {s \in S : s.mode = "prepared" /\ s.readBack /\ s.proven /\ presence \in s.shows}

Matrix(S) ==
  {pair \in Showing(S, "present") \X Showing(S, "absent") :
     /\ pair[1].kind \in {"reported", "selected"} /\ pair[2].kind = "defaults"
     /\ pair[1].profile = pair[2].profile}

EvidenceComplete(claim) ==
  CASE claim = "already_fixed_current"  -> /\ \E i \in TerminalSessions : Proven(i)
                                           /\ AlreadyFixedComplete(AgentSessions)
    [] claim = "configuration_specific" -> Matrix(AgentSessions) # {}
    [] OTHER                            -> \E i \in TerminalSessions : Proven(i)

\* deriveAgenticVerificationStatus
VerificationOf(claim) ==
  IF ~Usable THEN "unavailable"
  ELSE IF EvidenceComplete(claim) /\ claim # "fixed_upstream_pending_extension"
  THEN "verified" ELSE "partial"

-----------------------------------------------------------------------------
(* The last word.                                                           *)

\* noPatchVerdictIsSessionBound
SessionBound(status, S) ==
  LET proven == {s \in S : s.proven}
  IN IF status = "already_fixed_current"
     THEN /\ \E s \in proven : s.mode = "none"
          /\ \E s \in proven : s.mode = "prepared" /\ s.settings
     ELSE proven # {}

\* The checks of FixRunResultSchema on the two claims that compare sessions.
\* The comparison names the agent's sessions.
Parses(status, verification, S) ==
  LET Has(mode, presence) ==
        \E s \in S : /\ s.mode = mode /\ s.proven /\ presence \in s.shows
                     /\ mode = "prepared" => s.settings
      ids   == {s.id : s \in S}
      pairs == {pair \in Matrix(AgentSessions) : {pair[1].id, pair[2].id} \subseteq ids}
  IN /\ status = "already_fixed_current" =>
          Has("none", "present") /\ Has("prepared", "absent")
     /\ status = "configuration_specific" /\ verification = "verified" =>
          pairs # {}

\* The provisional record, or the one with the sessions of the environment,
\* lowered when those do not prove the verdict.
PublishRecord(status, verification, S) ==
  LET held == IF verification = "verified" /\ ~SessionBound(status, S)
              THEN "partial" ELSE verification
  IN record' = [status |-> status, verification |-> held,
                parses |-> Parses(status, held, S)]

PublishProvisional ==
  PublishRecord(StatusOf(decision), VerificationOf(decision), AgentSessions)

\* The projection of the environment may be refused, and is when a verified
\* experiment does not show three sessions: the provisional record is kept.
\* Otherwise a failed cleanup takes the claim away.
PublishProjected ==
  /\ disposition # "none"
  /\ \E n \in 0..3 : \E outcomes \in [1..n -> PhaseOutcomes] :
       /\ disposition = "verified" =>
            n = 3 /\ \A k \in 1..n : outcomes[k] # "failed"
       /\ \/ PublishRecord(StatusOf(decision), VerificationOf(decision),
                           PhaseSessions(outcomes))
          \/ PublishRecord("failed", "unavailable", PhaseSessions(outcomes))

Publish ==
  /\ decision \in NoPatchClaims /\ record = NoRecord
  /\ PublishProvisional \/ PublishProjected
  /\ UNCHANGED judgementVars
==============================================================================
