# Filters agent: TLA+ models, checks and proofs

The repository is an agent that repairs ad-blocking filter lists: it reads an issue, opens the
reported page in a real browser, lets a language model propose a rule, tries that rule in a
controlled experiment, and publishes what it could prove. (Its own README only says that the
project has moved to `AdguardTeam/FiltersAgent`; what is said here comes from the source.)
This directory holds TLA+ models of the parts of it that are concurrent, that fail in the middle,
or that must agree with one another, the TLC runs that check them on small instances, and TLAPS
proofs of theorems about them for every instance.

Contents: [the system](#1-the-system) · [hazards](#2-what-is-hard) · [modules](#3-modules-and-code)
· [runs](#4-runs) · [fairness](#5-fairness) · [proofs](#6-proofs)
· [disagreements](#7-disagreements-between-code-and-comments) · [not modelled](#8-what-is-not-modelled)
· [plan](#9-plan)

## 1. The system

One run handles one issue. The parts, with their lines of TypeScript:

| part (`src/src/...`) | lines | state it keeps | operations |
|---|---|---|---|
| `orchestrator` | 23,473 | the run: browser in use, technical budgets, evidence of each session, candidate ledger, disposition of the environment | `launch_browser`, `close_browser`, `open_page`, `apply_rule`, `finish_fix`, finalization |
| `environment` | 12,586 | adapter lifecycle, open leases, phase evidence, selected environment | `prepare`, `openPhase`, `closePhase`, `drain`, `cleanup`; recorder `beginPhase` ... `finalize`; projection |
| `browser` | 12,517 | one browser process, its pages and captures | create, navigate, interact, capture, bounded close |
| `local` | 11,952 | output directories, staging, locks, evidence files | local runs, promotion of results, review checkouts |
| `validator` | 7,803 | per-experiment observations | phase orchestration, page probes, visual review |
| `pi` | 6,214 | one agent session: counters of the terminal tool, cause of a guard | run, nudge, guards, sealing, tool deadlines, call limiter, single shots |
| `types` | 5,676 | none | schemas |
| `proxy-blocker`, `adguard-cli` | 4,008 + 1,968 | a helper process and its configuration | start, health check, configure, stop |
| `knowledge` | 3,906 | a read-only index | lookup |
| `repo` | 3,707 | a checkout of the filter lists | sorted insertion, normalization, edits, branches |
| `entry` | 3,476 | none of its own | CI entry points, publication gate |
| `agent` | 3,200 | none | roles and their tools |
| `publisher` | 3,153 | comments, branches, pull requests on GitHub | publish, update |
| `github` | 1,567 | none | REST calls |
| `tracer`, `logger` | 1,559 + 22 | append-only trace | record |
| `blocker-contract` | 1,516 | none | schemas shared with the helper process |
| `prompts` | 1,245 | none | text |
| `action` | 1,214 | none | GitHub Action wrapper |
| `analyzer`, `intake`, `parser` | 1,072 + 704 + 275 | none | read an issue |
| `queue` | 1,059 | budget of a backlog run | take, run, account |
| `config` | 895 | none | constants, environment |
| `rules` | 750 | none | parse and canonicalize rules |
| `session` | 719 | stored session files | append, read |
| `pr` | 190 | none | pull request text |

How they interact, for the parts with a protocol:

    issue -> intake/parser/analyzer -> orchestrator (one fix session)
                                          |
        agent session (pi) ---- tool calls, some in parallel within a turn ----+
          guards, nudge,          launch_browser / open_page / close_browser   |
          terminal tool           apply_rule -> gate -> candidate ledger       |
              |                                  |                             |
              | finish_fix                       v                             |
              |                      ensure environment -> adapter + recorder  |
              v                      phase A, B, C: open, observe, close <-----+
        terminal validation                      |
              |                                  v
              +------> finalization: drain, cleanup, receipt, finalize, projection
                                                 |
                                                 v
                                result -> publication gate -> publisher

Everything runs in one Node.js process: code between two awaits is atomic, and what interleaves are
the settlements of promises (a browser that has started, a page that has loaded, a timer). The agent
loop starts all tool calls of a turn together. A deadline does not stop the call it is for: it aborts
a signal, waits a grace, and leaves the call running behind its back.

What makes each part correct:

- **Recorder** (`filtering-environment-execution-recorder.ts`): evidence of a phase is written once,
  artifacts belong to observed phases only, nothing is published over an unsettled ledger, and nothing
  changes after publication, whatever order its methods are called in.
- **Experiment** (`phase-orchestrator.ts`, `browser-extension-environment.ts`, `agent-runtime.ts`): no
  session is lost on any failure path; a late call neither writes nor judges; a verified run is backed
  by three observed phases of the proposed candidate; the run ends though a browser hangs.
- **Agent run** (`pi/`): the first settlement wins over every guard, caps are exact, a stopped run
  sends no further request, every run is sealed.
- **Browser access** (`agent-runtime.ts`): tools act on the active session, no browser outlives the run,
  an exhausted target stays exhausted, a late launch has no effect, the advice given can be followed.
- **Candidate ledger** (`agent-runtime.ts`): numbers are dense and stable, verdicts belong to registered
  candidates, validations are bounded, a dead browser is not mistaken for a limit of the environment.
- **Page evidence and `finish_fix`** (`terminal-*.ts`, `agent-runtime.ts`): what was proven stays proven, the
  advice of a refusal can be followed to an accepted answer, and what was accepted is what is published
  (`agentic-fix-core.ts`, `fix-run-result.ts`).
- **Environment selection**: one environment is locked per run and what is used is what was selected.
- **Proxy blocker** (`adguard-cli`, `blocker-contract`, `proxy-blocker`): a phase is observed under the lists,
  rules and bytes its proof names although launches fail and processes die; what the agent changed is taken
  back; the proxy and its licence do not outlive the run.
- **Queue, entry points, publisher** (`queue`, `entry`, `publisher`, `github`): a revision of an issue is
  reported once, only where a report is welcome and within a budget; a report's links stay; a run's record
  says what happened.
- **Local publication** (`local/evidence-publication.ts`, `output-directory.ts`): after a crash a published
  result is whole or not listed; what was returned stays; a secret is never published.
- **Repository editing**: a rule inserted into a sorted section leaves it sorted and is found again.
- **Provider calls and the visual review** (`pi/call-limiter.ts`, `pi/single-shot*.ts`, `validator/candidate-visual-*.ts`):
  never more calls than the limit in flight, none left behind for ever, and a candidate accepted only if it was seen
  to work, with every dismissed observation put to an audit.

## 2. What is hard

`PROJECT.json` lists each hazard at its line, with the properties that would catch it. They fall
into these groups:

- two `apply_rule` calls of one turn, each suspended inside the same check-then-set;
- a call that outlives its deadline, and even its grace, and settles into a run that has gone on;
- a step of several that fails: an observation that throws after its phase was completed, a close that
  is rejected, a relaunch that fails between two sessions, a cleanup after a failed drain;
- several reasons to end a run pending at once;
- a value read before an await and used after it (the ordinal of an experiment, the navigated session,
  the accepted candidate's latest evidence);
- a request that fails after it has changed the files it is about, and a record that runs ahead of what is
  in force (the blocker);
- answers that are lost after their effect, and facts about an issue that are read in several requests and
  stale when the report is posted;
- processes that are killed, and machines that lose power, between two file operations;
- calls to a model that run side by side, are retried, repaired and audited within a common budget, and go on
  unattended when one of them has failed or the deadline has struck;
- counters at their limits (rejections, attempts per target, validations per candidate, phases);
- two predicates that should say the same and do not;
- evidence that is recomputed on every call, and judged three times: by the gate of `finish_fix`, by the core
  that writes the record, and by the record's schema;
- advice that a language model follows literally and that may lead round in a circle.

## 3. Modules and code

`PROJECT.json` gives, under `map`, the lines behind every definition. A definition whose comment begins
with "Mutant:" is a wrong variant of the operator next to it. No specification uses it: it is there to
show that a property fails when the code is wrong in that way.

Two conventions. A component that is a plain object is a record and a set of operators on it, with no
variables (`PhaseLedger`, `LeaseRegistry`, `TerminalTool`, `TechnicalBudget`, `BlockerProcess`); the modules that own such
an object keep it in a variable. A method that can throw is a pair: `MayX` is the conjunction of the
checks that do not throw and `X` the new value. In the modules with processes an action is the code
between two awaits, and a call remembers in a field named `at` where it is suspended.

| module | models | extends |
|---|---|---|
| `PhaseLedger` | the value of `FilteringEnvironmentExecutionRecorder` and each of its methods | |
| `ExecutionRecorder` | that object under callers in any order | `PhaseLedger` |
| `LeaseRegistry` | lifecycle, leases, receipt of an adapter (`PhaseLeaseRegistry` and its inlined twin) | `PhaseLedger` |
| `PhaseExperiment` | `apply_rule` from the first line of `runCommonExtensionCandidate` to the published execution | `LeaseRegistry` |
| `EnvironmentExecution` | the abstract promise of an environment to those who read its execution | `PhaseLedger` |
| `TerminalTool` | controller of the terminal tool (`terminal-tool.ts`, `tool-bounce.ts`) | |
| `AgentRun` | `runAgentSession`, guards, two-prompt flow, sealing | `TerminalTool` |
| `TechnicalBudget` | the technical failure budget of one target | |
| `BrowserAccess` | `launch_browser`, `close_browser`, `open_page`, dispose, the first check of an analysis-only report | `TechnicalBudget` |
| `CandidateLedger` | the gate of `apply_rule`, attempt numbers, retries, reveal plans, bootstrap failures | |
| `PageEvidence` | what the agent's sessions prove: settings, pages, captures, readings, candidates | `TechnicalBudget` |
| `TerminalJudgement` | `validateTerminalOutcome`: what a decision must be backed by, and what a refusal advises | `PageEvidence` |
| `NoPatchRecord` | the published record of a claim that no patch is needed | `TerminalJudgement` |
| `EvidenceRun` | the agent over these three: any tool in any order, then the advice, then the record | `NoPatchRecord` |
| `IssueHistory` | what is read of an issue: its revision, own reports, the publication guard, what is due in a backlog | |
| `ReportRun` | single-issue and backlog runs that report on GitHub, next to people who write there | `IssueHistory` |
| `LocalPublication` | publication of a local run as files, its cleanup, crashes | |
| `CallLimiter` | `createCallLimiter` with callers at any moment | |
| `VisualReview` | `reviewCandidateVisually`: inventories, synthesis, verdict, and the single-shot calls under them | `CallLimiter` |
| `ReviewedExperiment` | an experiment that waits for the review of its candidate in phase C | `PhaseExperiment`, `VisualReview` |
| `BlockerProcess` | the blocker module and the proxy it owns: start, apply, state, stop | |
| `ProxyEnvironment` | evidence route, adapter, phases, `launch_browser` and cleanup over that module | `BlockerProcess` |

`MC*.tla` declare symmetry and sets of inputs for TLC and `MC*.cfg` give the constants their values; `*Proofs.tla` hold the proofs.

### PhaseLedger, ExecutionRecorder

`recorder` (in `PhaseExperiment`, one `rec` per environment) is the recorder: whether an adapter is registered, per phase token its entry (`issued` by
`beginPhase`, `bound` by `bindPhaseLease`, then its completion), per artifact its owner, the cleanup
receipt and whether the drain failed, and `finalized`. A token is an experiment with one of the phases A
(baseline), B (blocking off) and C (candidate). Digests, settings proofs and schemas are abstracted to
what the later code tells apart: a completion is `positive` (it speaks for the candidate), `negative` or
`failed`, and a completion that cites artifacts of other phases may do so only for those in `Citable`.
`Writable` is `assertWritable`; `MayFinalize` is the list of checks of `finalize`, `FinalStatus` the
degradation of the provisional status.

### LeaseRegistry, PhaseExperiment

One call is one experiment. `call[c].at` is the await it is suspended in: `preparing`
(`adapter.prepare`), `opening` (`createSession`), `configuring` and `relaunched` (the phase
configuration, with the Firefox replacement of the session), `observing` (the observer), `closing`
(`closePhase`); `ensured` and `phase` are points the code passes without waiting on anything that can
hang. The runtime's fields `filteringEnvironmentAdapter` and `...Recorder` are `env`; each call captures
them as `call[c].env`. `live` is the set of browser processes, whatever the program knows of them.

`Expire(c)` is the deadline of the tool or the abort of the run (they are one signal,
`AbortSignal.any` in `adaptSessionTools`), `GraceExpires(c)` the end of the settle grace, after which
nobody waits for the call but its code goes on. While the observer runs, expiry completes the phase as
failed in the same step (`racePhaseAbort`). `EndRun` ends the agent loop, `DrainOne` and `DrainThrows`
close what the adapter holds, `BeginCleanup` starts the second drain, and `Finish` is receipt,
`recordCleanup`, `finalize` and projection: they await no I/O, so nothing interleaves with them
(`Flushing` says that of the whole chain). `accepted` is, per candidate, the call whose verified outcome is the latest; `disposition` is the
field `filteringEnvironmentDisposition`, and `published` what the projection attaches to the result.

A close does not always end a browser: it may be rejected, or be given up after the forced kill and return all the
same, and then `Survives` (`Closed` is a close that returns, with either outcome). `unclosed` is history, the sessions
whose browser has survived a close, and `MaxSurvivors` bounds it. The Firefox relaunch closes the session in hand,
survives a failure of that close, and may fail itself afterwards (`RelaunchFails`); the session it hands back takes the
place of the old one under the same lease (`RetainReplacement`). Closing and draining drop a lease by its identity,
after the close they wait for (`Release`): what stands under the identity by then is dropped, whichever session it is
(section 7). A session that is already being closed by its own call counts as closed for the drain at once
(`InFlight`), as `BrowserSession.close` returns at once to a second caller.

The baseline phase gives no verdict (`negative` or `failed`). A phase C that is observed and not positive
replaces an accepted outcome of the same candidate, as the ledger of outcomes does.

### EnvironmentExecution

The promise, without adapters, deadlines and calls: a lease is held for a phase from its opening to its
closing, evidence is gathered under a held lease or as a failure, it is never rewritten, and at most one
execution is published, as `verified` only over three observed phases of one experiment, and as anything
but `failed` only when no lease is held. `PhaseExperiment` implements it under the mapping `Promise`.

### TerminalTool, AgentRun

The controller keeps `settled`, the last fingerprint, its streak, the total, and the one-slot variable in
which a host rejection hands its fingerprint to `observeRejection`. `AgentRun` puts around it the loop of
the agent library (external: requests, streams, batches of tool calls, retries), the guards
(`attachRunGuards`: wall clock, turns, request deadline, the caller's signal) and `runPromptPhase` with
its nudge. A turn is the number of terminal submissions in its batch: other tools only take time.
`Fire` records the first cause and aborts; `Seal` is the order in which `settleRun` and `classifyEnd` look at what
is pending. `observed` is history: the fingerprints counted so far.

Some details. The library's abort always takes effect. Attaching and the first prompt are one step, and
so are a prose ending and the nudge. A run waits for the settlement's abort before a turn ends
(`tool-bounce.ts`). `Bounce` also stands for a submission that fails the schema inside `execute`. The
message that steers a run to wrap up, compaction and telemetry are left out; a wall clock and a turn
limit are assumed to be configured, as the callers in this repository do.

### TechnicalBudget, BrowserAccess

A launch call is named by a launch identity, and so is the session it creates; `launch[l].at` is its await
(`checking`, `disposing` the previous session, `creating`, `preparing`, `discarding` or `failing` its own).
`active` is `browserSession` together with `activeSessionId` (they always change together), `tools` the
session the merged tools act on, `browser` the life of each process (`BrowserSession.close` never rejects
and is bounded). A target stands for a registrable domain. `answered` marks a launch whose caller got the
deadline's answer. `budget[t]` is charged by failed launches, failed and refused pages, and pages withheld
behind a wall. `MayFinishAnalysisOnly` is the first check of an analysis-only report in
`terminal-outcome-validator.ts`.

### CandidateLedger

A candidate is a key of the ledger (operation and canonical rule); a plan is the digest of the reveal
steps. `attempt` holds the numbers, `outcome` the latest verdict, `judged` the plans and `tried` the browser
sessions a candidate was tried under, `executions` and `absent` the counters, `ordinal` and `bootstrap` the
latest experiment and the one whose browser died (`phaseBootstrapFailure`), `limited` whether the runtime
holds a limitation of the environment.
`Admits` is the gate in front of the tool, in the order of the code; the `Answer...` actions are what
`recordCandidateValidationOutcome` and its neighbours leave behind. A call that has expired answers with
the timeout result, which records nothing. The experiment itself is reduced to the sessions it opens and
the answer it ends with: `PhaseExperiment` has the rest.

### PageEvidence, TerminalJudgement

`sessions` is `sessionStates` in launch order, each with the fields the judgement reads: the mode and profile
it was launched with, how its settings were proven (`credit`: read back by the AdGuard route, declared by the
Firefox one, `Unset` when unverified), whether it reached the target, whether the target's server refused the
document, and its captures. A capture is its completeness, the required images vision has read, and the two
conclusions of an inventory (`presence` of the symptom, `view` of an obstruction). `full` is
`fullVisionVerified`, recomputed where the code recomputes it (`Refreshed`). `disposition` is the status of the
filtering environment's last experiment, `candidate` the latest validation.

An action is one whole tool call. Its timing is the subject of `BrowserAccess`, and the experiment behind
`apply_rule` that of `PhaseExperiment`; here it leaves a verdict, a visit, and possibly a limited environment.
All sessions browse one target and the route is an extension.

`Judge` is the list of checks in the order of the code, and its value the `errorKind` of the first that
refuses. Of the advice only `nextAction` and `requiredAction` are kept. `Judge` never changes the evidence, so
`FinishFix` is one conjunct and an assignment. `AdvanceVision` and `DoAsAdvised` (`EvidenceRun`) are the agent
that does what it is told: they translate each advice into the calls it names.

### NoPatchRecord

`Serialized` is a session as the record holds it. `AlreadyFixedComplete` and `Matrix` are the core's own
predicates, which are not those of the gate, `SessionBound` the condition under which a verified claim is
kept, `Parses` the checks of `FixRunResultSchema` on the two claims that compare sessions. `Publish` writes the
provisional record, or, when an experiment was run, the record with the sessions of its phases: those browse on
their own and what they show is chosen freely (`PhaseOutcomes`), three observed ones behind a verified
disposition. A refused projection keeps the provisional record; a failed cleanup takes the claim away.

### IssueHistory, ReportRun

`issues` is what GitHub holds, `branch` the branch of the screenshots, `run[r]` one execution of the agent:
`at` names the request it makes next, `facts` what it has read so far, `revision` the digest it works on. Only
what is still needed is kept: a field is reset when its last reader is past.

`RevisionDigest` hashes the words `fetchIssue` keeps: those of the reporter and of trusted people, without
automation and comments that hold a solution. `Silenced` is the guard: excluded labels, a closed issue, a fix,
and, unless the run was forced, a maintainer who is already engaged. `Due` is the selection of the backlog: an
issue without an own report, or with news since the last one while the revision budget is not spent.
`NoRevision` is a comment whose marker `parseReportRevisionMarker` does not take. `RevisionsAreBudgeted` counts the
reports of others in the window of a report: what the run itself adds to it is the subject of `BudgetIsKept`
(section 7).

A backlog run pages through the open issues newest first (`ReadOpenIssuePage`), reads the comments of each when
it visits it (`Visit`), and takes the selected ones in turn. A run on an issue reads it in two requests, looks
for its own report and asks the guard (before it pays for anything), works, asks the guard and looks again, puts
its screenshots on the branch by a compare-and-set with a bounded number of attempts, and comments. Any request
may fail. `AnswerLost` is a comment that was created although the request failed. `Stop` is a cancelled job, or
an error that no code maps to an outcome. `SealBacklog` may happen before any issue: the wall-clock arithmetic is
reduced to the fact that the rest no longer fits. Between the requests people open issues, write, edit, label,
assign, close, reopen and reference. `welcome` and a comment's `by` are history.

`Overlap = FALSE` is an assumption about those who start runs: a backlog run works alone, and one issue is worked
on by one run at a time. The code has no lock of its own, and the example workflow
(`docs/examples/filters-agent-workflow.yml:33`) only suggests one, in a comment (section 7).

### LocalPublication

A generation is a directory with the files `owner`, `records` (the four JSON records), `evidence`, `patch` with
its receipt, `review` (the detached checkout), `report`, `manifest` and `published`. `disk[g]` says which are
present, which are torn (opened and not written in full), which hold a secret, and which have been synced up to
their own directory; `todo` is what the run still writes. Each file is two steps, `BeginWrite` and `EndWrite`,
with `Die` and `PowerLoss` possible in between. `Verify` reads everything back, `Scan` searches it for secrets,
`OpenMarker` and `Publish` write the marker, `Return` verifies once more. `Throw` decides between leaving the
generation (without a marker nobody lists it) and destroying it. `Taint` stands for a sanitizer that fails or
finds something. The operator's cleanup removes entries one at a time and may be interrupted.

`Chosen` has a conjunct the code has not: the generation the operator removes is one whose run is over (`~Active`).
`cleanupUnpublishedLocalPublicationReservation` (`output-directory.ts:852`) checks owner and marker only, so this is an
assumption about the operator. Without it a cleanup that has begun under a run that is still writing would go on
removing what that run publishes meanwhile.

A loss of power keeps what was synced and may lose or tear what was not: that is the evidence directory and the
checkout, which are never synced above their own directory (`Unsynced`).

### BlockerProcess, ProxyEnvironment

`BlockerProcess` is the module: `enabled`, `rules` and `file` are what the next launch will execute, `ran` what
the present process was spawned with, `known` the replacement the module believes in force, `serving` what
`state()` answers. A launch is `ready`, `refused` (no process), `died` or `late` (a process that is not ready in
time and stays alive). `Apply` is three launches at most, in the order of the code: lists, replacement, rules; an
attempt (`to`, `ok`, `cut`, `restarted`) that fails leaves what it has changed behind.

`ProxyEnvironment` has two actors that share one route, the experiment (`phase`) and `launch_browser`
(`browser`), and the end of the run. The module takes up requests in the order they are made, so the effect of a
request is settled when it is made (`Reconcile`) and only its answer comes later or never (`Answered`). `want` is
what the route asks for, `catalog` the lists the baseline host has enabled, `held` who has the address of the
proxy that runs now: a restart takes it from everybody, and a session that is cut off no longer `reaches` it.
`leases` are the phase sessions, each with what its proof says (`Proven`). `adapter` records what it applied and
must take back, `locked` the digest its last edit receipt read. `TakeBack` and the revocations are the close of
phase C and the cleanup; `StopRoute` and `ModuleExits` the stop, in which a late launch may ask once more.
`ProxyDies` and `ModuleDies` may strike at any time.

A second experiment while an older one is left behind, the log of blocked requests with its followers, and a
preparation of the module workspace that fails are left out; `enabledListKeys` is never set by this repository.

### CallLimiter

`limiter` is the closure of one `createCallLimiter` call with its queue, and `standing` says where each request is:
`handed` is a request whose promise was resolved and whose continuation has not run, so its slot is counted and it
does not run yet. In `LimiterSpec` requests enter at any moment, also then.

### VisualReview, ReviewedExperiment

A review asks for one inventory per tile batch, viewport and full-page overview of the states before and after
(`Requests`, in the order `Enqueued` in which one synchronous stretch puts them into the limiter), then for one
synthesis, which needs no slot. `completion[k]` is the provider call `k`: which attempt (an invalid reply is
repaired), which retry (a transient gateway failure, or a pause the provider asks for), and whether it waits for
the provider (`sending`) or for the pause (`pausing`). `stage` is the await `reviewCandidateVisually` is
suspended in. Observations are only counted, and what a reply says is one of the values the verdict tells apart
(`Outputs`). `Derived` is `deriveCandidateVisualVerdict`; the relation of the candidate to the requests of the page
(`Networks`) is chosen freely when the verdict is derived. `FailReview` is the one catch: the first failure ends the
review, and the calls that were queued or in flight go on, each taking and giving back its slot.

A hand-over and the start of the next call are one step here (`Passed`), because everything is enqueued before the
first call can end; `CallLimiter` has the two apart. An answer that was complete when the signal fired counts as
read before it. Attempts of calls nobody waits for any more, and after an abort, are not told apart. A tile batch that
is refused for its size is marked done without entering. More observations than one synthesis may reconcile
are noticed when all inventories are in, where the merge of the tile batches alone may notice it earlier: both fail
the review.

`ReviewedExperiment` runs the two side by side. `Backing` is what the observation of phase C may be completed with
(positive only after a verified review; it may still be negative, because the symptom and the prepared steps count
too), `ReviewedTimer` hands the deadline's signal to the review, and an observation that was abandoned before it
reached the review may still start it.

## 4. Runs

All bounds are constants of a `.cfg` or of the module they are named in.

| run | specification and bounds | distinct states |
|---|---|---|
| `recorder` | `ExecutionRecorder`: 2 experiments (6 phase tokens), 1 artifact, schema bound of 4 phases instead of 32 | 471,007 |
| `experiments` | `PhaseExperiment`: 2 experiments, one candidate, one call at a time, calls settle in their grace, 3 browsers survive a close | 2,093,249 |
| `deadline` | `ReviewedExperiment`: 1 call that may outlive its grace, with the review of its candidate: 1 tile batch per state (6 requests), 2 slots, 1 retry, 1 observation per inventory, 1 reconciled, 1 browser survives a close | 180,046 |
| `agent_run` | `AgentRun`: 2 reasons, caps 2 and 4, 4 turns, batches of 2, with `FairSpec` | 5,915 |
| `browser_access` | `BrowserAccess`: 3 launches, 1 page call, 2 targets, 2 environments, 2 signals, one call at a time, one launch left behind | 1,409,122 |
| `candidates` | `CandidateLedger`: 3 candidates (2 admitted), 2 plans, 2 calls, 2 sessions, 3 experiments, 2 executions, 2 absent answers | 369,150 |
| `advice` | `FairSpec` of `EvidenceRun`: 1 session and 3 advised, 1 capture of 2 images and the advised ones, world `Rough` | 44,941 |
| `no_patch_record` | `UnadvisedSpec` of `EvidenceRun`: 2 sessions, 2 profiles, 2 captures of 1 image, world `Smooth` | 789,926 |
| `publication` | `ReportRun`: 2 issues, 2 runs of any kind, one act of people, pages of 1, 2 attempts, 2 moments, a budget of 1 report per window | 842,222 |
| `local_publication` | `LocalPublication`: one generation, with loss of power | 23,374 |
| `blocker` | `ProxyEnvironment`: 2 lists, 1 rule, an edit of each list, 3 experiments, no deadlines | 142,503 |
| `failed_review` | `VisualReview` alone with the same bounds: one property, refuted | until the counterexample |

What each shows, and why its bounds suffice:

- **recorder**: `OwnersWereObserved`; `PublishedIsSettled`; `EvidenceIsFinal` (`RecorderTypeOK` and
  `FrozenAfterPublication` are proved). Two experiments are needed for an artifact or a token to be confused with
  that of another experiment; a bound of four on six tokens is exceeded and not only reached. The proofs
  lift every bound. No deadlock check: a finalized recorder accepts no call.
- **experiments**: `RecorderAccepts` (no call of the orchestrator is ever refused by the recorder, so
  neither a call nor the finalizer throws), `VerifiedIsBacked`, `NoSessionOutlivesRun`,
  `AbortedExperimentIsSilent`,
  and `KeepsPromise`, the refinement. Two experiments are the smallest number in which the second can
  overwrite, limit or revive what the first left. Six phases of evidence are just allowed.
- **deadline**: with calls that may hang for ever, an observer always looks at a live session its adapter
  holds (`ObservesOwnLiveSession`), and `RunEnds`. The review that phase C waits for may fail, be retried, repaired,
  audited, aborted by the deadline or left behind: `SlotsAreCounted`, `AcceptedWasSeen`, `ReviewSettles`. Six requests
  for two slots keep a queue; one retry, one repair of an inventory and three attempts of the synthesis let every
  counter reach its end; one observation each and a limit of one reach the limit and exceed it.
- **agent_run**: `SettlementSeals`, `StreakIsReal`, `SlotBelongsToCall`, `StoppedRunRequestsNothing`,
  `RunSeals`. Batches of two submissions let a cap be reached by the first and an acceptance follow;
  two reasons distinguish a streak from a total.
- **browser_access**: `NoBrowserOutlivesRun` as long as every launch settles within its grace, `ExhaustionIsFinal` and `LateLaunchIsSilent` without that condition. Three launches let one
  outlive its deadline while a second takes over and a third replaces that; two environments make a
  relaunch meaningful; two signals and three attempts reach both ways to exhaust a target.
- **candidates**: `NumbersAreRanks`, `ExecutionsAreBounded`, `BootstrapIsNoLimit`. Three candidates for a ledger of two meet the limit; a release in the middle
  needs two registered; three experiments let the failure of an old one meet a newer one. Nothing is
  left to do when the experiments are used up, so deadlock is not checked.

- **advice**: whatever evidence the agent gathered before (failed launches and pages, walls, incomplete
  captures, captures off the target, a reporter's filter set over Chrome's limits, a limited environment,
  rejected candidates), an agent that turns to the advice of `finish_fix` ends with an accepted report
  (`AdviceConverges`). One session of its own is enough for every state a session can be in; two images distinguish a capture read in part. The reporter's
  settings URL is in the issue, the harder case. Three advised launches suffice: one that meets the limits,
  one after it, one for a page that cannot be resumed.
- **no_patch_record**: with the two kinds of control a claim needs (a session without the blocker, one with
  the defaults) and every reading of every capture, an accepted claim is carried into the record as verified
  as its evidence makes it (`AcceptedClaimIsCarried`) when no filtering environment was built, and what
  `finish_fix` would accept stays acceptable (`AcceptanceIsStable`). Two sessions are a comparison and two
  captures in one session let a later one contradict an earlier; they are also what the stability needs, since a
  report or a verified draft can be acceptable after the first session and the first capture, and a launch, a page
  that is left or a capture that misses part of the page then follows. A third of either only repeats.
- **publication**: `ReportedOnce`, `OwnReportKeepsRevision`, `PostedWasWelcome`, `RevisionsAreBudgeted`,
  `LinksResolve`, `OutcomesAreTrue`. Two runs are enough for a repetition after a lost answer, for a commit on a
  head that has moved, and for a budget spent by the first; one act of people falls between any two requests.
  A clock of two moments and a window of one tell apart a report inside the window and one before it. Two
  issues let the selection of one go stale while the other is worked on, and pages of one issue let something
  happen between two pages of the listing.
- **local_publication**: `CertifiedIsWhole`, `ReturnedStaysVisible`, `SecretsStayPrivate`. Generations share
  nothing but the failure notice, so one is enough for the first two; a second changes nothing that the
  properties read except that notice, whose first code is kept.
- **blocker**: `PhaseRunsWhatItProves`, `EvidenceSparesPhase`, `CompletedCleanupRestores`,
  `NoProxyOutlivesRun`. Two lists tell a selection from all and from none; a rule and two edits are the two kinds
  of candidate and a second edit elsewhere; with three experiments an edit can follow an edit that failed.

`World` bounds what the agent may meet: `Rough` lets everything fail and reads little, `Smooth` lets no tool
fail, verifies candidates and reads everything, though a capture may be incomplete. In both the issue is taken in before browsing starts (`IntakeDone`): `finish_fix`
refuses everything else until then, and a limited environment only reports. The agent of `advice` stops
searching once it follows the advice, so the run ends there and deadlock is not checked in these runs.

`AcceptedClaimIsCarried` excepts three cases on purpose. A claim accepted for want of a browser (`~Usable`)
is not a status of its own. `fixed_upstream_pending_extension` is never published as verified. And a filtering
environment that was built replaces the sessions (section 7).

Symmetry is used only where no liveness property is checked (`recorder`, `experiments`, `browser_access`,
`candidates`, `no_patch_record`, `publication`); model values that a definition names (`NoCall`, the reported target) are outside
the symmetric sets.

A run or a process may end at any moment in `publication`, `local_publication` and `blocker`, so deadlock is not
checked there.

`NumbersAreRanks`, `BootstrapIsNoLimit` and `NoBrowserOutlivesRun` hold for one tool call
at a time, the usual case, and are false with several: numbers can then repeat
after a release, a session opened for one experiment takes the ordinal of another, and a late launch drops
the reference to a newer session. The last two say themselves that no call was left behind by its deadline; the
first does not need it. These are in the list of hazards, and the last in section 7.

## 5. Fairness

`HostFairness` (`PhaseExperiment`): the timers of a call strike (`setTimeout`), code that awaits no I/O goes
on, the agent loop ends (its turns and its wall clock are bounded, see `AgentRun`), and the closes of a
drain settle, because `BrowserSession` bounds its own close. No fairness is assumed for a browser that
starts, a configuration, an observer or a close inside a call: any of them may hang for ever.

`Fairness` (`AgentRun`): entry and attachment go on; an unanswered request times out; the
library ends an aborted request; a tool call settles, because each is under a deadline of its own; a turn
ends when its batch is done; and the wall clock strikes. A stream may go on for ever without that: only
the wall clock then ends the run, which is what `RunSeals` is about.

`FairSpec` of `EvidenceRun` assumes nothing of the code: once the agent follows the advice it goes on
following it, and the calls it is told to make succeed. `AdviceConverges` is a property of the refusals, that
they do not lead such an agent round in a circle. It is checked without launch signals (`Signals = {}`); with
them the forfeit of section 7 is the known exception.

`ReviewedFairness` is the same with the review next to it, and adds that the provider calls of the review go on
(`CallGoesOn`). The stall timer and the ceiling of every request (`pi/llm-wiring.ts:93`, `single-shot-completion.ts:310`)
end it, and retries, repairs and attempts of the synthesis are counted. That the review begins at all is not
assumed: its observation may hang before.

The safety properties assume no fairness.

## 6. Proofs

TLAPS checks the following for every value of the constants that satisfies the assumptions next to their
declaration (`LedgerAssumption`, `TerminalAssumption`, `AgentAssumption`, `BudgetAssumption`,
`AccessAssumption`, ...): distinguished values are outside the sets they are distinguished from, and limits
are positive naturals.

**`AgentRunProofs`.** `TypeCorrect`, `SettlementWins`, `SlotIsExclusive`, `CapsAreExact`,
`StoppedRunPaysNothing`, from three inductive invariants, each on top of the previous one. `Shape`: the
types, a controller that has not settled is below both caps, and a fingerprint in the slot belongs to the
call in execution. `Course`: where a run can stand once it has settled or stopped (a cause has aborted the
session; a settled run back at a request is aborted). `Counted`: the counters read off the history of
observed rejections; without it nothing relates `repeated` to a suffix of that history, and `StreakIsReal`
is not inductive.

**`BrowserAccessProofs`.** `TypeCorrect`, `ExhaustedForGood`, `LateLaunchesAreSilent`, for any number of
launches and calls in parallel. A target forfeited after two equal crashes stays exhausted although every
charge recomputes the forfeit: the proof shows that this depends on the maximum being three, since a
forfeited budget has counted two failures (`BudgetsCoherent`), so the next charge reaches the maximum.

`NoBrowserIsLeft` says that, with one call at a time, a run whose launches all settled in their grace ends with
every browser closed. Its invariant `Kept` gives each living browser an owner that will close it: the active
session, or the launch that is about to make it active or to discard it. With two launches at once it is false, for
the one that passed its check before the other had created a session replaces that session without closing it.

**`PhaseExperimentProofs`.** First the types, then the inductive invariant, and from it everything else. `IInv` is
`TypeOK` with, for every call, `LedgerFollows` (the evidence of a call is in the recorder it has captured and nowhere
else, and follows the course of the call: nothing ahead of its phase, a completion behind it, B only after A, C only
after a positive B), `SessionsFollow` (the same of the leases and the living sessions), `CallStands` (what the
recorder holds of the phase in which the call is suspended, at each await) and `SessionInHand` (whose session is
where while it is opened, configured, replaced, observed and closed); and, for the run, which experiments can be
attended in which stage (`RunInv`) and what an accepted or published verdict rests on (`VerdictInv`). `Frame` says
which parts a step of one call may touch, so that the steps of the others are done once (`OthersKeep`).

- Without any hypothesis, for calls in parallel and calls left behind: `TypeCorrect`, `SessionsAreOwn`
  (`ObservesOwnLiveSession`), `SessionsAreRetained` (`RetainedUntilClosed`: a live session whose closes took effect is
  under its lease, in the hands of the step that opens it or of its own close, or `LostToDrain`),
  `AbortedIsSilent` (`AbortedExperimentIsSilent`). `LostToDrain` is a session that a call left behind relaunches while
  the run is finalized: the drain may delete the lease it was put under (section 7). That no other session is lost
  rests on `LeaseIsOneSession`: a lease holds one session at a time, so a close that finds its session there drops no
  other.
- As long as the environment is set once (`EnvironmentIsSetOnce`): `EnvironmentIsShared`, `RecorderNeverRefuses`
  (`RecorderAccepts`), `VerificationIsBacked` (`VerifiedIsBacked`), `NoSessionIsLeft` (`NoSessionOutlivesRun`) and
  `RunKeepsPromise`, the refinement of `EnvironmentExecution`, which maps every step to one step of the promise or to a
  stutter. The hypothesis is a property of the behaviour, not of a constant, and the code does not keep it with two
  `apply_rule` calls in one turn (section 7): the theorems say what then rests on it. `OneCallSetsOnce` proves it for
  runs with one call at a time that settles in its grace, and `OneCallKeepsPromise` puts the two together: for those
  runs there is no premise left but the size.
- `Sized`: the phases of all experiments fit the schema of an execution (32 in the code). It is needed where
  `finalize` counts them, in `RecorderNeverRefuses` and what uses it. `~GraceMayExpire` (`NoSessionIsLeft`,
  `RunKeepsPromise`): a session that arrives after the grace is retained in an adapter that is already clean.
  Both premises are known limits of the code, in the hazards and in section 7.

The same module proves about what is composed with the experiment, or is a part of it.

- The reviewed experiment, without hypothesis: `AcceptedCandidateWasSeen` (`AcceptedWasSeen`) and
  `ReviewedSessionsAreOwn` (`ObservesOwnLiveSession`). `ReviewedInv` adds two parts to `IInv`: `ReviewStands`, what a
  review has at each of its stages, and `ReviewBacks`, which says that positive evidence of phase C, and so an
  acceptance, comes from a review that ended with `verified`, and that an abort leaves failed evidence. Provider
  calls that were left behind go on, but can move neither the stage of a review that has ended nor its conclusion.
- The call limiter alone: `SlotsCounted`, for every finite set of requests and every limit. `SlotsAreCounted` is not
  inductive alone: a hand-over keeps the count only if the head of the queue holds no slot yet and waits in the queue
  once (`QueueIsWaiting`, a part of `SlotsInv`). The lemmas follow the three operations, `Enter`, `Resume`, `Leave`;
  the last one is where a slot changes hands without being released.
- The recorder alone (`ExecutionRecorder`), under callers that keep to no order: `RecorderTypeCorrect`,
  `OwnersCorrect`, `PublicationCorrect`, `PublicationFreezes`, `EvidenceCorrect`. Each safety property is inductive
  together with `RecorderTypeOK`. Lemmas say once what each method returns and preserves; the steps cite them. The one
  delicate point is the order in `completePhase`, which registers owners before it stores evidence: ownership by an
  observed phase holds only because every check that can throw comes before both.

**`CandidateLedgerProofs`**, for one call at a time (`MaxParallel = 1`), any number of candidates, plans, sessions and
experiments, calls left behind by their deadline included: `TypeCorrect`, `NumbersStayRanks`, `VerdictsStayRegistered`,
`ExecutionsStayBounded`, and `LaunchIsNoLimit` (`BootstrapIsNoLimit`, whose statement excepts them). That numbers are
ranks is not inductive: the number a call on time was admitted with must still be that of its candidate when the
answer comes, and a candidate it may release must be the last one registered (`Entitled`). `Accounted` ties the
records of a candidate to one another, `Counted` the verdicts to the experiments that were begun. With two calls a release renumbers a
candidate whose call is under way, and the theorem is false.

**`LocalPublicationProofs`.** `CertifiedStaysWhole`, `ReturnedIsKept`, `SecretsAreKept`, for any number of generations
and with every kill and loss of power; no hypothesis. The invariant (`GenInv`, for each generation) says, for every
point of the writer, what has been begun, written and synced, what was verified and searched, and what the marker may
therefore bind; the three properties are read off it. The order of the code is what carries the proof: everything
the marker lists was synced before it is opened, the search for secrets comes after the last write, and a failed
generation is destroyed before its failure is reported.

**`ReportRunProofs`**, for every number of issues, people and runs, every page size and every budget. `Kind` holds
the types (`Typed`), what a run has at each of its requests (`Placed`), the order of the times (`Dated`) and where a
run can be about to post (`Course`); the rest is one invariant per theorem on top of it.

- Without hypothesis: `TypeCorrect`; `LinksStayResolved` (`LinksResolve`): `Hosting` says that the branch contains the
  commit of every run that has updated it, and an update of the reference only goes forward from the head it was
  built on; `WelcomeReports` (`PostedWasWelcome`): `Welcomed` relates what a run has read of an issue to a moment
  since its work at which the guard had nothing against it; `OutcomesStayTrue` (`OutcomesAreTrue`): `Truthful`.
- `ReportKeepsRevision` (`OwnReportKeepsRevision`) if the own account is recognised as automation, or is neither
  trusted nor the reporter. A trusted account that is not recognised is the known exception of section 7.
- If runs do not overlap: `OneReport` (`ReportedOnce`), from `Exclusive` (one backlog run alone, one run per issue) and
  `Single` (what a run has looked for is still not there when it posts); `BudgetIsRespected` (`RevisionsAreBudgeted`),
  from `Budgeted`: on everything a backlog run has still to take, the others have fewer reports than the budget in
  the window that ends now, since a window that moves on only loses reports and nobody else adds any.

**`EvidenceRunProofs`**, for every issue and everything the agent may meet, any number of sessions, captures and
images: `TypeCorrect`, `AcceptanceLasts` (`AcceptanceIsStable`), `ClaimsAreCarried` (`AcceptedClaimIsCarried`).
Every tool call `Gathers`: it adds a session or lets one grow (`Grows`: a page that was reached stays reached, and
captures are only appended or read further), and what else was established is not taken back. From that the first
property is a matter of what the judgement reads: `ReportBacked` and `DraftBacked` say without reference to the
order of the checks when a decision is acceptable, and `ReportAcceptable` and `DraftAcceptable` prove that the chain
of checks accepts exactly that. `Coherent`, which makes complete vision of a session equal to having been at its
target and its captures being read in full, is what the invariant `RunOK` adds to the types: the flag is kept and
the fact recomputed, and the proof shows that they cannot part. `ClaimBacked` is what an accepted claim rests on;
the record is computed from other data (`Serialized`), and the lemmas carry the proof of a session from the one form
to the other. `ClaimsAreCarried` assumes that settings are credited by reading them back (`Credits \subseteq {"read
back"}`): for a session credited otherwise, which the code does for Firefox, the property is false (section 7).

**`ProxyEnvironmentProofs`**, for any number of lists, rules, edits and experiments.

- Without hypothesis: `Environment`, the types and `ProcessInv` (a process that is there was spawned with
  what the module remembers), and `NoProxyOutlives` (`NoProxyOutlivesRun`).
- If no deadline answers an experiment that has failed (`~Deadlines`): `PhasesRunWhatTheyProve`
  (`PhaseRunsWhatItProves`), `EvidenceSpares` (`EvidenceSparesPhase`) and `CleanupRestores`
  (`CompletedCleanupRestores`), all read off `RunIsContained`. The hypothesis is that of the run: with such a
  deadline the first of them is false (section 7). Its invariant `RunInv` follows the route through everything it
  waits for. As long as nothing has failed the module executes what the route wants (`FaithfulUntilDoomed`); after a
  failure no further experiment begins, and it is enough that what the failed request left is contained
  (`FailureContained`). Neither half is inductive alone: the request whose answer was lost has changed the module,
  and what makes that harmless is that every request that follows is one of the clean-up or of `launch_browser`.

Only model-checked. Liveness (`RunEnds`, `RunSeals`, `AdviceConverges`, `ReviewSettles`) is out of reach of this
prover. `SlotsAreCounted` is proved for the limiter alone, with requests that enter at any moment, and checked by TLC
in the composition: there all requests of a review enter at once, in folds over the sequence of requests, and what
such a fold computes is an induction over data. The inductive invariants were evaluated by TLC over the instances of
section 4 before they were proved. `BudgetIsKept` is an example of what the attempt to prove something showed: the
first statement of `RevisionsAreBudgeted` counted a run's own reports too, held in the run with pages of two issues,
and failed in the proof at an issue that the listing shows twice.

## 7. Disagreements between code and comments

The first is a run with one property, taken from a comment of the repository, that TLC refutes. The
quotation and the lines are in `PROJECT.json`.

- `failed_review`: "Model failures fail closed to a persisted inconclusive review"
  (`candidate-visual-verifier.ts:246`). A failed review has no observation before, so for a host block the requests
  can judge they decide alone (`candidate-visual-review.ts:507`), and a candidate nobody looked at is verified.

The next five are stated as properties of the modules, and TLC refutes them too; no run of the list checks them.

- `EnvironmentIsSetOnce` (`PhaseExperiment`): "it must be idempotent" is said of `ensureFilteringEnvironment`
  (`agent-runtime.ts:3581`). The guard at 3585 reads two fields that are set after `await adapter.prepare`, so two
  `apply_rule` calls of one turn both build an environment, and the first one's is never drained.
- `CancelledRunRequestsNothing` (`AgentRun`): "Caller aborts seal as `aborted`" (`session-runner.ts:273`); the
  signal is read once, at 286, and one that fires while the session is being built is heard by nobody.
- `AdviceIsAccepted` (`BrowserAccess`): after two equal crashes the agent is told to report that browser access is
  unavailable (`agent-runtime.ts:2635`), and the validator of that report compares attempts with the maximum
  (1817) and does not know the forfeit on which the advice is based.
- `RecordParses` (`NoPatchRecord`): "lower the claim rather than fail the run" (`agentic-fix-core.ts:822`); the
  claim is lowered on one condition and the schema rejects on another (`fix-run-result.ts:1263`), so that after an
  experiment an accepted `already_fixed_current` or `configuration_specific` can fail the run.

- `BudgetIsKept` (`ReportRun`): "Maximum revision-marked reports one backlog issue may receive inside the rolling
  revisionWindowMs window" (`action.yml:66`). An issue opened between two pages shifts the listing, an issue is
  then read and taken twice (`selectBacklogIssues` does not compare, `backlog-selection.ts:264`), and, if somebody
  wrote in between, reported twice on one count. It takes `MaxActs = 2` and pages of one issue.

Known from reading and from earlier models, not among the runs:

- The settle grace exists "so the run ledger never finalizes over live leases" (`pi/session-tools.ts:200`); a
  session that arrives after it is retained in an adapter that is already clean, and in phases B and C nobody
  closes it.
- A Firefox relaunch of a call left behind can retain its session under a lease while the drain is closing the
  session that lease had before. The drain then deletes the lease by its identity
  (`browser-extension-environment.ts:1406`, `phase-lease-registry.ts:138`) and the new browser is nobody's: "Close
  every registered phase session" (`browser-extension-environment.ts:1395`) does not reach it.
- "The projection must answer for that candidate's experiment, not for whichever experiment happened to run
  last" (`orchestrator/fix-core-context.ts:326`); it picks the last evidence of that candidate
  (`environment-result-projection.ts:454`), which may be that of a later, failed validation with another
  reveal plan.
- "Only its own identity may clear its references" (`orchestrator/agent-runtime.ts:3170`); the catch branch of
  a late launch (3233) clears whatever they hold. `NoBrowserOutlivesRun` is therefore
  conditional on launches that settle in their grace.
- The gate accepts every claim but a draft without a page once the target is exhausted
  (`terminal-outcome-validator.ts:224`); only `analysis_only` is promised there. `StatusOf` shows that such a
  claim is not the status of the record.
- `sessionBaselineCredited` is "the one predicate every gate reads" (`agent-runtime-session-evidence.ts:323`);
  the core's completeness of `already_fixed_current` (`agentic-fix-core.ts:559`) and its comparison of
  configurations ask for settings that were read back, so that a claim from a Firefox run is only partial.
  The runs have `Credits = {"read back"}` for that reason.
- Evidence that a capture is behind a wall keeps `not_reproduced` from being accepted, but
  `configuration_specific` is accepted on the symptom's absence behind one. `not_reproduced` and
  `configuration_specific` can both be acceptable on the same evidence. Whether a target is accessible is read
  from the session's latest status and not from the capture's.
- Advice to continue in a session is given for closed sessions too, and an incomplete capture is advised to be
  read where the terminal check wants a new one; an agent that launches again and captures again meets both
  (`AdvanceVision`).

- A phase of the proxy environment proves what it asked for, not what it read back, in A and B. An edit whose
  launch failed leaves the edited list on disk, and a close that fails leaves the candidate's rule wanted. As
  long as the failure limits the environment no phase follows. A deadline of `apply_rule` answers the call before
  the limitation is kept (`Deadlines = TRUE`), and then the phases A and B of the next experiment run the
  leftover: `PhaseRunsWhatItProves` is false.
- `restarted` is "false when the requested configuration already ran" (`blocker-contract.ts:194`). `setEnabledFilters`
  records a selection before it launches (`proxy-host.ts:706`); after a launch that failed, the next request for the
  same selection restarts nothing and is answered with success and `restarted: false`, for a proxy that is gone
  (`adguard-cli-blocker.ts:195`).
- After an experiment that ended in phase A the catalog stays empty, and later `launch_browser` sessions run
  unfiltered although the snapshot says the base filter is enabled (`evidence-route-contract.ts:216`).
- The digest of an earlier edit makes the cleanup report a baseline as not restored that is; after a first start
  whose answer was lost every later request fails as started twice; `stop` reports `licenceReleased: true` when
  the reset failed or nothing was activated; a module that is killed after the stop grace leaves its proxy alive.
- "Publish the run's report once per issue revision" (`report-publisher.ts:348`): two runs on one issue at once
  both find no report and both post (`Overlap = TRUE` breaks `ReportedOnce`), say a run for a new issue and a
  dispatched one.
- "it always exits through its own seal" (`backlog-wall-clock-budget.ts:7`): an error while the checkout is
  removed or an artifact is written is mapped to no outcome; the backlog run then writes no result at all.
- An issue that was left untaken keeps no marker and competes with newer ones again, for ever. A reporter's edit during a run is
  hidden by any later comment. A change of labels selects an issue again without any new words. If the own account
  is a trusted one and not recognised as automation, its report changes the revision it reports on.
- A generation whose removal was interrupted may keep its marker and lose its manifest, after which the listing
  throws (`MarkedCanBeListed` is false, `output-directory.ts:701`). A failure after the marker fails a run whose
  generation is visible. The notice keeps the code of the first failure only.

- Usage is to "record EVERY attempted provider call" (`usage-collector.ts`); the attempts that `completeOnce` retries
  leave no usage.
- A dismissal that appears for the first time in the answer to the audit, or after a repair that follows it, is
  accepted unaudited: there is one audit per review.
- After one inventory has failed, those still queued are started and paid for, though nobody reads their answers.

Smaller ones, met on the way: `ensureFilteringEnvironment` is said to run "eagerly
after activation" but has one caller, in `apply_rule`; the comment on the deadlines of session tools says
15 minutes for `apply_rule` where the constant is 30; `MAX_CANDIDATE_VALIDATION_EXECUTIONS` is called the
maximum of one candidate and is exceeded by one in every further browser session (`ExecutionsAreBounded`
states what does hold).

## 8. What is not modelled

- **Inside the new parts**: exit codes, hand-over files and artifacts of an entry run; rendering and the lint of a
  report; the contents of a local run's records and their sanitizing; the blocker's log of requests; the
  workspace in which the module is prepared.
- **Inside the modelled parts**: the contents of settings proofs and images; vision of a single phase; the CLI route, several targets and redirects in the judgement of `finish_fix`; per-session
  tool budgets; the shape, guidance and screenshot checks of the gate (they change no state); records of
  drafts, infrastructure failures and budget seals; the signatures and counts of repeated bootstrap failures; wrap-up steering,
  compaction and telemetry of a session.
- **Provider calls**: usage and prices; retries of the loop session, which are the library's; persisting the review.
- **Pure I/O**: browser drivers, page probes, GitHub calls, rendering, knowledge lookup, prompts. What the
  modelled parts see of them (a session, a verdict, a rejection) is a nondeterministic outcome.
- **Pure parsing** of issues and schemas: no state.
- **Planned**: see below.

## 9. Plan

Done: the recorder, the experiment and its refinement, the agent run, browser access, the candidate ledger,
page evidence with the judgement of `finish_fix`, the record of claims that need no patch, reporting on GitHub
with the backlog, local publication, the proxy blocker with its environment, and the provider calls of a visual
review, composed with the experiment that waits for it.
Left, in this order:

1. `FixOutcome`: status of a fix session for drafts, infrastructure failures and budget seals
   (`fix-session`, `agentic-fix-core`), composed with what `PhaseExperiment` publishes.
2. `EnvironmentSelection`: the lock of a selection, fallback and the binding of the actual context.
3. `RuleInsertion`: sorted insertion and normalization as recursive functions, against a reference.

To prove: what is left of the theorems of `PhaseExperiment` when calls may be wedged beyond their grace, and of those of
`CandidateLedger` with several calls in one turn, and the modules above once they exist.
