# A verification model of ClosCall

ClosCall is an incident-command service for a small Clos fabric. A chaos campaign injects
faults into a lab network; telemetry and syslog feed sensors; sensor signals are correlated
into incidents; a diagnosis workflow turns typed, verified claims into a diagnosis and drafts
an immutable remediation plan; a human approves, rejects or edits the plan in a browser UI; an
isolated executor performs the one allowlisted mutation, reads the device back, records the
outcome, and reconciles ambiguous outcomes later. Everything durable is in PostgreSQL.

This directory holds TLA+ modules of that system, TLC configurations that check them on small
instances, and proofs of the properties that matter most for every instance. All paths below
are relative to `src/` of the repository; `PROJECT.json` maps every definition to its lines.

    tlc -workers 4 -config Remediation.cfg Remediation.tla      # one of the runs
    tlapm RemediationProofs.tla                                 # one of the proof modules

## 1. Inventory

| component | state it keeps | operations | hard behaviour | what makes it correct | module |
|---|---|---|---|---|---|
| Approval and UI (`api/adapters.py`, `ui.py`, `approval.py`) | `remediation_versions`, `approval_decisions`, `execution_jobs` | approve_and_execute, reject, edit_plan | requests interleave between commits, edits race approvals, a crash after the approval committed | nothing runs without an approval of that very version; answers are true | Remediation |
| Executor (`executor/executor.py`, `binding.py`, `fabric_device.py`) | `execution_jobs`, `executions`, `recovery_checks`, `audit_events`, the device | execute_job, reconcile_job | the device is outside the transaction: timeouts, lost races and crashes leave it mutated and the rows rolled back | serial attempts, at most one Execution, rows that agree, one trail per Execution | Remediation |
| Correlator (`incidents/correlator.py`) | `incidents`, `incident_signals`, `incident_events` | correlate_signal, _append_event | select-then-insert races on three unique constraints, redelivered signals | one incident per key, a gapless history with one entry per signal | Correlator |
| Sensors (`sensors/`) | streak, cooldown, EWMA and CUSUM statistics | update of each detector, observe, evaluate | overlapping reads, counter resets, boundaries of persistence and cooldown, a baseline that moves | alarms exactly when due, no masked anomaly, no missed outage | Sensors |
| Evidence and claims (`evidence/`) | a snapshot, the call and row budget | tools, verify | evidence that contradicts, is missing or shares its id, the budget's edge | a claim is supported only by cited evidence that satisfies it | Diagnosis |
| Diagnosis (`workflow/diagnose.py`, `llm.py`) | retry counter, token budget | diagnose, hypothesize | arbitrary or malformed replies of a model, exhausted budgets | a diagnosis rests on evidence, else there is none | Diagnosis |
| Chaos faults and campaign (`chaos/`, `scripts/fault_smoke.py`) | append-only ledger file, faults that are live in the lab | apply, verify, clear, run_campaign, checks | kills between two appends, commands and reads whose failure nobody sees | every live fault can be undone from the ledger; a pass is earned | Faults, FaultSmoke |
| Corpus runner (`scripts/corpus_run.py`, `_v3.py`) | `fault_injections` rows, window files, the lab | run, resume, capture, quarantine | kills, a lab left dirty, reads that fail and look clean, retries of the same cell | true labels, no overfilled cell, progress | CorpusRun |
| Vertical slice (`scripts/vertical_slice.py`) | the tables above, one link of the lab | a fault from injection to judged recovery | a run that was killed leaves rows and a disabled link | a verdict that is right both ways | VerticalSlice |
| Plan checks and rollback (`executor/plan.py`, `prechecks.py`, `audit_guard.py`, `rollback.py`) | none of its own | run_prechecks, guarded mutation, rollback | partial completion, failure inside a rollback | audited before touched, undone in reverse | Recovery |
| Corpus verification and manifest (`scripts/corpus_verify.py`, `emit_manifest*.py`, `datasets/splits.py`, `manifest.py`) | split headers, the manifest file | verify, assemble, emit | runs that resume between two readings, seeds given out twice, leftover files | a pass stays earned, no leakage, the roll-up covers the corpus | CorpusRelease |
| Telemetry and features (`telemetry/`, `datasets/features.py`, `corpus_pilot.py`) | none (pure over samples) | counter_deltas, causal_features, online and offline feature | resets, lost, repeated and overtaken samples | nothing counted that did not happen, no future in a decision | Telemetry |
| Localisation (`gate12_5_localization_ablation.py`, `telemetry_window.py`) | the corpus windows | interface features, ranking by rule | label series that outlive a state, windows that begin before the fault, states that are missing | a rank follows from what was seen down | Localization |
| Evaluation (`evaluate_sensors.py`, `_v3.py`) | none | load, freeze thresholds, report | a corpus that grows, ties | test incidents have no say | Evaluation |
| Fabric domain (`domain/`, `datasets/graph.py`) | none | allocate, validate, render, topology graph | odd and malformed fabrics, convergence of what was rendered | no loop, every route that does not cross a leaf | Fabric, Underlay |
| Network acceptance (`scripts/lab_check.py`, `b10_b11_convergence.py`) | a candidate configuration while B05 lasts | wait, B03 to B07, a link and a spine failure | checks made one after another of moving routes, a wait that timed out | a fabric that passed survives one failure | Acceptance |
| Traffic (`traffic/`, `scripts/traffic_smoke.py`) | detached iperf3 processes | plan_flows, start, wait, stop | `docker exec` times out and the client goes on; a killed program; a stop that fails unnoticed | no flow meets a busy server and no process is left, but where a stop failed | Traffic |
| Authentication (`api/auth.py`, `app.py`, routes of `ui.py`) | signed tokens and CSRF cookies in the browser | login, logout, admission of a request | expiry boundary, a stale role in a token, tabs that share cookies | authority that lapses, requests that act for their login | Sessions |
| Dashboards, charts, settings, logging, migrations, other gate and measurement scripts | none | queries, plots, statistics, one-shot checks | - | - | not modelled, section 7 |

How they interact. Sensors produce alarms that are delivered to `correlate_signal`; the
workflow reads an incident's evidence and proposes a plan, stored as a `remediation_versions`
row; the UI writes decisions and jobs and *calls* the executor in the same process; the
executor writes executions and audit rows and talks to the device. Campaigns and the corpus
runner drive the lab directly, never through the executor; what they leave in the lab is what
the next one starts from. The only shared state is PostgreSQL (READ COMMITTED, one session per
request) and the lab.

Composition. `FaultSmoke` and `CorpusRun` both EXTEND `Faults`, and `CorpusRun` starts from any
lab a killed `FaultSmoke` may leave behind. `CorpusRelease` EXTENDS `CorpusRun`: verification and
manifest read rows and files while the runner is between two runs. `Traffic` EXTENDS `Acceptance`,
which EXTENDS `Underlay`, which EXTENDS `Fabric`: one behaviour takes a specification through
validation, rendering, convergence and acceptance to the load that is put on it. `Remediation`
refines `ExecutionContract`, `Correlator` refines `IncidentLog`, `Sensors` refines `AlarmPolicy`.
The other components meet only through committed rows, so they are not multiplied into one state
space; `MCMeasurement` and `MCControl` check independent parts in one run, in which a behaviour
belongs to one of the parts.

## 2. The modules

### Remediation - approval, execution, reconciliation (one incident)

`Remediation.tla` models `approve_and_execute`, `reject`, `edit_plan`, `execute_job` and
`reconcile_job` for one incident. A **request** is a slot that is used once: it picks a
handler (`SelectPlan`) or a job to reconcile (`StartReconcile`) and then runs through its
locations. A step is the code between two points where another request may run, that is,
between two awaits of the event loop that touch shared rows.

| state | code |
|---|---|
| `latest`, `decision`, `job`, `execution`, `audit` | committed rows of `remediation_versions`, `approval_decisions`, `execution_jobs.status`, `executions.status`, `audit_events` of the executor |
| `pc`, `ver`, `user` | where each request is, the plan version it loaded, the authenticated user |
| `after`, `result` | the last device read-back of the request, what it answered |
| `mutated` | requests whose `set_admin_state` reached the device (history) |
| `crashes` | crashes so far (bound) |

| action | code |
|---|---|
| `SelectPlan` | the first SELECT of the three handlers: the newest version |
| `CommitApproval` | the two `ON CONFLICT DO NOTHING` inserts and their commit |
| `Guard` | the re-read and `guard_execution` |
| `CommitReject`, `CommitEdit` | the rest of `reject` and `edit_plan` |
| `LoadJob`, `Precheck` | `execute_job` up to the pre-state capture |
| `FlushIntent`, `FlushFails` | the flush of `job.status` and of the intent row: it takes the row lock, or fails with `AuditUnavailable` |
| `Apply` | `set_admin_state` and the read-back, either of which may time out |
| `CommitExecution` | the inserts, the unique constraint, and the caller's commit |
| `StartReconcile`, `ReadDevice`, `CommitReconcile` | `reconcile_job` |
| `Crash` | the API process dies: open transactions roll back, the device keeps what it was told |

Uncommitted writes are not variables: they are implied by `pc` and become rows at the
commit. `HoldsRow` is the set of locations at which the session has updated the job row and
PostgreSQL keeps it locked. The device is an environment: a read returns any of `up`, `down`
and `unknown` (an operator, another plan, or the network may change it at any time), and
`set_admin_state` ignores the exit status of its command, so its effect is unknown too.
A plan's digest is represented by its version: an edit changes `plan_revision` inside the
plan, hence the digest, and every row carries the digest of the version it points to, so
comparing digests is comparing versions. The allowlist checks of `_precheck` always pass for
drafted plans (one allowlisted action, a fabric interface); they are not a guard in the model.
The select, retry and insert paths of two transactions that wait for each other's unfinished
insert of the same key are one atomic step here, because the waiting insert has the same
effect as one that runs after the commit.

Assumption: `reconcile_job` calls do not overlap each other. No code of the repository calls
it concurrently (its documented caller is the restarted executor); two overlapping calls with
different reads could leave a `retryable_failed` job beside a `succeeded` Execution.

### ExecutionContract - what the flow promises

The abstract specification: plans are approved, touched, sighted up and given an outcome, with
no requests, transactions, locks or crashes. `Remediation` is shown to implement it, by TLC
(`ImplementsContract`) and by proof (the last part of `RemediationProofs`), under the mapping `Contract`.

### Correlator and IncidentLog - one incident per key

A **session** delivers one signal, once or several times in one transaction, and commits. Its
uncommitted rows are `own`; they become rows of the tables at its commit or nowhere.

| state | code |
|---|---|
| `incidents`, `signals`, `events` | committed rows of `incidents`, `incident_signals`, `incident_events` |
| `pc`, `sig`, `calls`, `inc`, `created`, `seq` | where a session is, its signal, and the locals of `correlate_signal` |
| `own`, `answer` | rows inserted and not committed; how the session ended |

| action | code (`correlator.py`) |
|---|---|
| `Find`, `OpenIncident` | the SELECT by key; the flush of a new Incident, which waits for an unfinished insert of the key and fails on a committed one |
| `AttachSignal` | `INSERT ... ON CONFLICT DO NOTHING` of the signal, which waits likewise |
| `AppendEvent`, `FlushEvent` | `_append_event`: the largest number is read in one statement, the row is inserted by the next flush |
| `CallAgain`, `Commit`, `Lose` | the caller: another delivery in the transaction, its commit, its loss |

`IncidentLog` is the promise: per key, a log numbered from 1 that starts with `opened`, in which
every signal appears once and to which entries are only appended.

### Faults, FaultSmoke - a campaign with a write-ahead ledger

`Faults` says what `apply`, `clear` and `verify_onset` of each fault plugin do to a target,
whose state is the set of conditions that hold on it. `Plugin._exec` ignores the exit status, so
any command may fail unnoticed (`Applied`, `Cleared` include the untouched target), and one that
times out raises, with or without its effect. `tc qdisc add root` fails where a root qdisc
exists; a flap may leave its link down and has no check.

`FaultSmoke` is `main`, `run_campaign` and the two final checks. Its `lab` is the lab, `ledger`
the file, and each action the code between two ledger appends or groups of lab commands: `Start`
(which unlinks the old ledger), `Plan`, `Inject`, `Apply`, `Verify`, `Clearing`, `Clear`,
`Advance` (the end of the finally block), `CheckNoDirtyState`, `CheckReconciler`, and `Kill`.
`raising` is an exception on its way through the finally block; `before` is a history variable,
the lab when the run began. `check_no_dirty_state` lists the qdiscs of every interface and its link
state (`Reads`, `Shows`); a `docker exec` that fails prints nothing, which the script takes for clean
(`fault_smoke.py:112-117, 134`), so `CheckNoDirtyState` lets any of the reads fail. `unread` remembers
which of those that had something to show did.

### CorpusRun - collecting a labelled corpus over many runs

The runner collects labelled incidents for the first cell (fault class, leaf) below its target.
`corpus_run.py` and `corpus_run_v3.py` share their control and differ in what they capture; both
are mapped. `PickCell` commits the row of an incident before the lab is touched, `Apply`,
`Verify`, `CaptureWindow`, `Clear` and `CleanBetween` are the injection, `Commit` settles or
quarantines it in one transaction, `Unlink` removes the window of a quarantined one, `Finish`
ends the batch. There is no exception handler, so `Die` stands for exceptions and kills alike.
`Start` resumes from the settled rows. A row's `label` is a history variable: the state of every
link while the window was captured, which the code never knows. A window is represented by its
row, and its content by whether it is `empty`, because the artifact hash of all empty windows
is the same and unique. `CleanBetween` reads the link state and the qdiscs; a listing that fails is empty and
is taken for clean (`corpus_run.py:107, 113`). `blind`, of the incident under way and of a row, is history: the
link was judged clean although a qdisc was left on it.

### Sensors and AlarmPolicy - detectors over a stream

One detector (`kind`), one debouncer setting and one stream of readings. `HearState` collapses
overlapping reads (`adapters.py`) and hands them to the FSM detector, `HearEwma` and `HearCusum`
turn a change of a counter into a rate and hand it to the statistical detectors; each then runs
the shared `Observe` of `common.py`. `run`, `armed`, `lastRaise` are the debouncer's fields;
`mean`, `mad`, `sp`, `sn` the detector's. `heard`, `raisedAt` and `readDown` are history
variables. Rates are fixed point (`Scale` units per 1/s, floor division): the code's floats
round differently, but by less than what any property tells apart. `all_alarms` is the union of
such detectors, which share nothing, so one is enough.

`AlarmPolicy` says when an alarm is due without any of those fields, by looking at the whole
stream: the last `persistence` samples cross, every earlier alarm was cleared since, and the
cooldown is over. `Sensors` is shown to implement it.

### Diagnosis - from evidence to a verdict

`CallTool` is a tool call with its causal bound, limit and budget (`evidence/tools.py`), which returns any
rows of a source in any order and with any values: an evidence id is the source, subject, metric and
time of a row (`tools.py:97`), so rows of overlapping reads may share it and disagree, and a citation
finds the first record of its id (`First`, `Found`; `claims.py:51-52`). `Freeze` ends the collection; `Answer`, `Malformed`,
`Raise` and `Abstain` are the model's retry loop (`llm.py`), in which a reply is an arbitrary
member of `Replies`; `RulesPropose` is the rule-based stand-in; `TestNext` and `Undiagnosed` are
the loop of `diagnose`. `Supported` is `verify`, `EntailedBy` is `DiagnosisDef.entailed_by`, and `Verdicts` keeps
the last verdict of a claim id, as `diagnose.py:97` does. Prompt text,
report wording and the nine tools' queries are left out; all the limits that the code has, on
calls, rows, tokens, repairs and hypotheses, are there.

### CorpusRelease - from a collected corpus to a dataset

The runner's actions with the seed of every incident (`seeds`; the index it is taken from is not
durable, so a resumed runner gives a seed out again), and between its runs `VerifyCorpus`
(`corpus_verify.py`, each of its checks an operator), `BuildManifest`, `PersistHeader` and
`WriteManifest` (`emit_manifest.py`: gather, the header row in a transaction of its own, the file).
`verdict` is what the verifier last said, `draft` a manifest that is being emitted, `header` the row of
`split_manifests`, `manifest` the file. `Assembles` is `assemble_location_inductive` with its two
dictionaries, each of which holds the split of the latest incident of a key (`KeptTogether`).

### Fabric, Underlay - from a specification to routes

`Fabric` is pure: `Links` is `allocate`, `SpecErrors`, `PoolErrors` and `CollisionErrors` the rules of
`validate_fabric`, `Config` what `render_srl_config` writes (sessions, what a switch originates,
imports and exports), `Edges` and `InterfaceNodes` the graph. An address is a pool and an offset in it.
`Underlay` gives it state: `Validate`, `Render`, then `Advertise(x, y)`, one session telling its
neighbour its best path, and `Flap`. BGP itself (paths, multipath, loop check by AS) is external;
the policies it applies are the rendered ones. One destination prefix is followed at a time: of the
fabric, or foreign.

### Acceptance - is the fabric fit for use

`StartCheck`, `WaitConverged` (which goes on when it times out), `InjectForeign` and the checks
B03 to B07 of `lab_check.py`, each a read of all switches at one moment while `Advertise` goes on;
then B10 (`LinkDown`) and B11 (`SpineDown`) with `Restore`. `verdict` is the outcome of the checks.
What a check misses in one instant (a ping during reconvergence) is left to the nondeterminism of
its moment. The commit of B05's prefixes may be refused, which fails the check, and its clean-up may fail, which
nobody looks at. B06 is read of all leaves at once where the script reads leaf by leaf. B08, martians and
loss counts are left out.

### Traffic - load on the fabric

`StartProgram` plans the flows of a profile (`plan_flows`: one port per pair), `StopTraffic` is the stop of
leftovers, `StartServers`, `StartFlow`, `FlowEnds`, `ExecTimesOut` (a docker exec gives up, a client that was waited for
stays, and the finally block of the smoke test follows), `Cleanup`, `Killed`. A stop is a pkill on each host
whose status nobody reads and which may time out (`StopOnHosts`): what runs on a host where it failed goes on.
`missed` remembers those hosts. An iperf3 server, which is external, serves one client at a time; a test ends
with either of its ends. `servers` and `clients` are the processes, which outlive the program.

### Telemetry - a counter on its way to a feature

The device counts and is reset, a scrape reads it, samples arrive late, twice or never; the arrived
ones are read by `CounterDeltas` (`counters.py`), `Rate` and `CausalFeatures` (`features.py`),
`FeatureOffline` and `FeatureOnline` (`corpus_pilot.py`) and `EvaluatedSamples`
(`evaluate_sensors.py`), at every moment. Each sample carries, as history, what the device had
really counted.

### Localization and Evaluation - what is learned from the corpus

`Localization` scrapes both ends of every link around an incident (`Onset`, `ScrapeAll`, `Settle`) and
ranks the links by the rule on the operational state (`RuleScore`, with ranks and wins doubled so that ties are
whole). A blunt fault takes either end down at any of its scrapes or at none; an incident settles if its
onset was verified (a flap's never is), and the state of an interface may be missing from its window while
its counters are there (`stateless`), which `load` keeps and scores as up. A state is a label of its series, so one that has ended is answered for `Lookback` more
scrapes. `Evaluation` settles incidents, each with the configurations under which it is hit, and
reports at any moment: `LoadIncidents`, `FreezeOnTrainVal`, `Score`, with F1 as exact fractions.

### Recovery - checks, guarded mutation, rollback

A plan of several steps with as many captured rollback actions or fewer: `Precheck`, `GuardedMutation`
(audit, then the device call, either of which may fail), `BeginRollback`, `RollbackStep`
(precondition, call, read-back, and what escapes when one of them raises) and `RolledBack`. The
caller that runs the steps is external: the executor of `Remediation` has one step.

### Sessions - who acts

`Login`, `Logout`, `ChangeRole` (by hand, in the users table) and `Tick`; a request is `Prepare` (csrf.js reads
the cookie when the request is made), `Admit` (principal, role and CSRF dependency of the route) and
`Respond`. Tabs share the cookies. `lastHeld` is history: when a user last held a role.

### VerticalSlice - one fault from injection to judged recovery

The stages of `vertical_slice.py` in order: `CleanSlate`, `InjectShutdown`, `ObserveFault`,
`CorrelateSlice`, `ClaimDown`, `StorePlan`, `ApproveTwice`, `ExecuteSlice`, `JudgeRecovery`, `JudgeTrail`. A
stage that is judged to fail does not stop the run (`failed`), `SliceDies` does; the next run finds
what it left. `disturbed` and `downBefore` are history.

## 3. The runs

| run | module, instance | states | what it asks |
|---|---|---|---|
| `remediation` | Remediation: 3 request slots, 2 users, 2 versions, 1 crash | 167 204 | eight properties of the flow and its contract |
| `remediation_audit` | | | refuted: the intent row is durable before the mutation (`audit_guard.py:3`) |
| `remediation_duplicate` | | | refuted: no mutation for a plan that has its Execution (`05-Acceptance-Matrix.md:108`) |
| `remediation_withdrawn` | | | refuted: no mutation under a version that was superseded or whose reject was answered (`05-Acceptance-Matrix.md:105`, `ui.py:154`) |
| `correlator` | 3 sessions, up to 2 calls each, 4 signals, 2 keys | 248 128 | the tables under races; the log |
| `fault_smoke` | one fault of each class on 2 interfaces and the collector, 2 runs | 912 331 | ledger, verdict and end of a campaign |
| `corpus` | 5 classes, 1 leaf, 2 uplinks, target 9, batch 3, 2 setbacks, any leftover fault | 942 356 | labels, counts and completion |
| `corpus_release` | 3 classes, a training and a validation leaf, 2 uplinks, target 6, 2 setbacks, v2 and v3 | 1 479 042 | what verifier and manifest say of such a corpus |
| `fabric` | 14 specifications (2 and 3 leaves, odd ones, 9 malformed), every prefix, 2 flaps, 2 traffic programs, any stops failing | 55 936 | routes, graph, acceptance, clean-up |
| `measurement` | every detector, persistence 1 and 2, cooldown 4, streams of 6 readings at distance 0, 1 or 2 s; 4 scrapes of a counter with reset, loss, one repeat; 3 links, 4 scrapes, a lookback of 2, three fault classes, missing states; 3 incidents and 3 configurations | 2 844 507 | alarms against policy, masking, silence, detection; features, ranking, frozen thresholds |
| `control` | 3 links, a BGP session, 2 calls of 3 tools, 3 rows, 1 repair, 2 hypotheses; plans of up to 3 steps; 1 user, 2 tabs, 2 logins, a clock of 3; 3 runs of the slice | 2 943 037 | grounding, the fallback; rollback, authority, the slice's verdict |
| `diagnosis_fabricated` | the diagnosis of `control` | | refuted: a model cannot fabricate a diagnosis (`llm.py:5`) |

What the properties say.

- **remediation**: `ApprovalPrecedesMutation` (no side door, and nobody takes a
  superseded version up), `JobMatchesExecution` (the two rows
  that describe an attempt agree), `ExecutionHasOneTrail` (one recorded attempt behind an
  Execution), `AnswersAreTrue` (each answer an operator gets - a status, rejected, edited, refused,
  ignored, failed, nothing to reconcile, resolved - is true of the rows and the device and stays so; what
  "rejected" does not mean is in section 4), `AttemptsAreSerial` (the row lock
  really serialises device access), `SettledIsFinal` (a settled plan is never touched again),
  `RequestsEnd` (no request waits for ever), `ImplementsContract`.
- **correlator**: `HistoryMatchesSignals` (numbers 1..n without gap, as many events as signals, only
  number 1 opened), `CommittedDeliveries` (a committed duplicate is not a lost signal),
  `SessionsEnd`, `ImplementsLog` (which includes that a key has one incident).
- **fault_smoke**: `WriteAhead` (whatever this run put on the lab is undone by the payload of a
  record, at every kill point), `PassIsEarned` (every onset seen, and what is left on the lab is in no
  read that was answered), `CampaignEnds`.
- **corpus**: `NotOverfilled` (across restarts), `LabelsAreTrue` (of the link, although any
  command may have failed, but for a qdisc that an unread listing hid), `CorpusCompletes` (or every
  uplink of a leaf is dirty, one of them unseen).
- **corpus_release**: `VerdictStands` (a pass implies complete, balanced cells with true labels and
  measured windows - true but for what an unread listing hid - and goes on doing so when the runner is started again), `EmittedWithoutLeakage`
  (no link and no seed in two splits of a manifest), `ManifestBindsCorpus` (the roll-up covers the
  incidents, no excluded one is among them, each surplus window comes from a setback).
- **fabric**: `NoForwardingLoop` (at no moment of a convergence are two switches each other's next
  hop), `ConvergesToReachable` (once links are left alone, a route exists exactly where a path
  does that crosses no leaf), `GraphMatchesFabric` (each link has its two edges and its interfaces
  belong to no other), `OneFailureKeepsAPath` (a fabric that passed acceptance keeps some path while it
  reconverges from the loss of a link or a spine), `ProgramsCleanUp` (a flow of a background
  load is refused, and something outlives a smoke test that was not killed, only where a stop failed).
- **measurement**: `ImplementsPolicy`, `AnomalyIsNotMasked`, `QuietInsideSlack`, `OutageIsDetected`;
  `CountersNeverInvent` (deltas and rises never exceed what the device counted),
  `FutureNeverLeaks` (an action property: a sample of the future changes no feature; online and
  offline agree on an ordered stream), `RuleRanksWhatItSees` (the rank of the target and the pairs it wins
  are those of what the scrapes saw down, of it and of the others), `ThresholdsAreBlind` (the frozen
  configuration is the best on the incidents that are not for test, and both halves of the report agree).
- **control**: `DiagnosisIsGrounded` (where a claim that keeps its verdict entails the diagnosis and is about
  its subject, a record of that subject shows what it claims), `FallbackFindsOutage` (exactly what was
  down at every read that can be cited); `UndoneInReverse` (wherever a rollback stops, no step that it was to undo is
  undone below a later one of those that stands), `AuthorityIsBounded` (a role that was taken acts no longer than a
  token lives), `ActsForItsLogin` (a request that changes something acts for the login whose CSRF token it was
  prepared with), `SliceVerdictIsRight` (a pass means that the executor itself restored the link, with one
  complete trail; an undisturbed run passes whatever a killed one left).

Each has a mutant in `PROJECT.json`: a plausible bug in a mapped definition with which TLC
refutes the property on the same instance.

**Bounds, and why they are enough.** Remediation: the races in the code involve two attempts and
a reconciliation or an edit (three slots), users that decide differently (two), an edit that
overtakes an approval (two versions), a restart between any two steps (one crash). Correlator:
a race needs two sessions, a third distinguishes a waiter from a winner; two calls for a
redelivery inside a transaction. FaultSmoke: the shared interface carries both kinds of qdisc, a
flap and an admin shutdown; the second run meets what the first left. CorpusRun: five classes
and a target of nine make `per_cell` round up (2) and the last cell smaller than the others, a
batch of three needs three runs at least; two setbacks leave a fault behind and make the way
back fail, or two empty windows. CorpusRelease: one incident per cell is a full cell; two leaves are
the fewest with two splits, two setbacks the fewest for a resumed run that repeats a seed on the
other leaf; a batch as large as the target lets a corpus be complete after one run or several;
`MaxRows` is never reached in either. Sensors: streams long enough for warm-up, two episodes and a
cooldown boundary; the theorems of section 5 cover every length. Diagnosis: a link read twice, out
of order, under the same id and from the future, one more down link than the hypotheses that are tested, and replies
of every kind of claim, with ids that repeat. Fabric: a third leaf is what a wrong transit needs to go through, two flaps cut the
two uplinks of a leaf or one of two leaves each, the malformed specifications break one rule
each; two programs are one that is killed and one that meets what it left. Telemetry: a reset
between two of four samples with one lost and one repeated; three links give a peer that was down
shortly before, or not, and one that was not; a lookback of two of four scrapes is passed and is not; three incidents and three configurations make ties in F1 that only the second
key, or the order of the grid, decides. Operations: three steps separate the last, a middle and the
first; two tabs and two logins are one login that replaces the other, a clock of three passes the
expiry of a token of life one on both sides; three runs of the slice are one killed, one that
meets its remains, and one after.

**Fairness.** Remediation and Correlator: weak fairness of each request's or session's steps -
the event loop runs every ready coroutine, PostgreSQL grants a released lock, subprocess calls
have timeouts. Nothing is assumed about users sending requests or crashes happening. FaultSmoke:
weak fairness of `Step`, one process that runs unless killed, whose commands end or time out.
CorpusRun: weak fairness of `Start \/ Step` - the operator starts the runner again after it
stopped, as its docstring prescribes (`corpus_run.py:3-6`); `MaxSetbacks` bounds the
disturbances - a listing that is not read is one - so completion is asked for after the last one. Underlay: weak fairness of `Validate`,
`Render` and of each session's `Advertise`, as keepalives and updates keep flowing on a session that
is up; none of `Flap`, as nobody has to touch a link, and none of checks and programs. The
other modules state no liveness. `CHECK_DEADLOCK FALSE` stands where the system really stops: all slots
used, a campaign over after its last run, a stream or a clock at its end, a diagnosis made, a
specification rejected.

## 4. What the code does not do

The four violation runs are listed with their quotes under `findings`: the audit intent that is
flushed and not committed; the second mutation by an approval that waited for the job row; the mutation under
a version that was superseded, or answered with "rejected - no execution", after its approval; and the
diagnosis of a link of which no read shows the fault. Each is a disagreement between the code and a sentence of
the repository.

Further disagreements with a sentence of the repository, which have no run of their own:

- A device call that times out is said to end as `outcome_unknown` and to be reconciled
  (`04-Data-API-and-State-Contracts.md:535`, `05-Acceptance-Matrix.md:111`, H09). The timeout escapes from
  `execute_job`: the transaction rolls back, no Execution exists, and the job is `pending` again
  (`executor.py:118`). The same holds after a crash of the process, although a restarted executor is said to
  reconcile the running job (`04:536`): `reconcile_job` does nothing for a job that is `pending`
  (`executor.py:171`), although its device was operated.
- A rejected plan is said to be in the state `rejected` (`04:372, 386`). A reject is a row that nobody reads
  (`adapters.py:314-325`, `approval.py:19-28`), and a reject by a user who approved before is dropped by ON
  CONFLICT; the plan is executed on another user's approval, before or after. `AnswersAreTrue` says of the
  answer "rejected" no more than that a decision of that user stands; that the plan rests is what
  `remediation_withdrawn` refutes.
- Rollback is said to reverse the completed steps or to expose that it did not (`05:113`, H11). With fewer
  rollback actions than completed steps it ends in `rolled_back` with the others standing; a mutation that raised
  may have reached the device, is not counted as completed, and is not rolled back either
  (`rollback.py:27-44`). `UndoneInReverse` speaks of the steps that a rollback was to undo only.
- A dirty lab between incidents is said to be found (`corpus_run.py:83`, `05:58`, D08). A `tc` listing that fails
  prints nothing and is judged clean (`corpus_run.py:107, 113`), so an incident may settle under a wrong label on a link
  that is still impaired, and the Gate 8 verification passes over it. `LabelsAreTrue` and `VerdictStands` name the
  listing that was not read as the one way to it. `fault_smoke.py:112-117, 134` judges its final lab likewise, and so may
  pass over a dirty one.
- A corpus is said to be completed in as many runs as one likes (`corpus_run.py:3-6`). Once every
  uplink of a leaf has something left on it, at one of them hidden by an unread listing, every further incident
  there fails its onset or its check, and nothing in the runner removes it: `CorpusCompletes` excepts that lab.
- The rules commit a hypothesis only if no read of its link was up (`diagnose.py:120-122`). An up read that has
  the id of another record is never found by a citation (`tools.py:97`, `claims.py:51-52`), so
  `FallbackFindsOutage` speaks of the reads that can be cited.
- A signal that attaches to an incident leaves no audit row (`correlator.py:78-81`), although every
  transition is said to (`correlator.py:5-6`).
- `fault_smoke.py:160` unlinks the ledger at a start, although a startup reconciler is said to replay
  it (`ledger.py:5-7`).
- An incident settles although the link beside its own is dirty (`corpus_run.py:205-238`); the
  acceptance matrix has dirty baselines quarantined (`05-Acceptance-Matrix.md:58`).
- A committed diagnosis may contain a claim that was not supported (`diagnose.py:9-10` says that none does),
  because verdicts are kept by claim id, which the model chooses (`diagnose.py:97`).
- `rollback` promises `halted_operator_required` when a step goes wrong (`rollback.py:5-7`); a
  `preconditions_hold` or a `verify` that raises is caught by nobody.
- `corpus_verify.py:12-15` says that it verifies the split; it passes a corpus for which
  `assemble_location_inductive` raises, because its own split has two parts and knows no seeds.
- `validate.py:3-5` says that a malformed topology is caught before any deployment; two hosts on one
  leaf are not, and `render_clab` raises.
- The data card (`DATA_CARD.md:88-90`) says that windows of quarantined incidents are deleted; those of a run
  that was killed between commit and unlink are not, and the roll-up hashes them.

Further observations, which no property states:

- On a baseline that never varied, `mad` is 0 and the EWMA detector cannot cross
  (`statistical.py:56`): the first sample of a jump is folded, so `AnomalyIsNotMasked` speaks
  only of samples that crossed.
- CUSUM sums are reset at every crossing (`statistical.py:112`); with a persistence of two an
  alarm needs an excess of the whole threshold in two samples in a row. Its docstring asks for
  standardised inputs (`statistical.py:74-75`), `detection.py` feeds it raw rates.
- A reply of the model that is JSON of the wrong shape raises a `TypeError` that is not repaired
  like other malformed replies (`Raise`).
- Nothing outside the runner clears the fault of an incident whose run died; the labels stay true
  because the next incidents on that link fail their checks.
- With `TARGET` 300 and 24 cells the last cell ends with one incident of thirteen, so `corpus_verify` fails
  a corpus that the runner calls complete. An empty window of a settled incident does so for ever:
  nothing removes or repeats it.
- `split_manifests` gets its header once and never again, whatever the corpus becomes. v3 writes no
  `label_window`, and `corpus_verify` is for v2 only. `corpus_pilot` deletes the rows of all campaigns.
- The evaluation of v2 counts an incident with an empty window as a miss, that of v3 passes it over; equal
  F1 scores are compared as floats.
- A label series of an operational state is answered for about five minutes after the state has ended:
  a link that recovered shortly before a window looks down in it. This is why the rule ties on blunt faults in the
  repository's own report (top 1 of 0.00 to 0.04 with top 3 of 1.0, `evals/reports/gate12_5-ablation.txt:51`):
  `RuleRanksWhatItSees` says what such a rank follows from, not that it is good. `_feature_online` stops at the
  first sample of the future and misses the late ones behind it.
- `iperf3`'s exit status is ignored, the traffic seed is always 1337, and `_ip` takes the last digit of a
  host's name for the number of its leaf.
- Three spines raise a KeyError inside the validator; with one spine the stride of two skips
  indexes at the end of the pool; equal uplink names, the size of the loopback and management pools
  and the .254 gateway are not checked.
- `lab_check` that is killed in B05, or whose clean-up there fails, leaves foreign prefixes and a dirty
  candidate, a leaf without a host network makes it raise; the management check of B10 is `... or True` (`b10_b11_convergence.py:83`).
- A token's role stays until it expires, the last second included; logout deletes cookies and revokes
  nothing. Because csrf.js reads the cookie when it makes a request, a tab acts as whoever logged in
  last; the login page it shows may be another.
- The slice deletes the audit table at its start, and goes on after a stage that failed.

## 5. The proofs

`RemediationProofs` proves, for any `Requests` and `Users` and any bounds (assumption:
`RemediationAssumption`), type correctness and the inductive invariant `IInv`, and from it
`NoSideDoor`, `RowsAgree`, `SerialAttempts`, `OneTrail`, `TrueAnswers` and `SettledForGood`.
The safety properties are not inductive by themselves. The strengthening says: a request past
the guard works on an approved version (`InFlightApproved`), which is stable because
decisions are never overwritten; only an attempt that is over has a durable trail
(`TrailsWellFormed`) and each Execution has exactly one (`RecordersUnique`), which holds since
the unique constraint turns a second insert into a rollback; the job under a reconcile call
stays `reconciling` (`ReconcilerAlone`), because every other writer of the job row stops at the
existing Execution; what each answer was based on (`AnswersGrounded`), and that a request writes
its rows in its last step (`RowsComeLast`). `OwnStep` says that
a request is moved by its own steps and by a crash only; it reduces every per-request fact to
the steps of that request. An answer is true when it is given (`NewAnswerIsTrue`) and stays true, since what
it speaks of - a decision, an Execution, a version that was superseded, a job that is settled - never
changes again (`OldAnswerStaysTrue`, `ExecutionResolves`, `JobStable`, `EditedOnce`). `NoSideDoor` is about steps:
a request that mutates the device has its version approved, and a request selects the newest
version only. `IInv` was also checked by TLC on the instance of the run.

Its last part proves `Spec => ImplementsContract`: approvals map to `Approve`,
`Apply` to `Operate`, the reconciler's read to `Sight`, the two commits to `Report` or to a
stutter, all else to stutters.

`SensorsProofs` proves, for any settings, gaps, changes and length of the stream (assumption:
`SensorsAssumption`), type correctness and the four properties of the detectors. The invariant has one part per idea.
`DebouncerInv`: times increase, `run` is the length of the longest suffix of crossings, `armed`
says that every alarm was cleared since, `lastRaise` is the time of the latest alarm - which
turns the test on three fields into the policy's test on the whole stream (`HearingIsPolicy`),
hence the refinement. `AlarmsWereDue` remembers the policy's verdict for every position, so that
detection can be argued about samples of the past. `CrossingIsDown`: the FSM detector crosses
exactly on the samples that some read saw down. `AnomalyStands`: while an anomalous rate holds,
it crosses and stays anomalous, because none of it was folded. `CusumIsQuiet`: while all rates
are within the slack of one another, the reference lies between two of them, and so the sums
stay zero. `OutagesDetected` and `AnomaliesAlarm` then follow by contradiction: if no alarm was
raised, one was due.

`CorrelatorProofs` proves, for any sessions, signals, keys and calls (assumptions of
`Correlator` and `IncidentLog`), `CommittedDeliveries`, `HistoryMatchesSignals`,
`ImplementsLog` and that racing first signals open one incident (`OneOpened`). The tables alone are not inductive: what a commit may add is decided by rows nobody else
sees yet. So the invariant says of each session where its rows are (`Placed`), that they refer to
an incident that is its own or committed (`Grounded`), that a signal or a number it holds is not in
the tables (`Reserved`, `Numbered`) and what a delivery has come to (`Delivered`); of two sessions that they
hold no key, signal or number in common (`Apart`), which is what the waits for unfinished
inserts are for; and of the tables that keys and numbers are unique and that events tell of
exactly the signals (`Tables`). `Numbering` is the arithmetic behind it: the next number of a gapless
history is its length and one. For the refinement, each commit that carries events is
`Record` of the log and all else stutters.

`CorpusProofs` proves `LabelsAreTrue` for any classes, uplinks, counts, setbacks and any fault that the first
run finds. The invariant carries what was read to where it is used: the lab and the window never
have two root qdiscs on a link (`QdiscsStaySingle`), an onset that was seen is in the window
(`OnsetInWindow`), a link that was judged clean after the clear had nothing in the window that the clear
does not undo, but for a qdisc on a link whose listing was not read (`JudgedClean`, `WindowUndone`). `SeenAndUndone`
concludes: exactly the fault was there, but for that qdisc; and where the listing was read, no qdisc was left
(`QdiscSeen`, `LabelOfRow`). `NotOverfilled`
follows from `Counting`: a run knows the counts of the settled rows, whose sum is their number, and
the incident under way has room in its cell and in total. The sum is the size of a set of units
(`Units`), so that one more in a cell is one more unit (`OneMoreUnit`) and no induction is needed.
On top of it, for any policy and floor, `VerdictStands` - after a pass no cell is short, so no
incident can be under way (`PassSteps`) - and `ManifestBindsCorpus`: the files that belong neither to a
settled incident nor to the one under way are no more than the setbacks (`FilesKept`). `NoLeakage` has two halves.
The dictionaries of the split compare an incident with the latest earlier one of its key only; that two incidents
of one key have one split follows for the least one that breaks it (`GreatestBelow`, `TogetherAll`). And what
was checked stays true while the runner goes on, since settled rows and the seeds that were given never
change (`SplitKept`, `SettledForGood`).

`FaultSmokeProofs` proves `WriteAhead` and `PassIsEarned` for any classes, targets, kills, timeouts and setbacks. The
ledger alone is not inductive; the invariant says how far the current entry has come (`Recorded`: its record
precedes the first command on the lab), that whatever is on a target is undone by the payload of some
record in the ledger (`Undoable`), that only the current entry can still owe its clean-up (`OneOwed`), that an entry
which was passed without a failure had its onset seen (`OnsetsSeen`), and what the last look at the
lab excludes: whatever a read that was answered would have shown (`LabLooksClean`).

Type correctness is a theorem of its own for every module that states a type invariant. Where the code has a bound to
keep, that takes more than the types. `TypeCorrect` of `CorpusProofs` shows that a run stays within its batch
and every cell within its share, since the incident under way is one that was still asked for (`Asked`), and that
the index, which is not durable, runs ahead of no row; so the seeds of resumed runs stay below the number of
rows, and a manifest names rows that exist (`ReleaseTypeCorrect`). `WithinBudget` shows that the evidence of a
diagnosis stays within the row budget and the causal bound whatever the tools return: a call is cut to the
rows that are left (`KeptFits`, `CallStaysInBudget`), and the hypotheses to be tested to their number (`CutToTest`).

`DiagnosisProofs` proves `DiagnosisIsGrounded` for any links, tools and bounds. Claims are judged after the
last of them was written (`JudgedLast`), and a supporting verdict shows a record of the bundle that a citation
finds (`SupportShows`), for whatever ids the records and the claims have; the claim that keeps its verdict is the
last of its id (`CommittableIsShown`). For the fallback, `FallbackInv` follows the
links: what the rules still have to propose are outages of their own (`OutagesOffered`), and a link that was
down is among them or was seen up (`NoneForgotten`). That the list holds every such link is a matter of ranks: the
place of a link in the order is the number of first reads up to its own (`RanksDiffer`, `DownLinkHasPlace`),
and the list is not cut short if no more links were down than it may hold.

The same module goes on to what is measured and learned.
`NothingInvented` and `FutureUnread` hold for any increments, resets, losses, repeats and overtaking. The
invariant `StreamInv` relates any two samples that were scraped (`PairFits`): the same time means the same
sample, a later one has counted no less, and shows either what was added to the earlier reading or, after
a reset, no more than was counted since (`Follows`). A rate spans two of them (`RateBounded`); the sum of the deltas is
bounded sample by sample by what its newest sample has counted (`TotalBounded`). `RankedBySight` holds for any
fabric and lookback: `PlacesInv` says that a window is down where a scrape within its reach was and its state is not
missing (`DownMeasured`), for the target and for every peer, and the rank and the wins are cardinalities of the
links with a higher or an equal score (`RankedByScore`).
`ThresholdsStayBlind` holds for any grid and corpus: the search keeps the first best so far
(`SearchFindsBest`), which is the first best of all as the order of the scores is a weak order (`WeakOrder`,
exact fractions multiplied out), and the incidents of test are not in what it scores; the recall by class and by split
are two ways to partition one set (`SumOfParts`).

Loops of the code (the deltas, their sum, the search of the grid) are recursive functions. That such a function
exists (`LoopExists`) and what each turn keeps are argued by the least turn at which they fail (`LeastNumber`),
since an induction theorem cannot be instantiated here.

`TrafficProofs` proves `NoForwardingLoop` for any fabric that the validator lets pass, whatever its size,
which links fail, in what order updates come and what B05 leaves in a configuration. Distinct names
tell leaves from spines (`ValidNamesApart`); a session crosses from one side to the other
(`SessionsCross`); what is heard from a leaf is the leaf's own (`HeardAcross`), because a leaf exports nothing
else but foreign prefixes, and those no switch imports (`AcceptedFits`). Hence too `ForeignNeverTaken`: the
prefix that B05 makes a leaf advertise is taken by no spine, also when the check was killed before it was
withdrawn, so that this check fails only for want of time. `PathsStayShort` adds that nobody hears more than one path
from a neighbor and none longer than a spine and a leaf (`OnePath`, `ShortPaths`): a convergence explores no
longer ones. Of two switches that hear of a prefix from
each other one is a leaf, which then owns it and has no next hop.

`OneFailureSurvived` needs what the passed checks say of routes that may have moved since. Every path of a host
subnet is one of the two shortest kinds (`Shortest`), so an update never changes a route into a longer one. While no
link has changed, what a leaf was told is still backed by who told it (`NoDeadEnd`), so the two next hops that
B06 counted are two ways out and stay so (`TwoWaysOut`); the failed link or spine takes one of them at most
(`LinkDownSurvives`, `SpineDownSurvives`), and no update takes the last one (`UpdatesKeep`). Between B10 and
B11 the lab is restored and waited for: of a converged fabric with all links up, every leaf arrives through every
spine (`ConvergedThrough`), which is where the second failure starts from. `GraphFits` holds since the allocation is
injective: an interface of a valid fabric is an end of the one link of its place on its switch
(`InterfaceOfOneLink`). For `LoadsCleanUp` the flows of a plan have a port each (`PlanHasOwnPorts`), and all
that transmits under a background load is a flow it started before the next one, or was left between hosts
whose stop failed (`Loaded`, `BusyWithLeftovers`), so the server of the next one is free unless such a stop failed
(`StopLeaves`); the profiles' seeds are assumed to be numbers (`TrafficAssumption`).

`OperationsProofs` has three parts. Rollbacks of any length: what stands is a prefix up to the step to be
undone next (`PrefixStands`), hence `UndoneInReverse`; and `MutationsAreAudited`. Sessions of any users and tabs, for any
lifetime: a live token's role was held when it was minted and a cookie pair belongs to one
login (`HeldIsPast`, `CookiesFit`), hence `AuthorityIsBounded` and `ActsForItsLogin`. Any number of runs of the
slice: rows are empty at each stage that has not come to them (`RowsAreFresh`), a success that was recorded is of a
link the executor found down (`FaultStands`, `SuccessIsRestored`), and an undisturbed run has
failed no stage (`UndisturbedSucceeds`), hence `SliceVerdictIsRight`. Each module rests on the named
assumptions of the modules it is about and on nothing else.

`Diagnosis` assumes of the constants what the code's types give: bounds that are numbers, finite sets of keys
with numbers as times, texts that are no numbers, and replies that are sequences.

Model-checked only: the five liveness properties (`RequestsEnd`, `SessionsEnd`, `CampaignEnds`,
`CorpusCompletes`, `ConvergesToReachable`), which need fairness and ENABLED. Every invariant and every action
property that a passing run checks is also the statement of a theorem.

## 6. The plan

Done, in this order: `ExecutionContract`, `Remediation` with its proofs; `IncidentLog`,
`Correlator`; `Faults`, `FaultSmoke`, `CorpusRun`; `AlarmPolicy`, `Sensors` with its proofs;
`Diagnosis`; `Recovery`, `Sessions`, `VerticalSlice` with their proofs; `CorpusRelease`;
`Fabric`, `Underlay`, `Acceptance`, `Traffic`; `Telemetry`, `Localization`, `Evaluation`; the proofs of
`CorpusRun` and `CorpusRelease`, `Correlator`, `FaultSmoke`, `Diagnosis` and `Underlay`. Their runs took the place of weaker refutations, whose results are in
section 4.

Then the safety properties that had only been checked: the fallback of `Diagnosis`, `Telemetry`,
`Localization` and `Evaluation`, the leakage of `CorpusRelease`, and `Acceptance`, the graph and `Traffic`. Two
definitions were rewritten for it, without a change of meaning: the split's dictionaries compare with the latest earlier
incident of a key (`Earlier`, `KeptTogether`), and loops over samples are recursive functions.

Then the type invariants of all modules, and the bounds and the foreign prefix that belong to them.

Then what the code does not look at: reads of the lab and stops of processes that fail, records that share an
id, states that are missing from a window, and what every answer to an operator says. The properties that had
taken these for granted name the failure that they except, and two sentences of the repository
got runs that refute them.

Worth doing next: the safety half of the liveness arguments (what fairness then only has to keep moving); two runners on one lab, should the
code ever support them.

## 7. Not modelled, and why

Dashboards, charts, gates and the read-only queries of the UI change no state. Settings and log
formatting are I/O; the syslog parser is one regular expression per line. The wording of device
configurations, prompts and reports is text. Training and scoring of the learned rankers, bootstrap
intervals and report tables are statistics over floating-point arrays. `doctor`, `gen_pki`, the
telemetry check, the convergence and ECMP measurements, `b12_teardown` and `gate3_accept` run commands once and keep
nothing. `demo`, `api_smoke` and the seeding scripts call the modelled operations once, in order;
`corpus_pilot`'s own loop is the runner's without resume. Migrations are run by hand; their tables and
unique constraints are in the modules. Cryptography (HMAC, bcrypt, TLS), BGP, iperf3, Prometheus and PostgreSQL
are external and modelled from how the code uses them. Two campaigns or two corpus runs at the same time
are excluded: nothing in the code supports them, and nothing prevents them either.
