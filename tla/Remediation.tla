---------------------------- MODULE Remediation ----------------------------
(***************************************************************************)
(* The human-in-the-loop half of ClosCall for one incident: HTTP requests  *)
(* that approve, reject or edit the drafted plan (api/adapters.py), the    *)
(* isolated executor they call (executor/executor.py), and the reconciler. *)
(*                                                                         *)
(* All requests run in one asyncio process against PostgreSQL at READ      *)
(* COMMITTED.  A step of a request is the code between two awaits at which *)
(* another request may run; the device calls are synchronous, so each lies *)
(* inside one step.  What a transaction has written but not committed is   *)
(* held in the request's pc: a crash or an exception discards it, while    *)
(* what the device was told stays.                                         *)
(*                                                                         *)
(* Every request slot is used once: `ver`, `after`, `result` and `mutated` *)
(* are then also the history of what each request did.                     *)
(***************************************************************************)
EXTENDS Integers, FiniteSets

CONSTANTS Requests,    \* slots for the HTTP requests and reconcile calls of a run
          Users,       \* users with the approver role
          MaxVersion,  \* bound on the plan versions that edits may create
          MaxCrashes   \* bound on crashes of the API process

ASSUME RemediationAssumption ==
    /\ MaxVersion \in Nat \ {0}
    /\ MaxCrashes \in Nat

VARIABLES
    latest,     \* plan versions 1..latest are committed (remediation_versions)
    decision,   \* decision[v][u]: approval_decisions, unique on (version, user)
    job,        \* status of the version's row in execution_jobs, "none" if absent
    execution,  \* status of the version's row in executions, "none" if absent
    audit,      \* committed audit_events rows of the executor: <<request, action>>
    pc,         \* where each request is
    ver,        \* the plan version each request loaded
    user,       \* the user of each request
    after,      \* the last device read-back of each request
    result,     \* what each request answered
    mutated,    \* requests that have sent set_admin_state to the device
    crashes     \* crashes so far

dbVars  == <<latest, decision, job, execution, audit>>
reqVars == <<ver, user, after, result, mutated>>
vars    == <<latest, decision, job, execution, audit,
             pc, ver, user, after, result, mutated, crashes>>

Versions  == 1 .. MaxVersion
Decisions == {"none", "approve", "reject"}
Reads     == {"up", "down", "unknown"}    \* FabricDevice.get_oper_state
JobStates == {"none", "pending", "completed", "reconciling", "retryable_failed"}
ExecutionStates == {"none", "succeeded", "failed", "outcome_unknown"}
Actions == {"intent", "apply", "reconcile"}

\* Request locations.  The session of a request in HoldsRow has an uncommitted
\* UPDATE of the job row, which PostgreSQL keeps locked until it ends.
HoldsRow  == {"intent", "applied"}
Executing == {"precheck", "flush"} \cup HoldsRow
Locations == {"new", "approve", "reject", "edit", "guard", "load",
              "reading", "resolve", "done"} \cup Executing
Results   == {"", "rejected", "edited", "side_door", "precheck_error",
              "duplicate_ignored", "nothing_to_reconcile", "resolved",
              "error", "crashed"} \cup (ExecutionStates \ {"none"})

-----------------------------------------------------------------------------
Init ==
    /\ latest = 1
    /\ decision = [v \in Versions |-> [u \in Users |-> "none"]]
    /\ job = [v \in Versions |-> "none"]
    /\ execution = [v \in Versions |-> "none"]
    /\ audit = {}
    /\ pc = [r \in Requests |-> "new"]
    /\ ver = [r \in Requests |-> 1]
    /\ user \in [Requests -> Users]
    /\ after = [r \in Requests |-> "unknown"]
    /\ result = [r \in Requests |-> ""]
    /\ mutated = {}
    /\ crashes = 0

\* Mutant of Authorized: the verdict of the decision is not looked at.
AuthorizedByAnyDecision(v) == \E u \in Users : decision[v][u] # "none"

\* approval_authorizes_plan over the approve rows of version v: the row carries the
\* digest stored with that version, and an edit always yields a new digest.
Authorized(v) == \E u \in Users : decision[v][u] = "approve"

Goto(r, l) == pc' = [pc EXCEPT ![r] = l]

Answer(r, res) ==
    /\ Goto(r, "done")
    /\ result' = [result EXCEPT ![r] = res]

\* ON CONFLICT (remediation_version_id, user_id) DO NOTHING.
Decide(r, d) ==
    IF decision[ver[r]][user[r]] = "none"
    THEN decision' = [decision EXCEPT ![ver[r]][user[r]] = d]
    ELSE UNCHANGED decision

-----------------------------------------------------------------------------
\* The first SELECT of approve_and_execute, reject and edit_plan.  MaxVersion bounds edits.
SelectPlan(r, handler) ==
    /\ pc[r] = "new"
    /\ handler = "edit" => latest < MaxVersion
    /\ Goto(r, handler)
    /\ ver' = [ver EXCEPT ![r] = latest]
    /\ UNCHANGED <<dbVars, user, after, result, mutated, crashes>>

\* Both inserts of approve_and_execute and their commit; the job is keyed by the digest.
CommitApproval(r) ==
    /\ pc[r] = "approve"
    /\ Decide(r, "approve")
    /\ job' = [job EXCEPT ![ver[r]] = IF @ = "none" THEN "pending" ELSE @]
    /\ Goto(r, "guard")
    /\ UNCHANGED <<latest, execution, audit, reqVars, crashes>>

\* The re-read of the decision and guard_execution, which raises SideDoorRejected.
Guard(r) ==
    /\ pc[r] = "guard"
    /\ IF Authorized(ver[r])
       THEN Goto(r, "load") /\ UNCHANGED result
       ELSE Answer(r, "side_door")
    /\ UNCHANGED <<dbVars, ver, user, after, mutated, crashes>>

CommitReject(r) ==
    /\ pc[r] = "reject"
    /\ Decide(r, "reject")
    /\ Answer(r, "rejected")
    /\ UNCHANGED <<latest, job, execution, audit, ver, user, after, mutated, crashes>>

\* The insert of version ver[r] + 1; if another edit took that number the unique
\* constraint makes this one fail.
CommitEdit(r) ==
    /\ pc[r] = "edit"
    /\ IF latest = ver[r]
       THEN latest' = latest + 1 /\ Answer(r, "edited")
       ELSE Answer(r, "error") /\ UNCHANGED latest
    /\ UNCHANGED <<decision, job, execution, audit, ver, user, after, mutated, crashes>>

-----------------------------------------------------------------------------
\* Mutant of LoadJob: only a successful Execution counts as a duplicate.
LoadJobUnlessSucceeded(r) ==
    /\ pc[r] = "load"
    /\ IF execution[ver[r]] = "succeeded"
       THEN Answer(r, "duplicate_ignored")
       ELSE Goto(r, "precheck") /\ UNCHANGED result
    /\ UNCHANGED <<dbVars, ver, user, after, mutated, crashes>>

\* execute_job: load the job and the plan; an existing Execution ends the call.
LoadJob(r) ==
    /\ pc[r] = "load"
    /\ IF execution[ver[r]] # "none"
       THEN Answer(r, "duplicate_ignored")
       ELSE Goto(r, "precheck") /\ UNCHANGED result
    /\ UNCHANGED <<dbVars, ver, user, after, mutated, crashes>>

\* _precheck and the pre-state capture, which may time out.
Precheck(r) ==
    /\ pc[r] = "precheck"
    /\ IF Authorized(ver[r])
       THEN (Goto(r, "flush") /\ UNCHANGED result) \/ Answer(r, "error")
       ELSE Answer(r, "precheck_error")
    /\ UNCHANGED <<dbVars, ver, user, after, mutated, crashes>>

\* Mutant of RowFree: a session that ended in an exception is never closed.
RowFreeOfLeaks(r) ==
    \A q \in Requests \ {r} : ver[q] = ver[r] =>
        pc[q] \notin HoldsRow /\ ~(q \in mutated /\ result[q] = "error")

RowFree(r) == \A q \in Requests \ {r} : ver[q] = ver[r] => pc[q] \notin HoldsRow

\* Mutant of FlushIntent: the job row is not written before the mutation, so not locked.
FlushIntentUnlocked(r) ==
    /\ pc[r] = "flush"
    /\ Goto(r, "intent")
    /\ UNCHANGED <<dbVars, reqVars, crashes>>

\* job.status = "running" and the intent row are flushed, not committed: the UPDATE
\* waits for the row lock and takes it.
FlushIntent(r) ==
    /\ pc[r] = "flush"
    /\ RowFree(r)
    /\ Goto(r, "intent")
    /\ UNCHANGED <<dbVars, reqVars, crashes>>

\* The audit write fails: AuditUnavailable, and the device is not touched.
FlushFails(r) ==
    /\ pc[r] = "flush"
    /\ Answer(r, "error")
    /\ UNCHANGED <<dbVars, ver, user, after, mutated, crashes>>

\* set_admin_state, then the read-back.  TimeoutExpired in either leaves the call with
\* nothing recorded; the device may have obeyed all the same.
Apply(r) ==
    /\ pc[r] = "intent"
    /\ mutated' = mutated \cup {r}
    /\ \/ \E read \in Reads :
             /\ after' = [after EXCEPT ![r] = read]
             /\ Goto(r, "applied")
             /\ UNCHANGED result
       \/ Answer(r, "error") /\ UNCHANGED after
    /\ UNCHANGED <<dbVars, ver, user, crashes>>

ReadStatus(read) ==
    CASE read = "up"      -> "succeeded"
      [] read = "unknown" -> "outcome_unknown"
      [] OTHER            -> "failed"

\* Mutant of CommitExecution: no unique constraint on the job, the later attempt wins.
CommitExecutionLastWins(r) ==
    LET v == ver[r]
        status == ReadStatus(after[r])
    IN /\ pc[r] = "applied"
       /\ execution' = [execution EXCEPT ![v] = status]
       /\ job' = [job EXCEPT ![v] = IF status = "succeeded"
                                    THEN "completed" ELSE "reconciling"]
       /\ audit' = audit \cup {<<r, "intent">>, <<r, "apply">>}
       /\ Answer(r, status)
       /\ UNCHANGED <<latest, decision, ver, user, after, mutated, crashes>>

\* Mutant of CommitExecution: the IntegrityError is swallowed and the status returned.
CommitExecutionSwallows(r) ==
    LET v == ver[r]
        status == ReadStatus(after[r])
    IN /\ pc[r] = "applied"
       /\ Answer(r, status)
       /\ IF execution[v] = "none"
          THEN /\ execution' = [execution EXCEPT ![v] = status]
               /\ job' = [job EXCEPT ![v] = IF status = "succeeded"
                                            THEN "completed" ELSE "reconciling"]
               /\ audit' = audit \cup {<<r, "intent">>, <<r, "apply">>}
          ELSE UNCHANGED <<execution, job, audit>>
       /\ UNCHANGED <<latest, decision, ver, user, after, mutated, crashes>>

\* The Execution, the job status and both audit rows commit together, unless another
\* request's Execution for the job got there first: then all of it rolls back.
CommitExecution(r) ==
    LET v == ver[r]
        status == ReadStatus(after[r])
    IN /\ pc[r] = "applied"
       /\ IF execution[v] = "none"
          THEN /\ execution' = [execution EXCEPT ![v] = status]
               /\ job' = [job EXCEPT ![v] = IF status = "succeeded"
                                            THEN "completed" ELSE "reconciling"]
               /\ audit' = audit \cup {<<r, "intent">>, <<r, "apply">>}
               /\ Answer(r, status)
          ELSE Answer(r, "error") /\ UNCHANGED <<execution, job, audit>>
       /\ UNCHANGED <<latest, decision, ver, user, after, mutated, crashes>>

-----------------------------------------------------------------------------
\* reconcile_job.  The restarted executor is its one caller, so calls do not overlap.
StartReconcile(r, v) ==
    /\ pc[r] = "new"
    /\ \A q \in Requests : pc[q] \notin {"reading", "resolve"}
    /\ job[v] # "none"
    /\ ver' = [ver EXCEPT ![r] = v]
    /\ IF job[v] \in {"running", "reconciling"}
       THEN Goto(r, "reading") /\ UNCHANGED result
       ELSE Answer(r, "nothing_to_reconcile")
    /\ UNCHANGED <<dbVars, user, after, mutated, crashes>>

ReadDevice(r) ==
    /\ pc[r] = "reading"
    /\ \/ \E read \in Reads :
             /\ after' = [after EXCEPT ![r] = read]
             /\ Goto(r, "resolve")
             /\ UNCHANGED result
       \/ Answer(r, "error") /\ UNCHANGED after
    /\ UNCHANGED <<dbVars, ver, user, mutated, crashes>>

\* Mutant of CommitReconcile: the Execution is left as the attempt wrote it.
CommitReconcileJobOnly(r) ==
    LET resolved == ReadStatus(after[r])
    IN /\ pc[r] = "resolve"
       /\ IF resolved = "outcome_unknown"
          THEN UNCHANGED job
          ELSE /\ RowFree(r)
               /\ job' = [job EXCEPT ![ver[r]] = IF resolved = "succeeded"
                                                 THEN "completed" ELSE "retryable_failed"]
       /\ audit' = audit \cup {<<r, "reconcile">>}
       /\ Answer(r, "resolved")
       /\ UNCHANGED <<latest, decision, execution, ver, user, after, mutated, crashes>>

\* Mutant of CommitReconcile: a failed Execution is rewritten too.
CommitReconcileRewrites(r) ==
    LET v == ver[r]
        resolved == ReadStatus(after[r])
    IN /\ pc[r] = "resolve"
       /\ IF resolved = "outcome_unknown"
          THEN UNCHANGED <<job, execution>>
          ELSE /\ RowFree(r)
               /\ job' = [job EXCEPT ![v] = IF resolved = "succeeded"
                                            THEN "completed" ELSE "retryable_failed"]
               /\ execution' = [execution EXCEPT ![v] = resolved]
       /\ audit' = audit \cup {<<r, "reconcile">>}
       /\ Answer(r, "resolved")
       /\ UNCHANGED <<latest, decision, ver, user, after, mutated, crashes>>

\* The new job status (an UPDATE, which needs the row), the Execution if it was
\* ambiguous, and the audit row.  A still ambiguous read changes neither row.
CommitReconcile(r) ==
    LET v == ver[r]
        resolved == ReadStatus(after[r])
    IN /\ pc[r] = "resolve"
       /\ IF resolved = "outcome_unknown"
          THEN UNCHANGED <<job, execution>>
          ELSE /\ RowFree(r)
               /\ job' = [job EXCEPT ![v] = IF resolved = "succeeded"
                                            THEN "completed" ELSE "retryable_failed"]
               /\ execution' = [execution EXCEPT ![v] =
                                    IF @ = "outcome_unknown" THEN resolved ELSE @]
       /\ audit' = audit \cup {<<r, "reconcile">>}
       /\ Answer(r, "resolved")
       /\ UNCHANGED <<latest, decision, ver, user, after, mutated, crashes>>

-----------------------------------------------------------------------------
\* The API process dies: every open transaction rolls back and no answer is sent.
Crash ==
    /\ crashes < MaxCrashes
    /\ crashes' = crashes + 1
    /\ \E r \in Requests : pc[r] \notin {"new", "done"}
    /\ pc' = [r \in Requests |-> IF pc[r] = "new" THEN "new" ELSE "done"]
    /\ result' = [r \in Requests |-> IF pc[r] \in {"new", "done"}
                                     THEN result[r] ELSE "crashed"]
    /\ UNCHANGED <<dbVars, ver, user, after, mutated>>

\* The steps a request takes by itself once it has been received.
Progress(r) ==
    \/ CommitApproval(r)
    \/ Guard(r)
    \/ CommitReject(r)
    \/ CommitEdit(r)
    \/ LoadJob(r)
    \/ Precheck(r)
    \/ FlushIntent(r)
    \/ Apply(r)
    \/ CommitExecution(r)
    \/ ReadDevice(r)
    \/ CommitReconcile(r)

Receive(r) ==
    \/ \E handler \in {"approve", "reject", "edit"} : SelectPlan(r, handler)
    \/ \E v \in Versions : StartReconcile(r, v)

Next ==
    \/ \E r \in Requests : Receive(r) \/ Progress(r) \/ FlushFails(r)
    \/ Crash

Spec == Init /\ [][Next]_vars

\* The event loop runs every ready coroutine and PostgreSQL grants every lock that is
\* released; nothing obliges a user to send a request or the database to fail.
FairSpec == Spec /\ \A r \in Requests : WF_vars(Progress(r))
-----------------------------------------------------------------------------
(* Properties. *)

TypeOK ==
    /\ latest \in Versions
    /\ decision \in [Versions -> [Users -> Decisions]]
    /\ job \in [Versions -> JobStates]
    /\ execution \in [Versions -> ExecutionStates]
    /\ audit \subseteq Requests \X Actions
    /\ pc \in [Requests -> Locations]
    /\ ver \in [Requests -> Versions]
    /\ user \in [Requests -> Users]
    /\ after \in [Requests -> Reads]
    /\ result \in [Requests -> Results]
    /\ mutated \subseteq Requests
    /\ crashes \in 0 .. MaxCrashes

\* No side door (executor.py:45-74, approval.py:19-28, adapters.py:226): whatever requests,
\* edits, rejects and crashes interleave, the device is only touched under a plan version
\* that itself carries an approve decision by then, and once an edit has committed nobody
\* takes the superseded version up.  Requests that had selected it before still act on it:
\* WithdrawnPlansRest below.
Approved(v) == \E u \in Users : decision[v][u] = "approve"
InFlight(v) ==
    {r \in Requests : ver[r] = v /\ pc[r] \in {"approve", "guard", "load"} \cup Executing}
ApprovalPrecedesMutation ==
    [][/\ \A r \in mutated' \ mutated : Approved(ver[r])
       /\ \A v \in Versions : v < latest => InFlight(v)' \subseteq InFlight(v)]_vars

\* The two rows that describe one attempt never contradict each other, whichever of the
\* executor, a competing executor and the reconciler wrote last (executor.py:121-146,
\* 182-196): no Execution exactly while the job is unstarted; a success closes the job; an
\* ambiguous outcome keeps it open for reconciliation; a retryable job has a failed one.
JobMatchesExecution ==
    \A v \in Versions :
        /\ execution[v] = "none" <=> job[v] \in {"none", "pending"}
        /\ execution[v] = "succeeded" => job[v] = "completed"
        /\ execution[v] = "outcome_unknown" => job[v] = "reconciling"

\* Every Execution row was written by exactly one attempt, that attempt did mutate the
\* device, and both of its audit rows are durable: a competing attempt that lost the race
\* leaves none (executor.py:128-158, uq execution_job_id).
ExecutionHasOneTrail ==
    \A v \in Versions :
        LET recorders == {r \in Requests : ver[r] = v /\ <<r, "apply">> \in audit}
        IN /\ execution[v] = "none" => recorders = {}
           /\ execution[v] # "none" =>
                \E r \in mutated : recorders = {r} /\ <<r, "intent">> \in audit

\* What the operator was told is true of the database and the device, and stays true
\* (adapters.py:293-340, executor.py:88-92, 128-158, 160-212).  A status is that of the
\* recorded Execution, unless reconciliation has resolved it since.  A request that was
\* refused, ignored or failed recorded nothing, and one that was refused or ignored did not
\* touch the device either; a failed one may have: AuditOutlivesMutation.  "Rejected" is
\* true of the request that said so, not of the plan: WithdrawnPlansRest.  A request that
\* crashed told nobody anything.
Recorded(r) == {a \in Actions : <<r, a>> \in audit}
Untouched(r) == r \notin mutated /\ Recorded(r) = {}

StatusIsRecorded(r) ==
    result[r] \in ExecutionStates \ {"none"} =>
        /\ r \in mutated /\ Recorded(r) = {"intent", "apply"}
        /\ \/ execution[ver[r]] = result[r]
           \/ result[r] = "outcome_unknown" /\ execution[ver[r]] \in {"succeeded", "failed"}
DecisionIsRecorded(r) ==
    /\ result[r] = "rejected" => Untouched(r) /\ decision[ver[r]][user[r]] # "none"
    /\ result[r] = "edited" =>
          /\ Untouched(r) /\ ver[r] < latest
          /\ \A q \in Requests : result[q] = "edited" /\ ver[q] = ver[r] => q = r
RefusalIsRight(r) ==
    /\ result[r] \in {"side_door", "precheck_error"} =>
          Untouched(r) /\ decision[ver[r]][user[r]] # "approve"
    /\ result[r] = "duplicate_ignored" => Untouched(r) /\ execution[ver[r]] # "none"
    /\ result[r] = "error" => Recorded(r) = {}
ReconciliationIsRecorded(r) ==
    /\ result[r] = "nothing_to_reconcile" => Untouched(r) /\ job[ver[r]] # "none"
    /\ result[r] = "resolved" =>
          /\ r \notin mutated /\ Recorded(r) = {"reconcile"} /\ execution[ver[r]] # "none"
          /\ after[r] = "up" => job[ver[r]] = "completed"
          /\ after[r] = "down" => job[ver[r]] = "retryable_failed"
AnswersAreTrue ==
    \A r \in Requests :
        /\ StatusIsRecorded(r)
        /\ DecisionIsRecorded(r)
        /\ RefusalIsRight(r)
        /\ ReconciliationIsRecorded(r)

\* Two attempts at one job never operate the device at the same time: the flush of
\* job.status holds the job row until the attempt ends (executor.py:98-118).
AttemptsAreSerial ==
    \A q, r \in Requests :
        pc[q] \in HoldsRow /\ pc[r] \in HoldsRow /\ ver[q] = ver[r] => q = r

\* A plan is settled once it has an Execution and no attempt that loaded the job before
\* that is still running.  From then on it stays settled and nothing, in particular no
\* repeated approval, touches the device for it again (executor.py:88-92).
Settled(v) ==
    /\ execution[v] # "none"
    /\ \A r \in Requests : ver[r] = v => pc[r] \notin Executing
SettledIsFinal ==
    [][\A v \in Versions : Settled(v) =>
          Settled(v)' /\ \A r \in mutated' \ mutated : ver[r] # v]_vars

\* Every received request ends, with an answer or by a crash: no request waits for a row
\* lock for ever.
RequestsEnd == \A r \in Requests : pc[r] # "new" ~> pc[r] = "done"

\* The flow implements its contract: see ExecutionContract.
Contract == INSTANCE ExecutionContract WITH
    Plans    <- Versions,
    approved <- {v \in Versions : Approved(v)},
    touched  <- {ver[r] : r \in mutated},
    sighted  <- {ver[r] : r \in {q \in Requests : after[q] = "up"}},
    outcome  <- execution
ImplementsContract == Contract!ContractSpec

-----------------------------------------------------------------------------
(* What the documents say and the code does not do. *)

\* executor/audit_guard.py:3: "The append-only audit must be durable BEFORE any state change."
\* Weakened to what a crash must not undo: once the request is over, a mutation it made
\* has its intent row.
AuditOutlivesMutation ==
    \A r \in mutated : pc[r] = "done" => <<r, "intent">> \in audit

\* planning/05:108, H06: "Duplicate execution prevented by DB unique constraint + idempotency
\* key".  The device is not operated for a plan whose Execution is already recorded.
NoDuplicateMutation ==
    [][\A r \in mutated' \ mutated : execution[ver[r]] = "none"]_vars

\* planning/05:105, H03: "Edit or drift blocks execution"; planning/03:575: "An edit supersedes
\* the old version and invalidates its decisions."; ui.py:154 answers a reject with "rejected",
\* "no execution".  The device is not operated under a version that an edit has superseded
\* or whose reject was answered.
Withdrawn(v) ==
    \/ v < latest
    \/ \E q \in Requests : result[q] = "rejected" /\ ver[q] = v
WithdrawnPlansRest ==
    [][\A r \in mutated' \ mutated : ~Withdrawn(ver[r])]_vars
=============================================================================
