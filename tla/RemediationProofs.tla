------------------------- MODULE RemediationProofs -------------------------
(***************************************************************************)
(* The safety properties of Remediation, for any number of requests, users *)
(* plan versions and crashes.  One inductive invariant, IInv, is the       *)
(* conjunction of the named facts below; each is proved preserved by the   *)
(* actions that can disturb it, and the theorems are read off it.          *)
(* The last part shows that Remediation implements ExecutionContract.      *)
(***************************************************************************)
EXTENDS Remediation, TLAPS

(***************************************************************************)
(* The strengthening.                                                      *)
(***************************************************************************)

\* A request that got past the guard works on a version that carries an approval.
InFlightApproved ==
    \A r \in Requests : pc[r] \in {"load"} \cup Executing => Approved(ver[r])

\* What a slot that was not used yet looks like, and what the version it loads is.
SlotsWellFormed ==
    \A r \in Requests :
        /\ pc[r] = "new" => r \notin mutated /\ after[r] = "unknown" /\ result[r] = ""
        /\ pc[r] # "done" => result[r] = ""
        /\ ver[r] <= latest

\* Jobs exist for committed plan versions only.
JobsHavePlans == \A v \in Versions : job[v] # "none" => v <= latest

\* An attempt is durable only when it is over, it then has both rows, and it mutated.
TrailsWellFormed ==
    /\ \A r \in Requests : pc[r] = "applied" => r \in mutated
    /\ \A r \in Requests : <<r, "apply">> \in audit =>
          pc[r] = "done" /\ r \in mutated /\ <<r, "intent">> \in audit

\* Before a request is over it has no row: rows commit together with its answer.
RowsComeLast == \A r \in Requests : pc[r] # "done" => Recorded(r) = {}

\* A version has an Execution exactly when some attempt recorded it, and one did.
RecordersUnique ==
    /\ \A v \in Versions : execution[v] # "none" <=>
          \E r \in Requests : ver[r] = v /\ <<r, "apply">> \in audit
    /\ \A q, r \in Requests :
          <<q, "apply">> \in audit /\ <<r, "apply">> \in audit /\ ver[q] = ver[r] => q = r

\* The one reconcile call in flight works on a job that is still open.
ReconcilerAlone ==
    /\ \A r \in Requests : pc[r] \in {"reading", "resolve"} => job[ver[r]] = "reconciling"
    /\ \A q, r \in Requests :
          pc[q] \in {"reading", "resolve"} /\ pc[r] \in {"reading", "resolve"} => q = r

\* What each answer was based on, and what a request between two steps has established.
AnswersGrounded ==
    \A r \in Requests :
        /\ r \in mutated => pc[r] \in {"applied", "done"}
        /\ pc[r] = "guard" => decision[ver[r]][user[r]] # "none"
        /\ result[r] \in ExecutionStates \ {"none"} => <<r, "apply">> \in audit
        /\ result[r] = "side_door" => r \notin mutated /\ decision[ver[r]][user[r]] = "reject"
        /\ result[r] # "precheck_error"
        /\ result[r] = "duplicate_ignored" => r \notin mutated /\ execution[ver[r]] # "none"

MutatedApproved == \A r \in mutated : Approved(ver[r])

\* A slot has no read-back before the step that makes it.
ReadsFresh ==
    \A r \in Requests : pc[r] \notin {"applied", "resolve", "done"} => after[r] = "unknown"

\* The bound in SelectPlan: an edit in flight loaded a version below MaxVersion.
EditsBounded == \A r \in Requests : pc[r] = "edit" => ver[r] < MaxVersion

IInv ==
    /\ TypeOK
    /\ EditsBounded
    /\ SlotsWellFormed
    /\ JobsHavePlans
    /\ InFlightApproved
    /\ MutatedApproved
    /\ TrailsWellFormed
    /\ RecordersUnique
    /\ JobMatchesExecution
    /\ ReconcilerAlone
    /\ AttemptsAreSerial
    /\ AnswersGrounded
    /\ ReadsFresh
    /\ RowsComeLast
    /\ AnswersAreTrue

-----------------------------------------------------------------------------
(***************************************************************************)
(* Type correctness.                                                       *)
(***************************************************************************)

LEMMA ReadStatusType ==
    ASSUME NEW read \in Reads
    PROVE  ReadStatus(read) \in {"succeeded", "failed", "outcome_unknown"}
BY DEF ReadStatus, Reads

LEMMA VersionsType == 1 \in Versions /\ \A v \in Versions : v < MaxVersion => v + 1 \in Versions
BY RemediationAssumption DEF Versions

LEMMA InitTypeOK == Init => TypeOK
<1> SUFFICES ASSUME Init PROVE TypeOK
  OBVIOUS
<1>1. latest \in Versions /\ ver \in [Requests -> Versions]
  BY VersionsType DEF Init
<1>7. crashes \in 0 .. MaxCrashes
  <2>1. crashes = 0
    BY DEF Init
  <2> QED
    BY <2>1, RemediationAssumption
<1>2. decision \in [Versions -> [Users -> Decisions]]
  BY DEF Init, Decisions
<1>3. job \in [Versions -> JobStates] /\ execution \in [Versions -> ExecutionStates]
  BY DEF Init, JobStates, ExecutionStates
<1>4. audit \subseteq Requests \X Actions /\ mutated \subseteq Requests
  BY DEF Init
<1>5. pc \in [Requests -> Locations] /\ user \in [Requests -> Users]
  BY DEF Init, Locations
<1>6. after \in [Requests -> Reads] /\ result \in [Requests -> Results]
  BY DEF Init, Reads, Results
<1> QED
  BY <1>1, <1>2, <1>3, <1>4, <1>5, <1>6, <1>7 DEF TypeOK

LEMMA GotoType ==
    ASSUME TypeOK, NEW r \in Requests, NEW l \in Locations, Goto(r, l)
    PROVE  pc' \in [Requests -> Locations]
BY DEF TypeOK, Goto

LEMMA AnswerType ==
    ASSUME TypeOK, NEW r \in Requests, NEW res \in Results, Answer(r, res)
    PROVE  pc' \in [Requests -> Locations] /\ result' \in [Requests -> Results]
BY DEF TypeOK, Answer, Goto, Locations

LEMMA DecideType ==
    ASSUME TypeOK, NEW r \in Requests, NEW d \in Decisions, Decide(r, d)
    PROVE  decision' \in [Versions -> [Users -> Decisions]]
<1>1. CASE decision[ver[r]][user[r]] = "none"
  <2>1. ver[r] \in Versions /\ user[r] \in Users
    BY DEF TypeOK
  <2>2. [decision[ver[r]] EXCEPT ![user[r]] = d] \in [Users -> Decisions]
    BY <2>1 DEF TypeOK
  <2>3. decision' = [decision EXCEPT ![ver[r]] = [decision[ver[r]] EXCEPT ![user[r]] = d]]
    BY <1>1, <2>1 DEF Decide, TypeOK
  <2> QED
    BY <2>1, <2>2, <2>3 DEF TypeOK
<1>2. CASE decision[ver[r]][user[r]] # "none"
  BY <1>2 DEF Decide, TypeOK
<1> QED
  BY <1>1, <1>2

LEMMA AuditType ==
    ASSUME NEW r \in Requests, NEW a \in Actions
    PROVE  <<r, a>> \in Requests \X Actions
OBVIOUS

LEMMA Labels ==
    /\ \A l \in {"approve", "reject", "edit", "guard", "load", "precheck", "flush",
                "intent", "applied", "reading", "resolve", "done"} : l \in Locations
    /\ \A x \in {"rejected", "edited", "side_door", "precheck_error", "duplicate_ignored",
                "nothing_to_reconcile", "resolved", "error", "crashed",
                "succeeded", "failed", "outcome_unknown"} : x \in Results
BY DEF Locations, Executing, HoldsRow, Results, ExecutionStates

LEMMA NextTypeOK == TypeOK /\ EditsBounded /\ [Next]_vars => TypeOK'
<1> SUFFICES ASSUME TypeOK, EditsBounded, [Next]_vars PROVE TypeOK'
  OBVIOUS
<1>1. ASSUME NEW r \in Requests, NEW h \in {"approve", "reject", "edit"}, SelectPlan(r, h)
      PROVE  TypeOK'
  BY <1>1, GotoType, Labels DEF TypeOK, SelectPlan, dbVars
<1>2. ASSUME NEW r \in Requests, CommitApproval(r)
      PROVE  TypeOK'
  <2>1. job' \in [Versions -> JobStates]
    BY <1>2 DEF CommitApproval, TypeOK, JobStates
  <2> QED
    BY <1>2, <2>1, GotoType, DecideType, Labels DEF TypeOK, CommitApproval, reqVars, Decisions
<1>3. ASSUME NEW r \in Requests, Guard(r)
      PROVE  TypeOK'
  BY <1>3, GotoType, AnswerType, Labels DEF TypeOK, Guard, dbVars
<1>4. ASSUME NEW r \in Requests, CommitReject(r)
      PROVE  TypeOK'
  BY <1>4, AnswerType, DecideType, Labels DEF TypeOK, CommitReject, Decisions
<1>5. ASSUME NEW r \in Requests, CommitEdit(r)
      PROVE  TypeOK'
  <2>1. latest' \in Versions
    BY <1>5, VersionsType DEF TypeOK, CommitEdit, EditsBounded
  <2> QED
    BY <1>5, <2>1, AnswerType, Labels DEF TypeOK, CommitEdit
<1>6. ASSUME NEW r \in Requests, LoadJob(r)
      PROVE  TypeOK'
  BY <1>6, GotoType, AnswerType, Labels DEF TypeOK, LoadJob, dbVars
<1>7. ASSUME NEW r \in Requests, Precheck(r)
      PROVE  TypeOK'
  BY <1>7, GotoType, AnswerType, Labels DEF TypeOK, Precheck, dbVars
<1>8. ASSUME NEW r \in Requests, FlushIntent(r) \/ FlushFails(r)
      PROVE  TypeOK'
  BY <1>8, GotoType, AnswerType, Labels DEF TypeOK, FlushIntent, FlushFails, dbVars, reqVars
<1>9. ASSUME NEW r \in Requests, Apply(r)
      PROVE  TypeOK'
  BY <1>9, GotoType, AnswerType, Labels DEF TypeOK, Apply, dbVars
<1>10. ASSUME NEW r \in Requests, CommitExecution(r)
       PROVE  TypeOK'
  <2> DEFINE status == ReadStatus(after[r])
  <2>1. status \in {"succeeded", "failed", "outcome_unknown"}
    BY ReadStatusType DEF TypeOK
  <2>2. pc' \in [Requests -> Locations] /\ result' \in [Requests -> Results]
    BY <1>10, <2>1, AnswerType, Labels DEF CommitExecution
  <2>3. execution' \in [Versions -> ExecutionStates]
    BY <1>10, <2>1 DEF CommitExecution, TypeOK, ExecutionStates
  <2>4. job' \in [Versions -> JobStates]
    BY <1>10 DEF CommitExecution, TypeOK, JobStates
  <2>5. audit' \subseteq Requests \X Actions
    <3>1. "intent" \in Actions /\ "apply" \in Actions
      BY DEF Actions
    <3> QED
      BY <1>10, <3>1, AuditType DEF CommitExecution, TypeOK
  <2> QED
    BY <1>10, <2>2, <2>3, <2>4, <2>5 DEF TypeOK, CommitExecution
<1>11. ASSUME NEW r \in Requests, NEW v \in Versions, StartReconcile(r, v)
       PROVE  TypeOK'
  BY <1>11, GotoType, AnswerType, Labels DEF TypeOK, StartReconcile, dbVars
<1>12. ASSUME NEW r \in Requests, ReadDevice(r)
       PROVE  TypeOK'
  BY <1>12, GotoType, AnswerType, Labels DEF TypeOK, ReadDevice, dbVars
<1>13. ASSUME NEW r \in Requests, CommitReconcile(r)
       PROVE  TypeOK'
  <2> DEFINE resolved == ReadStatus(after[r])
  <2>1. resolved \in {"succeeded", "failed", "outcome_unknown"}
    BY ReadStatusType DEF TypeOK
  <2>2. execution' \in [Versions -> ExecutionStates] /\ job' \in [Versions -> JobStates]
    BY <1>13, <2>1 DEF CommitReconcile, TypeOK, ExecutionStates, JobStates
  <2>3. audit' \subseteq Requests \X Actions
    <3>1. "reconcile" \in Actions
      BY DEF Actions
    <3> QED
      BY <1>13, <3>1, AuditType DEF CommitReconcile, TypeOK
  <2> QED
    BY <1>13, <2>2, <2>3, AnswerType, Labels DEF TypeOK, CommitReconcile
<1>14. ASSUME Crash
       PROVE  TypeOK'
  <2>1. pc' \in [Requests -> Locations] /\ result' \in [Requests -> Results]
    BY <1>14, Labels DEF Crash, TypeOK
  <2>2. crashes' \in 0 .. MaxCrashes
    <3>1. crashes < MaxCrashes /\ crashes' = crashes + 1
      BY <1>14 DEF Crash
    <3>2. crashes \in 0 .. MaxCrashes
      BY DEF TypeOK
    <3> QED
      BY <3>1, <3>2, RemediationAssumption
  <2> QED
    BY <1>14, <2>1, <2>2 DEF TypeOK, Crash, dbVars
<1>15. ASSUME UNCHANGED vars
       PROVE  TypeOK'
  BY <1>15 DEF TypeOK, vars
<1> QED
  BY <1>1, <1>2, <1>3, <1>4, <1>5, <1>6, <1>7, <1>8, <1>9, <1>10, <1>11, <1>12, <1>13, <1>14,
     <1>15 DEF Next, Receive, Progress

LEMMA NextEditsBounded == TypeOK /\ EditsBounded /\ [Next]_vars => EditsBounded'
<1> SUFFICES ASSUME TypeOK, EditsBounded, [Next]_vars, NEW q \in Requests, pc'[q] = "edit"
             PROVE  ver'[q] < MaxVersion
  BY DEF EditsBounded
<1> USE DEF Goto, Answer
<1>1. ASSUME NEW r \in Requests, NEW h \in {"approve", "reject", "edit"}, SelectPlan(r, h)
      PROVE  ver'[q] < MaxVersion
  BY <1>1 DEF SelectPlan, TypeOK, EditsBounded
<1>2. ASSUME NEW r \in Requests, Progress(r) \/ FlushFails(r)
      PROVE  ver'[q] < MaxVersion
  <2>1. ver' = ver /\ pc[q] = "edit"
    BY <1>2 DEF Progress, FlushFails, CommitApproval, Guard, CommitReject, CommitEdit, LoadJob,
       Precheck, FlushIntent, Apply, CommitExecution, ReadDevice, CommitReconcile, reqVars, TypeOK
  <2> QED
    BY <2>1 DEF EditsBounded
<1>3. ASSUME NEW r \in Requests, NEW v \in Versions, StartReconcile(r, v)
      PROVE  ver'[q] < MaxVersion
  BY <1>3 DEF StartReconcile, TypeOK, EditsBounded
<1>4. ASSUME Crash
      PROVE  ver'[q] < MaxVersion
  BY <1>4 DEF Crash, TypeOK, EditsBounded
<1>5. ASSUME UNCHANGED vars
      PROVE  ver'[q] < MaxVersion
  BY <1>5 DEF vars, EditsBounded
<1> QED
  BY <1>1, <1>2, <1>3, <1>4, <1>5 DEF Next, Receive

\* Type correctness of the remediation flow, for all constants.
THEOREM TypeCorrect == Spec => []TypeOK
<1>1. Init => TypeOK /\ EditsBounded
  BY InitTypeOK DEF Init, EditsBounded
<1>2. TypeOK /\ EditsBounded /\ [Next]_vars => (TypeOK /\ EditsBounded)'
  BY NextTypeOK, NextEditsBounded
<1> QED
  BY <1>1, <1>2, PTL DEF Spec

-----------------------------------------------------------------------------
(***************************************************************************)
(* What no step may undo.                                                  *)
(***************************************************************************)

\* ON CONFLICT DO NOTHING: a decision that was recorded is never changed.
LEMMA DecideKeeps ==
    ASSUME TypeOK, NEW r \in Requests, NEW d \in Decisions, Decide(r, d),
           NEW v \in Versions, NEW u \in Users, decision[v][u] # "none"
    PROVE  decision'[v][u] = decision[v][u]
<1>1. ver[r] \in Versions /\ user[r] \in Users
  BY DEF TypeOK
<1>2. CASE decision[ver[r]][user[r]] = "none"
  <2>1. decision' = [decision EXCEPT ![ver[r]] = [decision[ver[r]] EXCEPT ![user[r]] = d]]
    BY <1>1, <1>2 DEF Decide, TypeOK
  <2>2. CASE v # ver[r]
    BY <1>1, <2>1, <2>2 DEF TypeOK
  <2>3. CASE v = ver[r]
    <3>1. u # user[r]
      BY <1>2, <2>3
    <3>2. decision'[v] = [decision[v] EXCEPT ![user[r]] = d]
      BY <1>1, <2>1, <2>3 DEF TypeOK
    <3> QED
      BY <1>1, <3>1, <3>2 DEF TypeOK
  <2> QED
    BY <2>2, <2>3
<1>3. CASE decision[ver[r]][user[r]] # "none"
  BY <1>3 DEF Decide
<1> QED
  BY <1>2, <1>3

LEMMA DecisionStable ==
    ASSUME TypeOK, [Next]_vars, NEW v \in Versions, NEW u \in Users, decision[v][u] # "none"
    PROVE  decision'[v][u] = decision[v][u]
<1>1. ASSUME NEW r \in Requests, CommitApproval(r) \/ CommitReject(r)
      PROVE  decision'[v][u] = decision[v][u]
  BY <1>1, DecideKeeps DEF CommitApproval, CommitReject, Decisions
<1>2. ASSUME NEW r \in Requests,
             \/ \E h \in {"approve", "reject", "edit"} : SelectPlan(r, h)
             \/ \E w \in Versions : StartReconcile(r, w)
             \/ Guard(r) \/ CommitEdit(r) \/ LoadJob(r) \/ Precheck(r) \/ FlushIntent(r)
             \/ FlushFails(r) \/ Apply(r) \/ CommitExecution(r) \/ ReadDevice(r)
             \/ CommitReconcile(r)
      PROVE  decision' = decision
  BY <1>2 DEF SelectPlan, StartReconcile, Guard, CommitEdit, LoadJob, Precheck, FlushIntent,
     FlushFails, Apply, CommitExecution, ReadDevice, CommitReconcile, dbVars
<1>3. ASSUME Crash \/ UNCHANGED vars
      PROVE  decision' = decision
  BY <1>3 DEF Crash, dbVars, vars
<1> QED
  BY <1>1, <1>2, <1>3 DEF Next, Receive, Progress

LEMMA ApprovedStable ==
    ASSUME TypeOK, [Next]_vars, NEW v \in Versions, Approved(v)
    PROVE  Approved(v)'
BY DecisionStable DEF Approved

\* A slot keeps the version it loaded, and an old slot is never new again.
LEMMA SlotStable ==
    ASSUME TypeOK, [Next]_vars, NEW q \in Requests, pc[q] # "new"
    PROVE  ver'[q] = ver[q] /\ pc'[q] # "new"
<1> USE DEF Goto, Answer, TypeOK
<1>1. ASSUME NEW r \in Requests, NEW h \in {"approve", "reject", "edit"}, SelectPlan(r, h)
      PROVE  ver'[q] = ver[q] /\ pc'[q] # "new"
  BY <1>1 DEF SelectPlan
<1>2. ASSUME NEW r \in Requests, NEW v \in Versions, StartReconcile(r, v)
      PROVE  ver'[q] = ver[q] /\ pc'[q] # "new"
  BY <1>2 DEF StartReconcile
<1>3. ASSUME NEW r \in Requests, Progress(r) \/ FlushFails(r)
      PROVE  ver'[q] = ver[q] /\ pc'[q] # "new"
  BY <1>3 DEF Progress, FlushFails, CommitApproval, Guard, CommitReject, CommitEdit, LoadJob,
     Precheck, FlushIntent, Apply, CommitExecution, ReadDevice, CommitReconcile, reqVars
<1>4. ASSUME Crash \/ UNCHANGED vars
      PROVE  ver'[q] = ver[q] /\ pc'[q] # "new"
  BY <1>4 DEF Crash, vars
<1> QED
  BY <1>1, <1>2, <1>3, <1>4 DEF Next, Receive

LEMMA LatestGrows ==
    ASSUME TypeOK, [Next]_vars
    PROVE  latest \in Nat /\ latest' \in Nat /\ latest <= latest'
<1>1. latest \in Nat
  BY DEF TypeOK, Versions
<1>2. latest' = latest \/ latest' = latest + 1
  BY DEF Next, Receive, Progress, SelectPlan, StartReconcile, CommitApproval, Guard,
     CommitReject, CommitEdit, LoadJob, Precheck, FlushIntent, FlushFails, Apply,
     CommitExecution, ReadDevice, CommitReconcile, Crash, dbVars, vars
<1> QED
  BY <1>1, <1>2

\* Only Apply sends anything to the device.
LEMMA MutatedByApply ==
    ASSUME TypeOK, [Next]_vars, NEW r \in mutated' \ mutated
    PROVE  r \in Requests /\ Apply(r) /\ pc[r] = "intent"
<1>1. ASSUME NEW q \in Requests, Apply(q)
      PROVE  r = q /\ pc[q] = "intent"
  BY <1>1 DEF Apply
<1>2. ASSUME NEW q \in Requests,
             \/ CommitApproval(q) \/ Guard(q) \/ CommitReject(q) \/ CommitEdit(q) \/ LoadJob(q)
             \/ Precheck(q) \/ FlushIntent(q) \/ FlushFails(q) \/ CommitExecution(q)
             \/ ReadDevice(q) \/ CommitReconcile(q) \/ Receive(q)
      PROVE  mutated' = mutated
  BY <1>2 DEF CommitApproval, Guard, CommitReject, CommitEdit, LoadJob, Precheck, FlushIntent,
     FlushFails, CommitExecution, ReadDevice, CommitReconcile, Receive, SelectPlan,
     StartReconcile, reqVars
<1>3. ASSUME Crash \/ UNCHANGED vars
      PROVE  mutated' = mutated
  BY <1>3 DEF Crash, vars
<1> QED
  BY <1>1, <1>2, <1>3 DEF Next, Progress

\* A request is moved by its own steps and by a crash only.
Still(q) ==
    /\ pc'[q] = pc[q] /\ ver'[q] = ver[q] /\ after'[q] = after[q] /\ result'[q] = result[q]
    /\ q \in mutated' <=> q \in mutated
    /\ \A a \in Actions : <<q, a>> \in audit' <=> <<q, a>> \in audit

LEMMA OwnStep ==
    ASSUME TypeOK, [Next]_vars, NEW q \in Requests
    PROVE  Receive(q) \/ Progress(q) \/ FlushFails(q) \/ Crash \/ Still(q)
<1> USE DEF Goto, Answer, TypeOK, Still
<1>1. ASSUME NEW r \in Requests \ {q}, NEW h \in {"approve", "reject", "edit"}, SelectPlan(r, h)
      PROVE  Still(q)
  BY <1>1 DEF SelectPlan, dbVars
<1>2. ASSUME NEW r \in Requests \ {q}, NEW v \in Versions, StartReconcile(r, v)
      PROVE  Still(q)
  BY <1>2 DEF StartReconcile, dbVars
<1>3. ASSUME NEW r \in Requests \ {q},
             \/ CommitApproval(r) \/ Guard(r) \/ CommitReject(r) \/ CommitEdit(r) \/ LoadJob(r)
             \/ Precheck(r) \/ FlushIntent(r) \/ FlushFails(r) \/ Apply(r) \/ ReadDevice(r)
      PROVE  Still(q)
  BY <1>3 DEF CommitApproval, Guard, CommitReject, CommitEdit, LoadJob, Precheck,
     FlushIntent, FlushFails, Apply, ReadDevice, dbVars, reqVars
<1>4. ASSUME NEW r \in Requests \ {q}, CommitExecution(r) \/ CommitReconcile(r)
      PROVE  Still(q)
  BY <1>4 DEF CommitExecution, CommitReconcile
<1>5. ASSUME UNCHANGED vars
      PROVE  Still(q)
  BY <1>5 DEF vars
<1> QED
  BY <1>1, <1>2, <1>3, <1>4, <1>5 DEF Next, Receive, Progress

-----------------------------------------------------------------------------
(***************************************************************************)
(* Preservation, one conjunct of IInv at a time.                           *)
(***************************************************************************)

LEMMA NextInFlightApproved ==
    ASSUME IInv, [Next]_vars
    PROVE  InFlightApproved'
<1> SUFFICES ASSUME NEW q \in Requests, pc'[q] \in {"load"} \cup Executing
             PROVE  Approved(ver[q])'
  BY DEF InFlightApproved
<1> USE DEF IInv
<1>1. /\ pc[q] \in {"guard", "load"} \cup Executing
      /\ pc[q] = "guard" => Authorized(ver[q])
  <2>1. CASE Receive(q)
    BY <2>1 DEF Receive, SelectPlan, StartReconcile, TypeOK, Goto, Answer, Executing, HoldsRow
  <2>2. CASE Progress(q) \/ FlushFails(q)
    BY <2>2 DEF Progress, FlushFails, CommitApproval, Guard, CommitReject, CommitEdit, LoadJob,
       Precheck, FlushIntent, Apply, CommitExecution, ReadDevice, CommitReconcile,
       TypeOK, Goto, Answer, Executing, HoldsRow
  <2>3. CASE Crash
    BY <2>3 DEF Crash, Executing, HoldsRow
  <2>4. CASE Still(q)
    BY <2>4 DEF Still, Executing, HoldsRow
  <2> QED
    BY <2>1, <2>2, <2>3, <2>4, OwnStep
<1>2. ver[q] \in Versions /\ Approved(ver[q])
  BY <1>1 DEF InFlightApproved, TypeOK, Authorized, Approved
<1>3. ver'[q] = ver[q]
  BY <1>1, SlotStable DEF Executing, HoldsRow
<1> QED
  BY <1>2, <1>3, ApprovedStable DEF Approved

LEMMA NextMutatedApproved ==
    ASSUME IInv, [Next]_vars
    PROVE  MutatedApproved'
<1> SUFFICES ASSUME NEW q \in mutated'
             PROVE  Approved(ver[q])'
  BY DEF MutatedApproved
<1> USE DEF IInv
<1>1. q \in Requests
  BY NextTypeOK DEF TypeOK
<1>2. \/ q \in mutated
      \/ pc[q] = "intent"
  <2>1. CASE Receive(q)
    BY <2>1 DEF Receive, SelectPlan, StartReconcile
  <2>2. CASE Progress(q) \/ FlushFails(q)
    BY <2>2 DEF Progress, FlushFails, CommitApproval, Guard, CommitReject, CommitEdit, LoadJob,
       Precheck, FlushIntent, Apply, CommitExecution, ReadDevice, CommitReconcile, reqVars
  <2>3. CASE Crash
    BY <2>3 DEF Crash
  <2>4. CASE Still(q)
    BY <2>4 DEF Still
  <2> QED
    BY <1>1, <2>1, <2>2, <2>3, <2>4, OwnStep
<1>3. ver[q] \in Versions /\ Approved(ver[q]) /\ pc[q] # "new"
  BY <1>1, <1>2 DEF MutatedApproved, InFlightApproved, TypeOK, Executing, HoldsRow, SlotsWellFormed
<1>4. ver'[q] = ver[q]
  BY <1>1, <1>3, SlotStable
<1> QED
  BY <1>3, <1>4, ApprovedStable DEF Approved

LEMMA NextSlotsWellFormed ==
    ASSUME IInv, [Next]_vars
    PROVE  SlotsWellFormed'
<1> SUFFICES ASSUME NEW q \in Requests
             PROVE  /\ pc'[q] = "new" => q \notin mutated' /\ after'[q] = "unknown" /\ result'[q] = ""
                    /\ pc'[q] # "done" => result'[q] = ""
                    /\ ver'[q] <= latest'
  BY DEF SlotsWellFormed
<1> USE DEF IInv
<1>1. latest \in Nat /\ latest' \in Nat /\ latest <= latest' /\ ver[q] \in Nat
  BY LatestGrows DEF TypeOK, Versions
<1>2. /\ pc[q] = "new" => q \notin mutated /\ after[q] = "unknown" /\ result[q] = ""
      /\ pc[q] # "done" => result[q] = ""
  BY DEF SlotsWellFormed
<1>3. ver[q] <= latest'
  <2>1. ver[q] <= latest
    BY DEF SlotsWellFormed
  <2> QED
    BY <1>1, <2>1
<1>4. CASE Receive(q)
  <2>1. ASSUME NEW h \in {"approve", "reject", "edit"}, SelectPlan(q, h)
        PROVE  /\ pc'[q] # "new" /\ result'[q] = "" /\ ver'[q] <= latest'
    BY <1>1, <1>2, <2>1 DEF SelectPlan, Goto, TypeOK, dbVars
  <2>2. ASSUME NEW v \in Versions, StartReconcile(q, v)
        PROVE  /\ pc'[q] # "new" /\ (pc'[q] # "done" => result'[q] = "")
               /\ ver'[q] <= latest'
    <3>1. v <= latest
      BY <2>2 DEF StartReconcile, JobsHavePlans
    <3>2. latest' = latest /\ ver'[q] = v
      BY <2>2 DEF StartReconcile, TypeOK, dbVars
    <3>3. pc'[q] # "new" /\ (pc'[q] # "done" => result'[q] = "")
      BY <1>2, <2>2 DEF StartReconcile, Goto, Answer, TypeOK
    <3> QED
      BY <3>1, <3>2, <3>3
  <2> QED
    BY <1>4, <2>1, <2>2 DEF Receive
<1>5. CASE Progress(q) \/ FlushFails(q)
  <2>1. /\ pc'[q] # "new"
        /\ pc'[q] # "done" => result'[q] = ""
        /\ ver'[q] = ver[q]
    BY <1>2, <1>5 DEF Progress, FlushFails, CommitApproval, Guard, CommitReject, CommitEdit,
       LoadJob, Precheck, FlushIntent, Apply, CommitExecution, ReadDevice, CommitReconcile,
       reqVars, Goto, Answer, TypeOK
  <2> QED
    BY <1>3, <2>1
<1>6. CASE Crash
  <2>1. ver' = ver /\ mutated' = mutated /\ after' = after
    BY <1>6 DEF Crash
  <2>2. /\ pc'[q] = "new" => pc[q] = "new" /\ result'[q] = result[q]
        /\ pc'[q] # "done" => pc'[q] = "new"
    BY <1>6 DEF Crash
  <2> QED
    BY <1>2, <1>3, <2>1, <2>2
<1>7. CASE Still(q)
  BY <1>2, <1>3, <1>7 DEF Still
<1> QED
  BY <1>4, <1>5, <1>6, <1>7, OwnStep

LEMMA NextReadsFresh ==
    ASSUME IInv, [Next]_vars
    PROVE  ReadsFresh'
<1> SUFFICES ASSUME NEW q \in Requests, pc'[q] \notin {"applied", "resolve", "done"}
             PROVE  after'[q] = "unknown"
  BY DEF ReadsFresh
<1> USE DEF IInv, ReadsFresh, Goto, Answer, TypeOK
<1>1. CASE Receive(q)
  BY <1>1 DEF Receive, SelectPlan, StartReconcile
<1>2. CASE CommitApproval(q) \/ Guard(q) \/ CommitReject(q) \/ CommitEdit(q) \/ LoadJob(q)
  BY <1>2 DEF CommitApproval, Guard, CommitReject, CommitEdit, LoadJob, reqVars
<1>3. CASE Precheck(q) \/ FlushIntent(q) \/ FlushFails(q) \/ CommitExecution(q) \/ CommitReconcile(q)
  BY <1>3 DEF Precheck, FlushIntent, FlushFails, CommitExecution, CommitReconcile, reqVars
<1>4. CASE Apply(q) \/ ReadDevice(q)
  BY <1>4 DEF Apply, ReadDevice
<1>5. CASE Crash
  BY <1>5 DEF Crash
<1>6. CASE Still(q)
  BY <1>6 DEF Still
<1> QED
  BY <1>1, <1>2, <1>3, <1>4, <1>5, <1>6, OwnStep DEF Progress

LEMMA NextJobsHavePlans ==
    ASSUME IInv, [Next]_vars
    PROVE  JobsHavePlans'
<1> SUFFICES ASSUME NEW v \in Versions, job'[v] # "none"
             PROVE  v <= latest'
  BY DEF JobsHavePlans
<1> USE DEF IInv
<1>1. latest \in Nat /\ latest' \in Nat /\ latest <= latest' /\ v \in Nat
  BY LatestGrows DEF Versions
<1>2. v <= latest
  <2>1. ASSUME NEW r \in Requests, CommitApproval(r)
        PROVE  job[v] # "none" \/ v = ver[r]
    BY <2>1 DEF CommitApproval, TypeOK
  <2>2. ASSUME NEW r \in Requests, CommitExecution(r) \/ CommitReconcile(r)
        PROVE  job[v] # "none" \/ v = ver[r]
    BY <2>2 DEF CommitExecution, CommitReconcile, TypeOK
  <2>3. job[v] # "none" \/ \E r \in Requests : v = ver[r]
    BY <2>1, <2>2 DEF Next, Receive, Progress, SelectPlan, StartReconcile, Guard, CommitReject,
       CommitEdit, LoadJob, Precheck, FlushIntent, FlushFails, Apply, ReadDevice, Crash, dbVars,
       vars
  <2> QED
    BY <2>3 DEF JobsHavePlans, SlotsWellFormed
<1> QED
  BY <1>1, <1>2

LEMMA NextTrailsWellFormed ==
    ASSUME IInv, [Next]_vars
    PROVE  TrailsWellFormed'
<1> SUFFICES ASSUME NEW q \in Requests
             PROVE  /\ pc'[q] = "applied" => q \in mutated'
                    /\ <<q, "apply">> \in audit' =>
                         pc'[q] = "done" /\ q \in mutated' /\ <<q, "intent">> \in audit'
  BY DEF TrailsWellFormed
<1> USE DEF IInv
<1>1. /\ pc[q] = "applied" => q \in mutated
      /\ <<q, "apply">> \in audit =>
           pc[q] = "done" /\ q \in mutated /\ <<q, "intent">> \in audit
  BY DEF TrailsWellFormed
<1>2. CASE Receive(q)
  BY <1>1, <1>2 DEF Receive, SelectPlan, StartReconcile, Goto, Answer, TypeOK, dbVars
<1>3. CASE \/ CommitApproval(q) \/ Guard(q) \/ CommitReject(q) \/ CommitEdit(q) \/ LoadJob(q)
           \/ Precheck(q) \/ FlushIntent(q) \/ FlushFails(q) \/ Apply(q) \/ ReadDevice(q)
  BY <1>1, <1>3 DEF CommitApproval, Guard, CommitReject, CommitEdit, LoadJob, Precheck,
     FlushIntent, FlushFails, Apply, ReadDevice, Goto, Answer, TypeOK, dbVars, reqVars
<1>4. CASE CommitExecution(q)
  BY <1>1, <1>4 DEF CommitExecution, Answer, Goto, TypeOK
<1>5. CASE CommitReconcile(q)
  BY <1>1, <1>5 DEF CommitReconcile, Answer, Goto, TypeOK
<1>6. CASE Crash
  BY <1>1, <1>6 DEF Crash, dbVars
<1>7. CASE Still(q)
  BY <1>1, <1>7 DEF Still, Actions
<1> QED
  BY <1>2, <1>3, <1>4, <1>5, <1>6, <1>7, OwnStep DEF Progress

LEMMA NextAttemptsAreSerial ==
    ASSUME IInv, [Next]_vars
    PROVE  AttemptsAreSerial'
<1> SUFFICES ASSUME NEW q \in Requests, NEW r \in Requests, q # r, ver'[q] = ver'[r],
                    pc'[q] \in HoldsRow, pc'[r] \in HoldsRow
             PROVE  FALSE
  BY DEF AttemptsAreSerial
<1> USE DEF IInv
\* Holding the row is preserved or newly acquired, and acquiring needs the row free.
<1>1. ASSUME NEW x \in Requests, pc'[x] \in HoldsRow
      PROVE  /\ ver'[x] = ver[x]
             /\ \/ pc[x] \in HoldsRow
                \/ FlushIntent(x)
  <2>1. pc[x] \in HoldsRow \/ FlushIntent(x)
    <3>1. CASE Receive(x)
      BY <1>1, <3>1 DEF Receive, SelectPlan, StartReconcile, Goto, Answer, TypeOK, HoldsRow
    <3>2. CASE Progress(x) \/ FlushFails(x)
      BY <1>1, <3>2 DEF Progress, FlushFails, CommitApproval, Guard, CommitReject, CommitEdit,
         LoadJob, Precheck, Apply, CommitExecution, ReadDevice, CommitReconcile,
         Goto, Answer, TypeOK, HoldsRow
    <3>3. CASE Crash
      BY <1>1, <3>3 DEF Crash, HoldsRow
    <3>4. CASE Still(x)
      BY <1>1, <3>4 DEF Still
    <3> QED
      BY <3>1, <3>2, <3>3, <3>4, OwnStep
  <2>2. pc[x] # "new"
    BY <2>1 DEF HoldsRow, FlushIntent
  <2> QED
    BY <2>1, <2>2, SlotStable
<1>2. ver[q] = ver[r]
  BY <1>1
<1>3. ASSUME NEW x \in Requests, NEW y \in Requests, x # y, FlushIntent(x), ver[x] = ver[y],
             pc'[y] \in HoldsRow
      PROVE  FALSE
  BY <1>3 DEF FlushIntent, RowFree, Goto, TypeOK
<1> QED
  BY <1>1, <1>2, <1>3 DEF AttemptsAreSerial

LEMMA NextReconcilerAlone ==
    ASSUME IInv, [Next]_vars
    PROVE  ReconcilerAlone'
<1> DEFINE Reads2 == {"reading", "resolve"}
<1> USE DEF IInv
<1>1. ASSUME NEW x \in Requests, pc'[x] \in Reads2
      PROVE  \/ pc[x] \in Reads2 /\ ver'[x] = ver[x]
             \/ \E v \in Versions : StartReconcile(x, v)
  <2>1. CASE \E h \in {"approve", "reject", "edit"} : SelectPlan(x, h)
    BY <1>1, <2>1 DEF SelectPlan, Goto, TypeOK
  <2>2. CASE Progress(x) \/ FlushFails(x)
    BY <1>1, <2>2 DEF Progress, FlushFails, CommitApproval, Guard, CommitReject, CommitEdit,
       LoadJob, Precheck, FlushIntent, Apply, CommitExecution, ReadDevice, CommitReconcile,
       Goto, Answer, TypeOK, reqVars
  <2>3. CASE Crash
    BY <1>1, <2>3 DEF Crash
  <2>4. CASE Still(x)
    BY <1>1, <2>4 DEF Still
  <2> QED
    BY <2>1, <2>2, <2>3, <2>4, OwnStep DEF Receive
<1>2. ASSUME NEW x \in Requests, NEW v \in Versions, StartReconcile(x, v), pc'[x] \in Reads2
      PROVE  /\ job'[ver'[x]] = "reconciling"
             /\ \A y \in Requests : pc'[y] \in Reads2 => y = x
  BY <1>2 DEF StartReconcile, Goto, Answer, TypeOK, JobStates, dbVars
<1>3. ASSUME NEW x \in Requests, pc[x] \in Reads2, pc'[x] \in Reads2, ver'[x] = ver[x]
      PROVE  job'[ver'[x]] = "reconciling"
  <2>1. ver[x] \in Versions /\ job[ver[x]] = "reconciling" /\ execution[ver[x]] # "none"
    BY <1>3 DEF ReconcilerAlone, JobMatchesExecution, TypeOK
  <2>2. ASSUME NEW r \in Requests, CommitApproval(r)
        PROVE  job'[ver[x]] = "reconciling"
    BY <2>1, <2>2 DEF CommitApproval, TypeOK
  <2>3. ASSUME NEW r \in Requests, CommitExecution(r)
        PROVE  job'[ver[x]] = "reconciling"
    BY <2>1, <2>3 DEF CommitExecution, TypeOK
  <2>4. ASSUME NEW r \in Requests, CommitReconcile(r)
        PROVE  FALSE
    <3>1. r = x
      BY <1>3, <2>4 DEF CommitReconcile, ReconcilerAlone
    <3> QED
      BY <1>3, <2>4, <3>1 DEF CommitReconcile, Answer, Goto, TypeOK
  <2>5. \/ job' = job
        \/ \E r \in Requests : CommitApproval(r) \/ CommitExecution(r) \/ CommitReconcile(r)
    BY DEF Next, Receive, Progress, SelectPlan, StartReconcile, Guard, CommitReject,
       CommitEdit, LoadJob, Precheck, FlushIntent, FlushFails, Apply, ReadDevice, Crash, dbVars,
       vars
  <2> QED
    BY <1>3, <2>1, <2>2, <2>3, <2>4, <2>5
<1> QED
  BY <1>1, <1>2, <1>3 DEF ReconcilerAlone

\* The rows of a version change only when an attempt at it commits or it is reconciled.
LEMMA RowsChange ==
    ASSUME TypeOK, [Next]_vars
    PROVE  \/ execution' = execution /\ (job' = job \/ \E r \in Requests : CommitApproval(r))
           \/ \E r \in Requests : CommitExecution(r) \/ CommitReconcile(r)
BY DEF Next, Receive, Progress, SelectPlan, StartReconcile, CommitApproval, Guard, CommitReject,
   CommitEdit, LoadJob, Precheck, FlushIntent, FlushFails, Apply, ReadDevice, Crash, dbVars, vars

LEMMA NextJobMatchesExecution ==
    ASSUME IInv, [Next]_vars
    PROVE  JobMatchesExecution'
<1> SUFFICES ASSUME NEW v \in Versions
             PROVE  /\ execution'[v] = "none" <=> job'[v] \in {"none", "pending"}
                    /\ execution'[v] = "succeeded" => job'[v] = "completed"
                    /\ execution'[v] = "outcome_unknown" => job'[v] = "reconciling"
  BY DEF JobMatchesExecution
<1> USE DEF IInv
<1>1. /\ execution[v] = "none" <=> job[v] \in {"none", "pending"}
      /\ execution[v] = "succeeded" => job[v] = "completed"
      /\ execution[v] = "outcome_unknown" => job[v] = "reconciling"
  BY DEF JobMatchesExecution
<1>2. CASE execution' = execution /\ job' = job
  BY <1>1, <1>2
<1>3. ASSUME NEW r \in Requests, CommitApproval(r), execution' = execution
      PROVE  /\ execution'[v] = "none" <=> job'[v] \in {"none", "pending"}
             /\ execution'[v] = "succeeded" => job'[v] = "completed"
             /\ execution'[v] = "outcome_unknown" => job'[v] = "reconciling"
  BY <1>1, <1>3 DEF CommitApproval, TypeOK
<1>4. ASSUME NEW r \in Requests, CommitExecution(r)
      PROVE  /\ execution'[v] = "none" <=> job'[v] \in {"none", "pending"}
             /\ execution'[v] = "succeeded" => job'[v] = "completed"
             /\ execution'[v] = "outcome_unknown" => job'[v] = "reconciling"
  <2>1. ReadStatus(after[r]) \in {"succeeded", "failed", "outcome_unknown"}
    BY ReadStatusType DEF TypeOK
  <2> QED
    BY <1>1, <1>4, <2>1 DEF CommitExecution, TypeOK
<1>5. ASSUME NEW r \in Requests, CommitReconcile(r)
      PROVE  /\ execution'[v] = "none" <=> job'[v] \in {"none", "pending"}
             /\ execution'[v] = "succeeded" => job'[v] = "completed"
             /\ execution'[v] = "outcome_unknown" => job'[v] = "reconciling"
  <2>1. ReadStatus(after[r]) \in {"succeeded", "failed", "outcome_unknown"}
    BY ReadStatusType DEF TypeOK
  <2>2. job[ver[r]] = "reconciling" /\ ver[r] \in Versions
    BY <1>5 DEF CommitReconcile, ReconcilerAlone, TypeOK
  <2>3. execution[ver[r]] \in {"failed", "outcome_unknown"}
    BY <2>2 DEF JobMatchesExecution, TypeOK, ExecutionStates
  <2> QED
    BY <1>1, <1>5, <2>1, <2>2, <2>3 DEF CommitReconcile, TypeOK
<1> QED
  BY <1>2, <1>3, <1>4, <1>5, RowsChange

LEMMA NextRecordersUnique ==
    ASSUME IInv, [Next]_vars
    PROVE  RecordersUnique'
<1> USE DEF IInv
<1> DEFINE Rec(q) == <<q, "apply">> \in audit
           Rec2(q) == <<q, "apply">> \in audit'
\* An attempt that recorded is over, so its slot no longer changes.
<1>1. ASSUME NEW q \in Requests, Rec(q)
      PROVE  ver'[q] = ver[q]
  <2>1. pc[q] = "done"
    BY <1>1 DEF TrailsWellFormed
  <2> QED
    BY <2>1, SlotStable
<1>2. ASSUME NEW q \in Requests
      PROVE  Rec2(q) <=> Rec(q) \/ (CommitExecution(q) /\ execution[ver[q]] = "none")
  <2>1. CASE Receive(q)
    BY <2>1 DEF Receive, SelectPlan, StartReconcile, CommitExecution, dbVars
  <2>2. CASE \/ CommitApproval(q) \/ Guard(q) \/ CommitReject(q) \/ CommitEdit(q) \/ LoadJob(q)
             \/ Precheck(q) \/ FlushIntent(q) \/ FlushFails(q) \/ Apply(q) \/ ReadDevice(q)
    BY <2>2 DEF CommitApproval, Guard, CommitReject, CommitEdit, LoadJob, Precheck, FlushIntent,
       FlushFails, Apply, ReadDevice, CommitExecution, dbVars, reqVars
  <2>3. CASE CommitExecution(q)
    BY <2>3 DEF CommitExecution
  <2>4. CASE CommitReconcile(q)
    BY <2>4 DEF CommitReconcile, CommitExecution
  <2>5. CASE Crash
    BY <2>5 DEF Crash, CommitExecution, Goto, Answer, TypeOK, dbVars
  <2>6. CASE Still(q)
    BY <2>6 DEF Still, CommitExecution, Answer, Goto, TypeOK, Actions
  <2> QED
    BY <2>1, <2>2, <2>3, <2>4, <2>5, <2>6, OwnStep DEF Progress
<1>3. ASSUME NEW q \in Requests, CommitExecution(q), execution[ver[q]] = "none"
      PROVE  RecordersUnique'
  <2>1. /\ ver[q] \in Versions
        /\ ver' = ver
        /\ execution'[ver[q]] # "none"
        /\ \A v \in Versions \ {ver[q]} : execution'[v] = execution[v]
        /\ audit' = audit \cup {<<q, "intent">>, <<q, "apply">>}
    <3>1. ReadStatus(after[q]) \in {"succeeded", "failed", "outcome_unknown"}
      BY ReadStatusType DEF TypeOK
    <3> QED
      BY <1>3, <3>1 DEF CommitExecution, TypeOK
  <2>2. \A x \in Requests : <<x, "apply">> \in audit' <=> Rec(x) \/ x = q
    BY <2>1
  <2>3. \A x \in Requests : Rec(x) => ver[x] # ver[q]
    BY <1>3, <2>1 DEF RecordersUnique
  <2> QED
    BY <2>1, <2>2, <2>3 DEF RecordersUnique
<1>4. CASE ~ \E q \in Requests : CommitExecution(q) /\ execution[ver[q]] = "none"
  <2>1. \A x \in Requests : Rec2(x) <=> Rec(x)
    BY <1>2, <1>4
  <2>2. \A v \in Versions : execution'[v] = "none" <=> execution[v] = "none"
    <3>1. ASSUME NEW r \in Requests, CommitExecution(r)
          PROVE  execution' = execution
      BY <1>4, <3>1 DEF CommitExecution
    <3>2. ASSUME NEW r \in Requests, CommitReconcile(r), NEW v \in Versions
          PROVE  execution'[v] = "none" <=> execution[v] = "none"
      <4>1. ReadStatus(after[r]) \in {"succeeded", "failed", "outcome_unknown"}
        BY ReadStatusType DEF TypeOK
      <4> QED
        BY <3>2, <4>1 DEF CommitReconcile, TypeOK
    <3> QED
      BY <3>1, <3>2, RowsChange
  <2>3. \A v \in Versions :
          (\E r \in Requests : ver'[r] = v /\ Rec2(r)) <=> (\E r \in Requests : ver[r] = v /\ Rec(r))
    BY <1>1, <2>1
  <2>4. \A q, r \in Requests : Rec2(q) /\ Rec2(r) /\ ver'[q] = ver'[r] => q = r
    BY <1>1, <2>1 DEF RecordersUnique
  <2> QED
    BY <2>2, <2>3, <2>4 DEF RecordersUnique
<1> QED
  BY <1>3, <1>4

\* An Execution row never disappears.
LEMMA ExecutionStable ==
    ASSUME IInv, [Next]_vars, NEW v \in Versions, execution[v] # "none"
    PROVE  execution'[v] # "none"
<1> USE DEF IInv
<1>1. ASSUME NEW r \in Requests, CommitExecution(r) \/ CommitReconcile(r)
      PROVE  execution'[v] # "none"
  <2>1. ReadStatus(after[r]) \in {"succeeded", "failed", "outcome_unknown"}
    BY ReadStatusType DEF TypeOK
  <2> QED
    BY <1>1, <2>1 DEF CommitExecution, CommitReconcile, TypeOK
<1> QED
  BY <1>1, RowsChange

LEMMA NextAnswersGrounded ==
    ASSUME IInv, [Next]_vars
    PROVE  AnswersGrounded'
<1> DEFINE Grounded(q) ==
        /\ q \in mutated => pc[q] \in {"applied", "done"}
        /\ pc[q] = "guard" => decision[ver[q]][user[q]] # "none"
        /\ result[q] \in ExecutionStates \ {"none"} => <<q, "apply">> \in audit
        /\ result[q] = "side_door" => q \notin mutated /\ decision[ver[q]][user[q]] = "reject"
        /\ result[q] # "precheck_error"
        /\ result[q] = "duplicate_ignored" => q \notin mutated /\ execution[ver[q]] # "none"
<1> SUFFICES ASSUME NEW q \in Requests PROVE Grounded(q)'
  BY DEF AnswersGrounded
<1> USE DEF IInv
<1>1. Grounded(q)
  BY DEF AnswersGrounded
<1>2. pc[q] # "done" => result[q] = ""
  BY DEF SlotsWellFormed
<1>3. /\ ver[q] \in Versions /\ user[q] \in Users /\ "" \notin ExecutionStates
      /\ user' = user
      /\ decision[ver[q]][user[q]] # "none" =>
            decision'[ver[q]][user[q]] = decision[ver[q]][user[q]]
      /\ execution[ver[q]] # "none" => execution'[ver[q]] # "none"
  <2>1. user' = user
    BY DEF Next, Receive, Progress, SelectPlan, StartReconcile, CommitApproval, Guard,
       CommitReject, CommitEdit, LoadJob, Precheck, FlushIntent, FlushFails, Apply,
       CommitExecution, ReadDevice, CommitReconcile, Crash, reqVars, vars
  <2> QED
    BY <2>1, DecisionStable, ExecutionStable DEF TypeOK, ExecutionStates
<1>4. CASE Receive(q)
  <2>1. CASE \E handler \in {"approve", "reject", "edit"} : SelectPlan(q, handler)
    BY <1>1, <1>2, <1>3, <2>1 DEF SelectPlan, Goto, TypeOK, dbVars, ExecutionStates
  <2>2. CASE \E v \in Versions : StartReconcile(q, v)
    <3>1. pc[q] = "new" /\ mutated' = mutated
      BY <2>2 DEF StartReconcile
    <3>2. q \notin mutated /\ result[q] = ""
      BY <1>1, <1>2, <3>1
    <3>3. PICK v \in Versions : StartReconcile(q, v)
      BY <2>2
    <3>4. /\ pc'[q] \in {"reading", "done"}
          /\ result'[q] \in {"", "nothing_to_reconcile"}
      BY <3>2, <3>3 DEF StartReconcile, Goto, Answer, TypeOK
    <3> QED
      BY <3>1, <3>2, <3>4 DEF ExecutionStates
  <2> QED
    BY <1>4, <2>1, <2>2 DEF Receive
<1>5. CASE CommitApproval(q)
  <2>1. decision'[ver[q]][user[q]] # "none"
    <3>1. CASE decision[ver[q]][user[q]] = "none"
      <4>1. decision' = [decision EXCEPT ![ver[q]] =
                            [decision[ver[q]] EXCEPT ![user[q]] = "approve"]]
        BY <1>3, <1>5, <3>1 DEF CommitApproval, Decide, TypeOK
      <4> QED
        BY <1>3, <4>1 DEF TypeOK
    <3> QED
      BY <1>3, <3>1
  <2> QED
    BY <1>1, <1>2, <1>3, <1>5, <2>1 DEF CommitApproval, Goto, TypeOK, reqVars
<1>6. CASE Guard(q)
  <2>1. ~Authorized(ver[q]) => decision[ver[q]][user[q]] = "reject"
    <3>1. decision[ver[q]][user[q]] \in {"none", "approve", "reject"}
      <4>1. decision[ver[q]] \in [Users -> {"none", "approve", "reject"}]
        BY <1>3 DEF TypeOK, Decisions
      <4> QED
        BY <1>3, <4>1
    <3>2. decision[ver[q]][user[q]] # "none"
      BY <1>1, <1>6 DEF Guard
    <3>3. ~Authorized(ver[q]) => decision[ver[q]][user[q]] # "approve"
      BY <1>3 DEF Authorized
    <3> QED
      BY <3>1, <3>2, <3>3
  <2> QED
    BY <1>1, <1>2, <1>3, <1>6, <2>1 DEF Guard, Goto, Answer, TypeOK, dbVars, ExecutionStates
<1>7. CASE Precheck(q)
  <2>1. Authorized(ver[q])
    BY <1>7 DEF Precheck, InFlightApproved, Authorized, Approved, Executing
  <2> QED
    BY <1>1, <1>2, <1>3, <1>7, <2>1 DEF Precheck, Goto, Answer, TypeOK, dbVars, ExecutionStates
<1>8. CASE CommitReject(q) \/ CommitEdit(q)
  BY <1>1, <1>2, <1>3, <1>8 DEF CommitReject, CommitEdit, Goto, Answer, TypeOK, ExecutionStates
<1>9. CASE LoadJob(q) \/ FlushIntent(q) \/ FlushFails(q)
  BY <1>1, <1>2, <1>3, <1>9 DEF LoadJob, FlushIntent, FlushFails, Goto, Answer, TypeOK, dbVars,
     reqVars, ExecutionStates
<1>10. CASE Apply(q) \/ ReadDevice(q)
  BY <1>1, <1>2, <1>3, <1>10 DEF Apply, ReadDevice, Goto, Answer, TypeOK, dbVars, ExecutionStates
<1>11. CASE CommitExecution(q)
  <2>1. ReadStatus(after[q]) \in {"succeeded", "failed", "outcome_unknown"}
    BY ReadStatusType DEF TypeOK
  <2> QED
    BY <1>1, <1>2, <1>3, <1>11, <2>1 DEF CommitExecution, Goto, Answer, TypeOK, ExecutionStates
<1>12. CASE CommitReconcile(q)
  BY <1>1, <1>2, <1>3, <1>12 DEF CommitReconcile, Goto, Answer, TypeOK, ExecutionStates
<1>13. CASE Crash
  BY <1>1, <1>2, <1>3, <1>13 DEF Crash, dbVars, ExecutionStates
<1>14. CASE Still(q)
  BY <1>1, <1>2, <1>3, <1>14, SlotStable DEF Still, Actions
<1> QED
  BY <1>4, <1>5, <1>6, <1>7, <1>8, <1>9, <1>10, <1>11, <1>12, <1>13, <1>14, OwnStep DEF Progress

\* What a request recorded is left alone by the steps of the others.
LEMMA NextRowsComeLast ==
    ASSUME IInv, [Next]_vars
    PROVE  RowsComeLast'
<1> SUFFICES ASSUME NEW q \in Requests, pc'[q] # "done", NEW a \in Actions
             PROVE  <<q, a>> \notin audit'
  BY DEF RowsComeLast, Recorded
<1> USE DEF IInv
<1>1. pc[q] # "done" => <<q, a>> \notin audit
  BY DEF RowsComeLast, Recorded
<1>2. CASE Receive(q)
  BY <1>1, <1>2 DEF Receive, SelectPlan, StartReconcile, dbVars
<1>3. CASE \/ CommitApproval(q) \/ Guard(q) \/ CommitReject(q) \/ CommitEdit(q) \/ LoadJob(q)
           \/ Precheck(q) \/ FlushIntent(q) \/ FlushFails(q) \/ Apply(q) \/ ReadDevice(q)
  BY <1>1, <1>3 DEF CommitApproval, Guard, CommitReject, CommitEdit, LoadJob, Precheck,
     FlushIntent, FlushFails, Apply, ReadDevice, dbVars, reqVars
<1>4. CASE CommitExecution(q) \/ CommitReconcile(q)
  BY <1>4 DEF CommitExecution, CommitReconcile, Answer, Goto, TypeOK
<1>5. CASE Crash
  BY <1>1, <1>5 DEF Crash, dbVars, TypeOK
<1>6. CASE Still(q)
  BY <1>1, <1>6 DEF Still
<1> QED
  BY <1>2, <1>3, <1>4, <1>5, <1>6, OwnStep DEF Progress

\* An Execution changes once at most: from ambiguous to what reconciliation found.
LEMMA ExecutionResolves ==
    ASSUME IInv, [Next]_vars, NEW v \in Versions, execution[v] # "none"
    PROVE  \/ execution'[v] = execution[v]
           \/ execution[v] = "outcome_unknown" /\ execution'[v] \in {"succeeded", "failed"}
<1> USE DEF IInv
<1>1. ASSUME NEW r \in Requests, CommitExecution(r)
      PROVE  execution'[v] = execution[v]
  BY <1>1 DEF CommitExecution, TypeOK
<1>2. ASSUME NEW r \in Requests, CommitReconcile(r)
      PROVE  \/ execution'[v] = execution[v]
             \/ execution[v] = "outcome_unknown" /\ execution'[v] \in {"succeeded", "failed"}
  <2>1. ReadStatus(after[r]) \in {"succeeded", "failed", "outcome_unknown"}
    BY ReadStatusType DEF TypeOK
  <2> QED
    BY <1>2, <2>1 DEF CommitReconcile, TypeOK
<1> QED
  BY <1>1, <1>2, RowsChange

\* A closed job stays as it is, and a job never disappears.
LEMMA JobStable ==
    ASSUME IInv, [Next]_vars, NEW v \in Versions, job[v] # "none"
    PROVE  /\ job'[v] # "none"
           /\ job[v] \in {"completed", "retryable_failed"} => job'[v] = job[v]
<1> USE DEF IInv
<1>1. ASSUME NEW r \in Requests, CommitApproval(r)
      PROVE  job'[v] = job[v]
  BY <1>1 DEF CommitApproval, TypeOK
<1>2. ASSUME NEW r \in Requests, CommitExecution(r)
      PROVE  /\ job'[v] # "none"
             /\ job[v] \in {"completed", "retryable_failed"} => job'[v] = job[v]
  <2>1. execution[v] = "none" => job[v] \in {"none", "pending"}
    BY DEF JobMatchesExecution
  <2> QED
    BY <1>2, <2>1 DEF CommitExecution, TypeOK
<1>3. ASSUME NEW r \in Requests, CommitReconcile(r)
      PROVE  /\ job'[v] # "none"
             /\ job[v] \in {"completed", "retryable_failed"} => job'[v] = job[v]
  <2>1. job[ver[r]] = "reconciling"
    BY <1>3 DEF CommitReconcile, ReconcilerAlone
  <2> QED
    BY <1>3, <2>1 DEF CommitReconcile, TypeOK
<1> QED
  BY <1>1, <1>2, <1>3, RowsChange

\* An answer that was true stays true while its request does nothing.
LEMMA OldAnswerStaysTrue ==
    ASSUME IInv, [Next]_vars, NEW q \in Requests, pc[q] = "done",
           pc'[q] = pc[q], after'[q] = after[q], result'[q] = result[q],
           q \in mutated' <=> q \in mutated, Recorded(q)' = Recorded(q), user' = user
    PROVE  /\ StatusIsRecorded(q)' /\ RefusalIsRight(q)' /\ ReconciliationIsRecorded(q)'
           /\ result'[q] = "rejected" => Untouched(q)' /\ decision'[ver'[q]][user'[q]] # "none"
           /\ result'[q] = "edited" => Untouched(q)' /\ ver'[q] < latest'
<1> USE DEF IInv
<1>1. ver'[q] = ver[q] /\ ver[q] \in Versions /\ user[q] \in Users
  BY SlotStable DEF TypeOK
<1>2. /\ StatusIsRecorded(q) /\ DecisionIsRecorded(q)
      /\ RefusalIsRight(q) /\ ReconciliationIsRecorded(q)
  BY DEF AnswersAreTrue
<1>3. Untouched(q)' <=> Untouched(q)
  BY DEF Untouched
<1>4. StatusIsRecorded(q)'
  <2>1. execution[ver[q]] # "none" =>
          \/ execution'[ver[q]] = execution[ver[q]]
          \/ execution[ver[q]] = "outcome_unknown" /\ execution'[ver[q]] \in {"succeeded", "failed"}
    BY <1>1, ExecutionResolves
  <2> QED
    BY <1>1, <1>2, <2>1 DEF StatusIsRecorded
<1>5. decision[ver[q]][user[q]] # "none" =>
        decision'[ver[q]][user[q]] = decision[ver[q]][user[q]]
  BY <1>1, DecisionStable
<1>6. RefusalIsRight(q)'
  <2>1. execution[ver[q]] # "none" => execution'[ver[q]] # "none"
    BY <1>1, ExecutionStable
  <2>2. result[q] = "side_door" => decision[ver[q]][user[q]] = "reject"
    BY DEF AnswersGrounded
  <2>3. result[q] # "precheck_error"
    BY DEF AnswersGrounded
  <2> QED
    BY <1>1, <1>2, <1>3, <1>5, <2>1, <2>2, <2>3 DEF RefusalIsRight
<1>7. ReconciliationIsRecorded(q)'
  <2>1. /\ execution[ver[q]] # "none" => execution'[ver[q]] # "none"
        /\ job[ver[q]] # "none" => job'[ver[q]] # "none"
        /\ job[ver[q]] \in {"completed", "retryable_failed"} => job'[ver[q]] = job[ver[q]]
    BY <1>1, ExecutionStable, JobStable
  <2> QED
    BY <1>1, <1>2, <1>3, <2>1 DEF ReconciliationIsRecorded
<1>8. result'[q] = "rejected" => Untouched(q)' /\ decision'[ver'[q]][user'[q]] # "none"
  BY <1>1, <1>2, <1>3, <1>5 DEF DecisionIsRecorded
<1>9. result'[q] = "edited" => Untouched(q)' /\ ver'[q] < latest'
  <2>1. ver[q] < latest => ver[q] < latest'
    BY <1>1, LatestGrows DEF Versions
  <2> QED
    BY <1>1, <1>2, <1>3, <2>1 DEF DecisionIsRecorded
<1> QED
  BY <1>4, <1>6, <1>7, <1>8, <1>9

\* What each answer says is so when it is given.
LEMMA NewAnswerIsTrue ==
    ASSUME IInv, [Next]_vars, NEW q \in Requests, pc[q] # "done", user' = user
    PROVE  /\ StatusIsRecorded(q)' /\ RefusalIsRight(q)' /\ ReconciliationIsRecorded(q)'
           /\ result'[q] = "rejected" => Untouched(q)' /\ decision'[ver'[q]][user'[q]] # "none"
           /\ result'[q] = "edited" => Untouched(q)' /\ ver'[q] < latest'
<1> USE DEF IInv
<1> DEFINE Right == /\ StatusIsRecorded(q)' /\ RefusalIsRight(q)' /\ ReconciliationIsRecorded(q)'
                    /\ result'[q] = "rejected" =>
                          Untouched(q)' /\ decision'[ver'[q]][user'[q]] # "none"
                    /\ result'[q] = "edited" => Untouched(q)' /\ ver'[q] < latest'
<1>1. /\ result[q] = "" /\ Recorded(q) = {}
      /\ q \in mutated => pc[q] = "applied"
      /\ ver[q] \in Versions /\ user[q] \in Users
  <2>1. result[q] = "" /\ Recorded(q) = {}
    BY DEF SlotsWellFormed, RowsComeLast
  <2>2. q \in mutated => pc[q] = "applied"
    BY DEF AnswersGrounded
  <2>3. ver[q] \in Versions /\ user[q] \in Users
    BY DEF TypeOK
  <2> QED
    BY <2>1, <2>2, <2>3
<1>2. result'[q] \in {"", "crashed"} => Right
  BY DEF StatusIsRecorded, RefusalIsRight, ReconciliationIsRecorded, ExecutionStates
<1>3. CASE Receive(q)
  <2>1. CASE \E handler \in {"approve", "reject", "edit"} : SelectPlan(q, handler)
    BY <1>1, <1>2, <2>1 DEF SelectPlan
  <2>2. ASSUME NEW v \in Versions, StartReconcile(q, v)
        PROVE  Right
    <3>1. /\ job' = job /\ audit' = audit /\ mutated' = mutated /\ ver'[q] = v /\ job[v] # "none"
          /\ result'[q] \in {"", "nothing_to_reconcile"} /\ q \notin mutated
      BY <1>1, <2>2 DEF StartReconcile, dbVars, TypeOK, Answer
    <3>2. Untouched(q)'
      BY <1>1, <3>1 DEF Untouched, Recorded
    <3> QED
      BY <1>2, <3>1, <3>2
         DEF StatusIsRecorded, RefusalIsRight, ReconciliationIsRecorded, ExecutionStates
  <2> QED
    BY <1>3, <2>1, <2>2 DEF Receive
<1>4. CASE CommitApproval(q) \/ FlushIntent(q)
  BY <1>1, <1>2, <1>4 DEF CommitApproval, FlushIntent, reqVars
<1>5. CASE Guard(q) \/ Precheck(q) \/ LoadJob(q)
  <2>1. audit' = audit /\ mutated' = mutated /\ q \notin mutated /\ ver' = ver
    BY <1>1, <1>5 DEF Guard, Precheck, LoadJob, dbVars
  <2>2. Untouched(q)' /\ Recorded(q)' = {}
    BY <1>1, <2>1 DEF Untouched, Recorded
  <2>3. /\ result'[q] \in {"", "side_door", "precheck_error", "duplicate_ignored", "error"}
        /\ result'[q] \in {"side_door", "precheck_error"} => decision'[ver[q]][user[q]] # "approve"
        /\ result'[q] = "duplicate_ignored" => execution'[ver[q]] # "none"
    BY <1>1, <1>5 DEF Guard, Precheck, LoadJob, Answer, Goto, Authorized, TypeOK, dbVars
  <2> QED
    BY <1>2, <2>1, <2>2, <2>3
       DEF StatusIsRecorded, RefusalIsRight, ReconciliationIsRecorded, ExecutionStates
<1>6. CASE CommitReject(q)
  <2>1. /\ audit' = audit /\ mutated' = mutated /\ q \notin mutated /\ ver' = ver
        /\ result'[q] = "rejected"
    BY <1>1, <1>6 DEF CommitReject, Answer, TypeOK
  <2>2. Untouched(q)'
    BY <1>1, <2>1 DEF Untouched, Recorded
  <2>3. decision'[ver[q]][user[q]] # "none"
    <3>1. CASE decision[ver[q]][user[q]] = "none"
      <4>1. decision' = [decision EXCEPT ![ver[q]] =
                            [decision[ver[q]] EXCEPT ![user[q]] = "reject"]]
        BY <1>1, <1>6, <3>1 DEF CommitReject, Decide, TypeOK
      <4> QED
        BY <1>1, <4>1 DEF TypeOK
    <3>2. CASE decision[ver[q]][user[q]] # "none"
      BY <1>1, <3>2, DecisionStable
    <3> QED
      BY <3>1, <3>2
  <2> QED
    BY <2>1, <2>2, <2>3
       DEF StatusIsRecorded, RefusalIsRight, ReconciliationIsRecorded, ExecutionStates
<1>7. CASE CommitEdit(q)
  <2>1. /\ audit' = audit /\ mutated' = mutated /\ q \notin mutated /\ ver' = ver
        /\ \/ result'[q] = "error"
           \/ result'[q] = "edited" /\ latest = ver[q] /\ latest' = latest + 1
    BY <1>1, <1>7 DEF CommitEdit, Answer, TypeOK
  <2>2. Untouched(q)' /\ Recorded(q)' = {}
    BY <1>1, <2>1 DEF Untouched, Recorded
  <2>3. result'[q] = "edited" => ver'[q] < latest'
    BY <2>1, LatestGrows
  <2> QED
    BY <2>1, <2>2, <2>3
       DEF StatusIsRecorded, RefusalIsRight, ReconciliationIsRecorded, ExecutionStates
<1>8. CASE FlushFails(q) \/ Apply(q) \/ ReadDevice(q)
  <2>1. audit' = audit /\ result'[q] \in {"", "error"}
    BY <1>1, <1>8 DEF FlushFails, Apply, ReadDevice, Answer, dbVars, TypeOK
  <2>2. Recorded(q)' = {}
    BY <1>1, <2>1 DEF Recorded
  <2> QED
    BY <1>2, <2>1, <2>2
       DEF StatusIsRecorded, RefusalIsRight, ReconciliationIsRecorded, ExecutionStates
<1>9. CASE CommitExecution(q)
  <2> DEFINE status == ReadStatus(after[q])
  <2>1. status \in {"succeeded", "failed", "outcome_unknown"}
    BY ReadStatusType DEF TypeOK
  <2>2. ver' = ver /\ mutated' = mutated /\ q \in mutated
    BY <1>9 DEF CommitExecution, TrailsWellFormed
  <2>3. CASE execution[ver[q]] = "none"
    <3>1. /\ result'[q] = status /\ execution'[ver[q]] = status
          /\ audit' = audit \cup {<<q, "intent">>, <<q, "apply">>}
      BY <1>1, <1>9, <2>3 DEF CommitExecution, Answer, TypeOK
    <3>2. Recorded(q)' = {"intent", "apply"}
      BY <1>1, <3>1 DEF Recorded, Actions
    <3> QED
      BY <2>1, <2>2, <3>1, <3>2
         DEF StatusIsRecorded, RefusalIsRight, ReconciliationIsRecorded, ExecutionStates
  <2>4. CASE execution[ver[q]] # "none"
    <3>1. result'[q] = "error" /\ audit' = audit
      BY <1>9, <2>4 DEF CommitExecution, Answer, TypeOK
    <3>2. Recorded(q)' = {}
      BY <1>1, <3>1 DEF Recorded
    <3> QED
      BY <3>1, <3>2
         DEF StatusIsRecorded, RefusalIsRight, ReconciliationIsRecorded, ExecutionStates
  <2> QED
    BY <2>3, <2>4
<1>10. CASE CommitReconcile(q)
  <2> DEFINE resolved == ReadStatus(after[q])
  <2>1. /\ result'[q] = "resolved" /\ ver' = ver /\ after' = after /\ mutated' = mutated
        /\ q \notin mutated /\ audit' = audit \cup {<<q, "reconcile">>}
    BY <1>1, <1>10 DEF CommitReconcile, Answer, TypeOK
  <2>2. Recorded(q)' = {"reconcile"}
    BY <1>1, <2>1 DEF Recorded, Actions
  <2>3. execution'[ver[q]] # "none"
    <3>1. job[ver[q]] = "reconciling"
      BY <1>10 DEF CommitReconcile, ReconcilerAlone
    <3>2. execution[ver[q]] # "none"
      BY <1>1, <3>1 DEF JobMatchesExecution
    <3> QED
      BY <1>1, <3>2, ExecutionStable
  <2>4. /\ after[q] = "up" => resolved = "succeeded"
        /\ after[q] = "down" => resolved = "failed"
    BY DEF ReadStatus
  <2>5. /\ resolved = "succeeded" => job'[ver[q]] = "completed"
        /\ resolved = "failed" => job'[ver[q]] = "retryable_failed"
    BY <1>1, <1>10 DEF CommitReconcile, TypeOK
  <2> QED
    BY <2>1, <2>2, <2>3, <2>4, <2>5
       DEF StatusIsRecorded, RefusalIsRight, ReconciliationIsRecorded, ExecutionStates
<1>11. CASE Crash
  BY <1>1, <1>2, <1>11 DEF Crash
<1>12. CASE Still(q)
  BY <1>1, <1>2, <1>12 DEF Still
<1> QED
  BY <1>3, <1>4, <1>5, <1>6, <1>7, <1>8, <1>9, <1>10, <1>11, <1>12, OwnStep DEF Progress

\* An edit is answered by the step that creates the next version, for one request.
LEMMA EditedOnce ==
    ASSUME IInv, [Next]_vars, NEW q \in Requests, NEW r \in Requests,
           result'[q] = "edited", result'[r] = "edited", ver'[q] = ver'[r]
    PROVE  q = r
<1> USE DEF IInv
<1>1. ASSUME NEW p \in Requests, result'[p] = "edited"
      PROVE  ver'[p] = ver[p] /\ (result[p] = "edited" \/ CommitEdit(p))
  <2>1. CASE Receive(p)
    <3>1. result[p] = ""
      BY <2>1 DEF Receive, SelectPlan, StartReconcile, SlotsWellFormed
    <3> QED
      BY <1>1, <2>1, <3>1 DEF Receive, SelectPlan, StartReconcile, Answer, TypeOK
  <2>2. CASE Progress(p) \/ FlushFails(p)
    <3>1. ver' = ver
      BY <2>2 DEF Progress, CommitApproval, Guard, CommitReject, CommitEdit, LoadJob, Precheck,
         FlushIntent, FlushFails, Apply, CommitExecution, ReadDevice, CommitReconcile, reqVars
    <3>2. ReadStatus(after[p]) \in {"succeeded", "failed", "outcome_unknown"}
      BY ReadStatusType DEF TypeOK
    <3> QED
      BY <1>1, <2>2, <3>1, <3>2 DEF Progress, CommitApproval, Guard, CommitReject, LoadJob, Precheck,
         FlushIntent, FlushFails, Apply, CommitExecution, ReadDevice, CommitReconcile, reqVars,
         Answer, TypeOK
  <2>3. CASE Crash \/ Still(p)
    BY <1>1, <2>3 DEF Crash, Still
  <2> QED
    BY <2>1, <2>2, <2>3, OwnStep
<1>2. ASSUME NEW p \in Requests, result[p] = "edited"
      PROVE  ver[p] < latest
  BY <1>2 DEF AnswersAreTrue, DecisionIsRecorded
<1>3. ASSUME NEW p \in Requests, CommitEdit(p), result'[p] = "edited", pc[p] = "edit"
      PROVE  latest = ver[p] /\ \A o \in Requests \ {p} : ~CommitEdit(o)
  <2>1. pc' = [pc EXCEPT ![p] = "done"]
    BY <1>3 DEF CommitEdit, Answer, Goto
  <2>2. \A o \in Requests \ {p} : CommitEdit(o) => pc'[p] = "edit"
    BY <1>3 DEF CommitEdit, Answer, Goto, TypeOK
  <2>3. latest = ver[p]
    BY <1>3 DEF CommitEdit, Answer, TypeOK
  <2> QED
    BY <2>1, <2>2, <2>3 DEF TypeOK
<1>4. latest \in Nat /\ ver[q] \in Nat /\ ver[r] \in Nat /\ ver[q] = ver[r]
  BY <1>1 DEF TypeOK, Versions
<1>5. CASE result[q] = "edited" /\ result[r] = "edited"
  BY <1>4, <1>5 DEF AnswersAreTrue, DecisionIsRecorded
<1>6. CASE CommitEdit(q) /\ CommitEdit(r)
  BY <1>3, <1>6 DEF CommitEdit
<1>7. CASE (CommitEdit(q) /\ result[r] = "edited") \/ (CommitEdit(r) /\ result[q] = "edited")
  <2>1. latest = ver[q]
    BY <1>3, <1>4, <1>7 DEF CommitEdit
  <2>2. ver[q] < latest
    BY <1>2, <1>4, <1>7
  <2> QED
    BY <1>4, <2>1, <2>2
<1> QED
  BY <1>1, <1>5, <1>6, <1>7

LEMMA NextAnswersAreTrue ==
    ASSUME IInv, [Next]_vars
    PROVE  AnswersAreTrue'
<1> USE DEF IInv
<1>1. user' = user
  BY DEF Next, Receive, Progress, SelectPlan, StartReconcile, CommitApproval, Guard,
     CommitReject, CommitEdit, LoadJob, Precheck, FlushIntent, FlushFails, Apply,
     CommitExecution, ReadDevice, CommitReconcile, Crash, reqVars, vars
<1>2. ASSUME NEW q \in Requests
      PROVE  /\ StatusIsRecorded(q)' /\ RefusalIsRight(q)' /\ ReconciliationIsRecorded(q)'
             /\ result'[q] = "rejected" => Untouched(q)' /\ decision'[ver'[q]][user'[q]] # "none"
             /\ result'[q] = "edited" => Untouched(q)' /\ ver'[q] < latest'
  <2>1. CASE pc[q] # "done"
    BY <1>1, <2>1, NewAnswerIsTrue
  <2>2. CASE pc[q] = "done"
    <3>1. Still(q) \/ Crash
      BY <2>2, OwnStep DEF Receive, SelectPlan, StartReconcile, Progress, CommitApproval, Guard,
         CommitReject, CommitEdit, LoadJob, Precheck, FlushIntent, FlushFails, Apply,
         CommitExecution, ReadDevice, CommitReconcile
    <3>2. /\ pc'[q] = pc[q] /\ after'[q] = after[q] /\ result'[q] = result[q]
          /\ q \in mutated' <=> q \in mutated
          /\ \A a \in Actions : <<q, a>> \in audit' <=> <<q, a>> \in audit
      BY <2>2, <3>1 DEF Still, Crash, dbVars, TypeOK
    <3>3. Recorded(q)' = Recorded(q)
      BY <3>2 DEF Recorded
    <3> QED
      BY <1>1, <2>2, <3>2, <3>3, OldAnswerStaysTrue
  <2> QED
    BY <2>1, <2>2
<1>3. ASSUME NEW q \in Requests
      PROVE  DecisionIsRecorded(q)'
  BY <1>2, EditedOnce DEF DecisionIsRecorded
<1> QED
  BY <1>2, <1>3 DEF AnswersAreTrue

-----------------------------------------------------------------------------
(***************************************************************************)
(* The invariant, and the theorems that follow from it.                    *)
(***************************************************************************)

LEMMA InitIInv == Init => IInv
<1> SUFFICES ASSUME Init PROVE IInv
  OBVIOUS
<1>1. TypeOK
  BY InitTypeOK
<1>2. \A r \in Requests : pc[r] = "new" /\ ver[r] = 1 /\ after[r] = "unknown" /\ result[r] = ""
  BY DEF Init
<1>3. \A v \in Versions : job[v] = "none" /\ execution[v] = "none"
  BY DEF Init
<1>4. mutated = {} /\ audit = {}
  BY DEF Init
<1>5. EditsBounded /\ InFlightApproved /\ ReconcilerAlone
  BY <1>2 DEF EditsBounded, InFlightApproved, ReconcilerAlone, Executing, HoldsRow
<1>6. SlotsWellFormed
  <2>1. latest = 1
    BY DEF Init
  <2>2. \A r \in Requests : ver[r] <= latest
    <3>1. \A r \in Requests : ver[r] = 1
      BY <1>2
    <3>2. 1 <= 1
      OBVIOUS
    <3> QED
      BY <2>1, <3>1, <3>2
  <2> QED
    BY <1>2, <1>4, <2>2 DEF SlotsWellFormed
<1>7. JobsHavePlans /\ JobMatchesExecution
  BY <1>3 DEF JobsHavePlans, JobMatchesExecution
<1>8. MutatedApproved /\ TrailsWellFormed
  <2>1. \A r \in Requests : pc[r] # "applied"
    BY <1>2
  <2> QED
    BY <1>4, <2>1 DEF MutatedApproved, TrailsWellFormed
<1>9. RecordersUnique
  BY <1>3, <1>4 DEF RecordersUnique
<1>10. AttemptsAreSerial
  BY <1>2 DEF AttemptsAreSerial, HoldsRow
<1>11. AnswersGrounded
  BY <1>2, <1>4 DEF AnswersGrounded, ExecutionStates
<1>12. ReadsFresh
  BY <1>2 DEF ReadsFresh
<1>13. RowsComeLast
  BY <1>4 DEF RowsComeLast, Recorded
<1>14. AnswersAreTrue
  BY <1>2 DEF AnswersAreTrue, StatusIsRecorded, DecisionIsRecorded, RefusalIsRight,
     ReconciliationIsRecorded, ExecutionStates
<1> QED
  BY <1>1, <1>12, <1>13, <1>14, <1>5, <1>6, <1>7, <1>8, <1>9, <1>10, <1>11 DEF IInv

LEMMA NextIInv == IInv /\ [Next]_vars => IInv'
<1> SUFFICES ASSUME IInv, [Next]_vars PROVE IInv'
  OBVIOUS
<1>1. TypeOK' /\ EditsBounded'
  BY NextTypeOK, NextEditsBounded DEF IInv
<1> QED
  BY <1>1, NextSlotsWellFormed, NextJobsHavePlans, NextInFlightApproved, NextMutatedApproved,
     NextTrailsWellFormed, NextRecordersUnique, NextJobMatchesExecution, NextReconcilerAlone,
     NextAttemptsAreSerial, NextAnswersGrounded, NextReadsFresh, NextRowsComeLast,
     NextAnswersAreTrue DEF IInv

THEOREM Invariance == Spec => []IInv
  BY InitIInv, NextIInv, PTL DEF Spec

\* No side door: the device is only touched under a plan version that carries an approve
\* decision by then, and once an edit has committed no request takes the superseded version
\* up, whatever the requests, edits and crashes do.
THEOREM NoSideDoor == Spec => ApprovalPrecedesMutation
<1>1. ASSUME IInv, [Next]_vars, NEW r \in mutated' \ mutated
      PROVE  Approved(ver[r])
  BY <1>1, MutatedByApply DEF IInv, InFlightApproved, Executing, HoldsRow
<1>2. ASSUME IInv, [Next]_vars, NEW v \in Versions, v < latest, NEW r \in InFlight(v)'
      PROVE  r \in InFlight(v)
  <2> USE <1>2 DEF IInv
  <2>1. r \in Requests /\ ver'[r] = v /\ pc'[r] \in {"approve", "guard", "load"} \cup Executing
    BY DEF InFlight
  <2>2. pc[r] # "new"
    <3>1. ASSUME NEW h \in {"approve", "reject", "edit"}, SelectPlan(r, h)
          PROVE  FALSE
      <4>1. ver'[r] = latest
        BY <2>1, <3>1 DEF SelectPlan, TypeOK
      <4> QED
        BY <2>1, <4>1 DEF TypeOK, Versions
    <3>2. ASSUME NEW w \in Versions, StartReconcile(r, w)
          PROVE  FALSE
      BY <2>1, <3>2 DEF StartReconcile, Goto, Answer, TypeOK, Executing, HoldsRow
    <3>3. CASE Progress(r) \/ FlushFails(r)
      BY <3>3 DEF Progress, CommitApproval, Guard, CommitReject, CommitEdit, LoadJob, Precheck,
         FlushIntent, FlushFails, Apply, CommitExecution, ReadDevice, CommitReconcile
    <3>4. CASE Crash \/ Still(r)
      BY <2>1, <3>4 DEF Crash, Still, Executing, HoldsRow
    <3> QED
      BY <2>1, <3>1, <3>2, <3>3, <3>4, OwnStep DEF Receive
  <2>3. ver[r] = v
    BY <2>1, <2>2, SlotStable
  <2>4. pc[r] \in {"approve", "guard", "load"} \cup Executing
    <3> USE DEF Executing, HoldsRow
    <3>1. CASE Receive(r)
      BY <2>2, <3>1 DEF Receive, SelectPlan, StartReconcile
    <3>2. CASE Progress(r) \/ FlushFails(r)
      BY <2>1, <3>2 DEF Progress, CommitApproval, Guard, CommitReject, CommitEdit, LoadJob,
         Precheck, FlushIntent, FlushFails, Apply, CommitExecution, ReadDevice, CommitReconcile,
         Goto, Answer, TypeOK
    <3>3. CASE Crash
      BY <2>1, <3>3 DEF Crash
    <3>4. CASE Still(r)
      BY <2>1, <3>4 DEF Still
    <3> QED
      BY <2>1, <3>1, <3>2, <3>3, <3>4, OwnStep
  <2> QED
    BY <2>1, <2>3, <2>4 DEF InFlight
<1>3. IInv /\ [Next]_vars =>
        [/\ \A r \in mutated' \ mutated : Approved(ver[r])
         /\ \A v \in Versions : v < latest => InFlight(v)' \subseteq InFlight(v)]_vars
  BY <1>1, <1>2
<1> QED
  BY <1>3, Invariance, PTL DEF Spec, ApprovalPrecedesMutation

\* The job row and the Execution row of a plan never contradict each other.
THEOREM RowsAgree == Spec => []JobMatchesExecution
<1>1. IInv => JobMatchesExecution
  BY DEF IInv
<1> QED
  BY <1>1, Invariance, PTL

\* Two attempts at one plan never operate the device at the same time.
THEOREM SerialAttempts == Spec => []AttemptsAreSerial
<1>1. IInv => AttemptsAreSerial
  BY DEF IInv
<1> QED
  BY <1>1, Invariance, PTL

\* An Execution has exactly one recorded attempt behind it, which mutated the device.
THEOREM OneTrail == Spec => []ExecutionHasOneTrail
<1>1. IInv => ExecutionHasOneTrail
  <2> SUFFICES ASSUME IInv, NEW v \in Versions
               PROVE  LET recorders == {r \in Requests : ver[r] = v /\ <<r, "apply">> \in audit}
                      IN /\ execution[v] = "none" => recorders = {}
                         /\ execution[v] # "none" =>
                              \E r \in mutated : recorders = {r} /\ <<r, "intent">> \in audit
    BY DEF ExecutionHasOneTrail
  <2> DEFINE recorders == {r \in Requests : ver[r] = v /\ <<r, "apply">> \in audit}
  <2>1. execution[v] = "none" => recorders = {}
    BY DEF IInv, RecordersUnique
  <2>2. ASSUME execution[v] # "none"
        PROVE  \E r \in mutated : recorders = {r} /\ <<r, "intent">> \in audit
    <3>1. PICK r \in Requests : ver[r] = v /\ <<r, "apply">> \in audit
      BY <2>2 DEF IInv, RecordersUnique
    <3>2. r \in mutated /\ <<r, "intent">> \in audit
      BY <3>1 DEF IInv, TrailsWellFormed
    <3>3. recorders = {r}
      BY <3>1 DEF IInv, RecordersUnique
    <3> QED
      BY <3>2, <3>3
  <2> QED
    BY <2>1, <2>2
<1> QED
  BY <1>1, Invariance, PTL

\* Every answer an operator got is true of the database and the device, and stays true.
THEOREM TrueAnswers == Spec => []AnswersAreTrue
<1>1. IInv => AnswersAreTrue
  BY DEF IInv
<1> QED
  BY <1>1, Invariance, PTL

\* A settled plan stays settled, and no request touches the device for it again.
THEOREM SettledForGood == Spec => SettledIsFinal
<1>1. ASSUME IInv, [Next]_vars, NEW v \in Versions, Settled(v)
      PROVE  Settled(v)' /\ \A r \in mutated' \ mutated : ver[r] # v
  <2> USE DEF IInv
  <2>1. execution'[v] # "none"
    BY <1>1, ExecutionStable DEF Settled
  <2>2. ASSUME NEW r \in Requests, ver'[r] = v
        PROVE  pc'[r] \notin Executing
    <3> USE <1>1, <2>2 DEF Settled, Executing, HoldsRow
    <3>1. CASE Receive(r)
      BY <3>1 DEF Receive, SelectPlan, StartReconcile, Goto, Answer, TypeOK
    <3>2. CASE CommitApproval(r) \/ Guard(r) \/ CommitReject(r) \/ CommitEdit(r) \/ LoadJob(r)
      BY <3>2 DEF CommitApproval, Guard, CommitReject, CommitEdit, LoadJob, Goto, Answer,
         TypeOK, reqVars
    <3>3. CASE Precheck(r) \/ FlushIntent(r) \/ FlushFails(r) \/ Apply(r) \/ CommitExecution(r)
      BY <3>3 DEF Precheck, FlushIntent, FlushFails, Apply, CommitExecution, reqVars
    <3>4. CASE ReadDevice(r) \/ CommitReconcile(r)
      BY <3>4 DEF ReadDevice, CommitReconcile, Goto, Answer, TypeOK
    <3>5. CASE Crash
      BY <3>5 DEF Crash
    <3>6. CASE Still(r)
      BY <3>6 DEF Still
    <3> QED
      BY <3>1, <3>2, <3>3, <3>4, <3>5, <3>6, OwnStep DEF Progress
  <2>3. ASSUME NEW r \in mutated' \ mutated
        PROVE  ver[r] # v
    <3>1. r \in Requests
      BY <1>1, NextTypeOK DEF TypeOK
    <3>2. pc[r] = "intent"
      BY <1>1, <2>3, MutatedByApply
    <3> QED
      BY <1>1, <3>1, <3>2 DEF Settled, Executing, HoldsRow
  <2> QED
    BY <2>1, <2>2, <2>3 DEF Settled
<1>2. IInv /\ [Next]_vars =>
        [\A v \in Versions : Settled(v) =>
            Settled(v)' /\ \A r \in mutated' \ mutated : ver[r] # v]_vars
  BY <1>1
<1> QED
  BY <1>2, Invariance, PTL DEF Spec, SettledIsFinal

(***************************************************************************)
(* The refinement: under the mapping of Contract, the initial states are   *)
(* initial states of the contract and every step is one contract step or   *)
(* leaves the contract's state alone.                                      *)
(***************************************************************************)


\* The refinement mapping, named.
approvedPlans == {v \in Versions : Approved(v)}
touchedPlans  == {ver[r] : r \in mutated}
sightedPlans  == {ver[r] : r \in {q \in Requests : after[q] = "up"}}
mapped        == <<approvedPlans, touchedPlans, sightedPlans, execution>>

\* A contract step is one of these, for some plan.
LEMMA ContractStep ==
    ASSUME NEW v \in Versions,
           \/ Contract!Approve(v) \/ Contract!Operate(v) \/ Contract!Sight(v)
           \/ \E o \in Contract!Outcomes : Contract!Report(v, o)
    PROVE  [Contract!ContractNext]_(Contract!contractVars)
BY DEF Contract!ContractNext

LEMMA Stutter ==
    ASSUME UNCHANGED mapped
    PROVE  [Contract!ContractNext]_(Contract!contractVars)
BY DEF mapped, approvedPlans, touchedPlans, sightedPlans, Contract!contractVars

\* The plans a slot adds to, and keeps in, the mapped sets: a slot that mutated or read
\* "up" never changes the version it loaded.
LEMMA UsedSlots ==
    ASSUME IInv, [Next]_vars, NEW r \in Requests, r \in mutated \/ after[r] = "up"
    PROVE  ver'[r] = ver[r]
<1>1. pc[r] # "new"
  BY DEF IInv, SlotsWellFormed
<1> QED
  BY <1>1, SlotStable DEF IInv

LEMMA TouchedUnchanged ==
    ASSUME IInv, [Next]_vars, mutated' = mutated
    PROVE  touchedPlans' = touchedPlans
<1>1. \A r \in mutated : ver'[r] = ver[r]
  BY UsedSlots DEF IInv, TypeOK
<1> QED
  BY <1>1 DEF touchedPlans

LEMMA SightedUnchanged ==
    ASSUME IInv, [Next]_vars, after' = after
    PROVE  sightedPlans' = sightedPlans
<1>1. \A r \in Requests : after[r] = "up" => ver'[r] = ver[r]
  BY UsedSlots
<1> QED
  BY <1>1 DEF sightedPlans

\* Neither rejections nor edits change what is approved; they leave approve rows alone.
LEMMA DecideApproves ==
    ASSUME TypeOK, NEW r \in Requests, NEW d \in {"approve", "reject"}, Decide(r, d),
           NEW v \in Versions, Approved(v)'
    PROVE  Approved(v) \/ (d = "approve" /\ v = ver[r])
<1>1. ver[r] \in Versions /\ user[r] \in Users
  BY DEF TypeOK
<1>2. CASE decision[ver[r]][user[r]] = "none"
  <2>1. decision' = [decision EXCEPT ![ver[r]] = [decision[ver[r]] EXCEPT ![user[r]] = d]]
    BY <1>1, <1>2 DEF Decide, TypeOK
  <2>2. PICK u \in Users : decision'[v][u] = "approve"
    BY DEF Approved
  <2>3. CASE v # ver[r]
    BY <1>1, <2>1, <2>2, <2>3 DEF TypeOK, Approved
  <2>4. CASE v = ver[r] /\ u # user[r]
    BY <1>1, <2>1, <2>2, <2>4 DEF TypeOK, Approved
  <2>5. CASE v = ver[r] /\ u = user[r]
    BY <1>1, <2>1, <2>2, <2>5 DEF TypeOK
  <2> QED
    BY <2>3, <2>4, <2>5
<1>3. CASE decision[ver[r]][user[r]] # "none"
  BY <1>3 DEF Decide, Approved
<1> QED
  BY <1>2, <1>3

\* The initial states of the flow are initial states of the contract.
LEMMA InitContract == Init => Contract!ContractInit
<1> SUFFICES ASSUME Init PROVE Contract!ContractInit
  OBVIOUS
<1>1. approvedPlans = {}
  BY DEF Init, approvedPlans, Approved
<1>2. touchedPlans = {} /\ sightedPlans = {}
  BY DEF Init, touchedPlans, sightedPlans
<1>3. execution = [p \in Versions |-> "none"]
  BY DEF Init
<1> QED
  BY <1>1, <1>2, <1>3 DEF Contract!ContractInit, approvedPlans, touchedPlans, sightedPlans

\* Decisions: Approve for an approval that is recorded, a stutter for everything else.
LEMMA ApprovalStep ==
    ASSUME IInv, [Next]_vars, NEW r \in Requests, CommitApproval(r) \/ CommitReject(r)
    PROVE  [Contract!ContractNext]_(Contract!contractVars)
<1> USE DEF IInv
<1>1. mutated' = mutated /\ after' = after /\ execution' = execution
  BY DEF CommitApproval, CommitReject, reqVars
<1>2. touchedPlans' = touchedPlans /\ sightedPlans' = sightedPlans
  BY <1>1, TouchedUnchanged, SightedUnchanged
<1>3. ver[r] \in Versions
  BY DEF TypeOK
<1>4. \A v \in Versions : Approved(v) => Approved(v)'
  BY ApprovedStable
<1>5. \A v \in Versions : Approved(v)' => Approved(v) \/ v = ver[r]
  BY DecideApproves DEF CommitApproval, CommitReject
<1>6. CASE approvedPlans' = approvedPlans
  BY <1>1, <1>2, <1>6, Stutter DEF mapped
<1>7. CASE approvedPlans' # approvedPlans
  <2>1. approvedPlans' = approvedPlans \cup {ver[r]}
    BY <1>3, <1>4, <1>5, <1>7 DEF approvedPlans
  <2>2. Contract!Approve(ver[r])
    BY <1>1, <1>2, <2>1 DEF Contract!Approve, approvedPlans, touchedPlans, sightedPlans
  <2> QED
    BY <1>3, <2>2, ContractStep
<1> QED
  BY <1>6, <1>7

\* Every other action leaves the decisions, and with them the approved plans, alone.
LEMMA ApprovedUnchanged ==
    ASSUME decision' = decision
    PROVE  approvedPlans' = approvedPlans
BY DEF approvedPlans, Approved

\* The device is mutated, and read back or not.
LEMMA ApplyStep ==
    ASSUME IInv, [Next]_vars, NEW r \in Requests, Apply(r)
    PROVE  [Contract!ContractNext]_(Contract!contractVars)
<1> USE DEF IInv
<1>1. ver[r] \in Versions /\ ver' = ver /\ decision' = decision /\ execution' = execution
  BY DEF Apply, TypeOK, dbVars
<1>2. ver[r] \in approvedPlans
  BY <1>1 DEF Apply, InFlightApproved, Executing, HoldsRow, approvedPlans
<1>3. touchedPlans' = touchedPlans \cup {ver[r]}
  BY <1>1 DEF Apply, touchedPlans
<1>4. after[r] # "up"
  BY DEF Apply, ReadsFresh
<1>5. sightedPlans' \in {sightedPlans, sightedPlans \cup {ver[r]}}
  <2>1. CASE after' = after
    BY <1>1, <2>1 DEF sightedPlans
  <2>2. ASSUME NEW read \in Reads, after' = [after EXCEPT ![r] = read]
        PROVE  sightedPlans' \in {sightedPlans, sightedPlans \cup {ver[r]}}
    <3>1. /\ after'[r] = read
          /\ \A q \in Requests \ {r} : after'[q] = after[q]
      BY <2>2 DEF TypeOK
    <3>2. CASE read = "up"
      BY <1>1, <1>4, <3>1, <3>2 DEF sightedPlans
    <3>3. CASE read # "up"
      BY <1>1, <1>4, <3>1, <3>3 DEF sightedPlans
    <3> QED
      BY <3>2, <3>3
  <2> QED
    BY <2>1, <2>2 DEF Apply
<1>6. PICK v \in Versions : v = ver[r]
  BY <1>1
<1>7. Contract!Operate(v)
  BY <1>6, <1>1, <1>2, <1>3, <1>5, ApprovedUnchanged
     DEF Contract!Operate, approvedPlans, touchedPlans, sightedPlans
<1> QED
  BY <1>7, ContractStep

\* A job that is being reconciled has an Execution, and the attempt behind it mutated.
LEMMA OpenJobTouched ==
    ASSUME IInv, NEW v \in Versions, execution[v] # "none"
    PROVE  v \in touchedPlans
<1>1. PICK q \in Requests : ver[q] = v /\ <<q, "apply">> \in audit
  BY DEF IInv, RecordersUnique
<1>2. q \in mutated
  BY <1>1 DEF IInv, TrailsWellFormed
<1> QED
  BY <1>1, <1>2 DEF touchedPlans

\* The reconciler reads the device.
LEMMA ReadStep ==
    ASSUME IInv, [Next]_vars, NEW r \in Requests, ReadDevice(r)
    PROVE  [Contract!ContractNext]_(Contract!contractVars)
<1> USE DEF IInv
<1>1. /\ ver[r] \in Versions /\ ver' = ver /\ decision' = decision /\ execution' = execution
      /\ mutated' = mutated
  BY DEF ReadDevice, TypeOK, dbVars
<1>2. approvedPlans' = approvedPlans /\ touchedPlans' = touchedPlans
  BY <1>1, ApprovedUnchanged, TouchedUnchanged
<1>3. ver[r] \in touchedPlans
  <2>1. job[ver[r]] = "reconciling"
    BY DEF ReadDevice, ReconcilerAlone
  <2>2. execution[ver[r]] # "none"
    BY <1>1, <2>1 DEF JobMatchesExecution
  <2> QED
    BY <1>1, <2>2, OpenJobTouched
<1>4. after[r] # "up"
  BY DEF ReadDevice, ReadsFresh
<1>5. CASE after' = after
  BY <1>1, <1>2, <1>5, SightedUnchanged, Stutter DEF mapped
<1>6. ASSUME NEW read \in Reads, after' = [after EXCEPT ![r] = read]
      PROVE  [Contract!ContractNext]_(Contract!contractVars)
  <2>1. /\ after'[r] = read
        /\ \A q \in Requests \ {r} : after'[q] = after[q]
    BY <1>6 DEF TypeOK
  <2>2. CASE read = "up"
    <3>1. sightedPlans' = sightedPlans \cup {ver[r]}
      BY <1>1, <1>4, <2>1, <2>2 DEF sightedPlans
    <3>2. PICK v \in Versions : v = ver[r]
      BY <1>1
    <3>3. Contract!Sight(v)
      BY <3>2, <1>1, <1>2, <1>3, <3>1 DEF Contract!Sight, approvedPlans, touchedPlans, sightedPlans
    <3> QED
      BY <3>3, ContractStep
  <2>3. CASE read # "up"
    <3>1. sightedPlans' = sightedPlans
      BY <1>1, <1>4, <2>1, <2>3 DEF sightedPlans
    <3> QED
      BY <1>1, <1>2, <3>1, Stutter DEF mapped
  <2> QED
    BY <2>2, <2>3
<1> QED
  BY <1>5, <1>6 DEF ReadDevice

\* Either way of writing an Execution: Report, or a stutter if it stays as it is.
LEMMA ReportStep ==
    ASSUME IInv, [Next]_vars, NEW r \in Requests, CommitExecution(r) \/ CommitReconcile(r)
    PROVE  [Contract!ContractNext]_(Contract!contractVars)
<1> USE DEF IInv
<1> DEFINE v == ver[r]
           o == ReadStatus(after[r])
<1>1. v \in Versions /\ decision' = decision /\ mutated' = mutated /\ after' = after
  BY DEF CommitExecution, CommitReconcile, TypeOK
<1>2. /\ approvedPlans' = approvedPlans
      /\ touchedPlans' = touchedPlans
      /\ sightedPlans' = sightedPlans
  BY <1>1, ApprovedUnchanged, TouchedUnchanged, SightedUnchanged
<1>3. CASE execution' = execution
  BY <1>2, <1>3, Stutter DEF mapped
<1>4. CASE execution' # execution
  <2>1. o \in Contract!Outcomes
    BY ReadStatusType DEF TypeOK, Contract!Outcomes
  <2>2. o = "succeeded" => v \in sightedPlans
    <3>1. after[r] \in Reads
      BY DEF TypeOK
    <3>2. o = "succeeded" => after[r] = "up"
      BY <3>1 DEF ReadStatus, Reads
    <3> QED
      BY <3>2 DEF sightedPlans
  <2>3. execution' = [execution EXCEPT ![v] = o]
    BY <1>4 DEF CommitExecution, CommitReconcile, TypeOK
  <2>4. /\ v \in touchedPlans
        /\ \/ execution[v] = "none"
           \/ execution[v] = "outcome_unknown" /\ o # "outcome_unknown"
    <3>1. CASE CommitExecution(r)
      BY <1>4, <3>1 DEF CommitExecution, TrailsWellFormed, touchedPlans
    <3>2. CASE CommitReconcile(r)
      <4>1. job[v] = "reconciling"
        BY <3>2 DEF CommitReconcile, ReconcilerAlone
      <4>2. execution[v] # "none"
        BY <1>1, <4>1 DEF JobMatchesExecution
      <4>3. v \in touchedPlans
        BY <1>1, <4>2, OpenJobTouched
      <4>4. o # "outcome_unknown"
        BY <1>4, <3>2 DEF CommitReconcile
      <4>5. execution[v] = "outcome_unknown"
        BY <1>4, <3>2, <4>4 DEF CommitReconcile, TypeOK
      <4> QED
        BY <4>3, <4>4, <4>5
    <3> QED
      BY <3>1, <3>2
  <2>5. Contract!Report(v, o)
    BY <1>2, <2>2, <2>3, <2>4
       DEF Contract!Report, approvedPlans, touchedPlans, sightedPlans
  <2> QED
    BY <1>1, <2>1, <2>5, ContractStep
<1> QED
  BY <1>3, <1>4

\* All other steps are invisible to the contract.
LEMMA InvisibleStep ==
    ASSUME IInv, [Next]_vars,
           decision' = decision, execution' = execution, mutated' = mutated, after' = after
    PROVE  [Contract!ContractNext]_(Contract!contractVars)
BY ApprovedUnchanged, TouchedUnchanged, SightedUnchanged, Stutter DEF mapped

LEMMA NextContract == IInv /\ [Next]_vars => [Contract!ContractNext]_(Contract!contractVars)
<1> SUFFICES ASSUME IInv, [Next]_vars
             PROVE  [Contract!ContractNext]_(Contract!contractVars)
  OBVIOUS
<1>1. ASSUME NEW r \in Requests,
             \/ Receive(r) \/ Guard(r) \/ CommitEdit(r) \/ LoadJob(r) \/ Precheck(r)
             \/ FlushIntent(r) \/ FlushFails(r)
      PROVE  [Contract!ContractNext]_(Contract!contractVars)
  <2>1. decision' = decision /\ execution' = execution /\ mutated' = mutated /\ after' = after
    BY <1>1 DEF Receive, SelectPlan, StartReconcile, Guard, CommitEdit, LoadJob, Precheck,
       FlushIntent, FlushFails, dbVars, reqVars
  <2> QED
    BY <2>1, InvisibleStep
<1>2. ASSUME Crash \/ UNCHANGED vars
      PROVE  [Contract!ContractNext]_(Contract!contractVars)
  <2>1. decision' = decision /\ execution' = execution /\ mutated' = mutated /\ after' = after
    BY <1>2 DEF Crash, dbVars, vars
  <2> QED
    BY <2>1, InvisibleStep
<1>3. ASSUME NEW r \in Requests,
             \/ CommitApproval(r) \/ CommitReject(r) \/ Apply(r) \/ ReadDevice(r)
             \/ CommitExecution(r) \/ CommitReconcile(r)
      PROVE  [Contract!ContractNext]_(Contract!contractVars)
  BY <1>3, ApprovalStep, ApplyStep, ReadStep, ReportStep
<1> QED
  BY <1>1, <1>2, <1>3 DEF Next, Progress

\* The gated flow implements its contract: nothing is touched without an approval, each
\* plan gets one outcome, success was seen on the device, only ambiguity is ever resolved.
THEOREM Refinement == Spec => ImplementsContract
<1>1. Init => Contract!ContractInit
  BY InitContract
<1>2. IInv /\ [Next]_vars => [Contract!ContractNext]_(Contract!contractVars)
  BY NextContract
<1> QED
  BY <1>1, <1>2, Invariance, PTL DEF Spec, ImplementsContract, Contract!ContractSpec
=============================================================================
