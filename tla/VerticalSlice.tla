--------------------------- MODULE VerticalSlice ----------------------------
(***************************************************************************)
(* The deterministic chain from fault to recovery, scripts/                *)
(* vertical_slice.py: a fault is injected on one link, the signal is       *)
(* correlated, a claim and a prebuilt plan made of it, the plan approved   *)
(* and executed, and each stage judged.  Rows and link are what the run    *)
(* before left, which may have been killed anywhere.                       *)
(*                                                                         *)
(* The link and sr_cli are external.  A command may fail unnoticed, and a  *)
(* link that is disabled may go down late; one that is enabled comes up at *)
(* once.  The slice has the database to itself, so that duplicates within  *)
(* one transaction (Correlator) and in one job (Remediation) are single.   *)
(***************************************************************************)
EXTENDS Integers

CONSTANTS MaxInject,   \* the most times a run asserts the fault
          MaxSlices    \* bound on the runs

ASSUME VerticalSliceAssumption == MaxInject \in Nat \ {0} /\ MaxSlices \in Nat

VARIABLES
    admin, oper,   \* of the link
    db,            \* the rows of the tables that the slice uses
    at,            \* the stage of the run, or "idle"
    injected,      \* the fault was asserted so often
    status,        \* what execute_job returned
    failed,        \* a stage of this run was judged to fail
    passed,        \* the verdict of the last run that ended: "none", "pass" or "fail"
    disturbed,     \* something went wrong in this run
    downBefore,    \* the link was disabled and down when the executor came to it
    slices         \* runs so far

sliceVars == <<admin, oper, db, at, injected, status, failed, passed, disturbed, downBefore, slices>>
link == <<admin, oper>>

NoRows == [incident |-> FALSE, signal |-> FALSE, plan |-> FALSE, approved |-> FALSE,
           job |-> "none", execution |-> "none", audit |-> {}]

SliceInit ==
    /\ admin = "enable" /\ oper = "up" /\ db = NoRows
    /\ at = "idle" /\ injected = 0 /\ status = "none"
    /\ failed = FALSE /\ passed = "none" /\ disturbed = FALSE /\ downBefore = FALSE
    /\ slices = 0

\* emit: the stage is judged, and the run goes on.
Emit(ok, following) == failed' = (failed \/ ~ok) /\ at' = following

\* A read that fails is "unknown".
SliceReads == {oper, "unknown"}
Misread(r) == disturbed' = (disturbed \/ r # oper)

StartSlice ==
    /\ at = "idle" /\ slices < MaxSlices
    /\ slices' = slices + 1
    /\ at' = "clean" /\ injected' = 0 /\ status' = "none"
    /\ failed' = FALSE /\ passed' = "none" /\ disturbed' = FALSE /\ downBefore' = FALSE
    /\ UNCHANGED <<link, db>>

\* Mutant of CleanSlate: what an earlier run left is kept.
CleanSlateNot ==
    /\ at = "clean" /\ at' = "inject"
    /\ UNCHANGED <<link, db, injected, status, failed, passed, disturbed, downBefore, slices>>

CleanSlate ==
    /\ at = "clean" /\ at' = "inject"
    /\ db' = NoRows
    /\ UNCHANGED <<link, injected, status, failed, passed, disturbed, downBefore, slices>>

\* inject_admin_shutdown: it works, at once or later, or it fails unnoticed.
InjectShutdown ==
    /\ at = "inject" /\ injected < MaxInject
    /\ injected' = injected + 1
    /\ at' = "observe"
    /\ \/ admin' = "disable" /\ oper' = "down" /\ UNCHANGED disturbed
       \/ admin' \in {admin, "disable"} /\ disturbed' = TRUE /\ UNCHANGED oper
    /\ UNCHANGED <<db, status, failed, passed, downBefore, slices>>

GoesDown == admin = "disable" /\ oper = "up" /\ oper' = "down"
            /\ UNCHANGED <<admin, db, at, injected, status, failed, passed, disturbed, downBefore, slices>>

\* The fault is asserted again until the link is seen down.
ObserveFault ==
    /\ at = "observe"
    /\ \E r \in SliceReads :
          /\ Misread(r)
          /\ IF r # "down" /\ injected < MaxInject
             THEN at' = "inject" /\ UNCHANGED failed
             ELSE Emit(r = "down", "correlate")
    /\ UNCHANGED <<link, db, injected, status, passed, downBefore, slices>>

\* A hundred deliveries of one signal.
CorrelateSlice ==
    /\ at = "correlate" /\ at' = "claim"
    /\ db' = [db EXCEPT !.incident = TRUE, !.signal = TRUE]
    /\ UNCHANGED <<link, injected, status, failed, passed, disturbed, downBefore, slices>>

\* The claim is evaluated on a read of its own; the plan is made whatever it says.
ClaimDown ==
    /\ at = "claim"
    /\ \E r \in SliceReads : Misread(r) /\ Emit(r = "down", "plan")
    /\ UNCHANGED <<link, db, injected, status, passed, downBefore, slices>>

\* The first version of the plan of an incident is inserted once.
StorePlan ==
    /\ at = "plan"
    /\ at' = IF db.plan THEN "idle" ELSE "approve"
    /\ db' = [db EXCEPT !.plan = TRUE]
    /\ passed' = IF db.plan THEN "fail" ELSE passed
    /\ UNCHANGED <<link, injected, status, failed, disturbed, downBefore, slices>>

\* approve_and_enqueue, twice: what is there is left alone.
ApproveTwice ==
    /\ at = "approve" /\ at' = "execute"
    /\ db' = [db EXCEPT !.approved = TRUE, !.job = IF @ = "none" THEN "pending" ELSE @]
    /\ UNCHANGED <<link, injected, status, failed, passed, disturbed, downBefore, slices>>

\* set_admin_state of the executor: it works, or it fails unnoticed.
Enable ==
    \/ admin' = "enable" /\ oper' = "up"
    \/ UNCHANGED link

Outcome(r) == CASE r = "up" -> "succeeded" [] r = "unknown" -> "outcome_unknown" [] OTHER -> "failed"

\* execute_job and its commit.
ExecuteSlice ==
    /\ at = "execute" /\ at' = "judge"
    /\ IF db.execution # "none"
       THEN /\ status' = "duplicate_ignored"
            /\ UNCHANGED <<link, db, disturbed, downBefore>>
       ELSE /\ Enable
            /\ downBefore' = (admin = "disable" /\ oper = "down")
            /\ \E r \in {oper', "unknown"} :
                  /\ disturbed' = (disturbed \/ oper' # "up" \/ r # oper')
                  /\ status' = Outcome(r)
                  /\ db' = [db EXCEPT !.execution = Outcome(r),
                                      !.job = IF r = "up" THEN "completed" ELSE "reconciling",
                                      !.audit = @ \cup {"intent", "apply"}]
    /\ UNCHANGED <<injected, failed, passed, slices>>

JudgeRecovery ==
    /\ at = "judge"
    /\ \E r \in SliceReads : Misread(r) /\ Emit(status = "succeeded" /\ r = "up", "trail")
    /\ UNCHANGED <<link, db, injected, status, passed, downBefore, slices>>

\* The recovery row and the audit row of the executor, and the verdict.
JudgeTrail ==
    /\ at = "trail"
    /\ Emit(db.execution = "succeeded" /\ "apply" \in db.audit, "idle")
    /\ passed' = IF failed' THEN "fail" ELSE "pass"
    /\ UNCHANGED <<link, db, injected, status, disturbed, downBefore, slices>>

\* A kill, or a command that times out; the executor may have reached the link.
SliceDies ==
    /\ at # "idle" /\ at' = "idle"
    /\ passed' = "fail" /\ disturbed' = TRUE
    /\ IF at = "execute" /\ db.execution = "none" THEN Enable ELSE UNCHANGED link
    /\ UNCHANGED <<db, injected, status, failed, downBefore, slices>>

SliceNext ==
    \/ StartSlice \/ CleanSlate \/ InjectShutdown \/ GoesDown \/ ObserveFault \/ CorrelateSlice
    \/ ClaimDown \/ StorePlan \/ ApproveTwice \/ ExecuteSlice \/ JudgeRecovery \/ JudgeTrail
    \/ SliceDies

SliceSpec == SliceInit /\ [][SliceNext]_sliceVars

-----------------------------------------------------------------------------
(* Properties. *)

SliceTypeOK ==
    /\ admin \in {"enable", "disable"} /\ oper \in {"up", "down"}
    /\ passed \in {"none", "pass", "fail"}
    /\ injected \in 0 .. MaxInject /\ slices \in 0 .. MaxSlices

\* The verdict is right both ways.  A run passes only if the executor found the link disabled and
\* down and brought it up itself, with a complete trail of one execution, although stages
\* that failed do not stop it; and a run in which nothing went wrong passes, whatever rows and
\* link state a run that was killed left behind (vertical_slice.py:8-10, 117-131, 239-250).
SliceVerdictIsRight ==
    at = "idle" =>
        /\ passed = "pass" =>
              /\ downBefore /\ admin = "enable" /\ oper = "up"
              /\ db.approved /\ db.job = "completed" /\ db.execution = "succeeded"
              /\ db.audit = {"intent", "apply"}
        /\ slices > 0 /\ ~disturbed => passed = "pass"
=============================================================================
