------------------------------ MODULE Recovery ------------------------------
(***************************************************************************)
(* The safety path of a plan of several steps: the prechecks               *)
(* (executor/prechecks.py), the mutation behind the audit record           *)
(* (executor/audit_guard.py) and the rollback (executor/rollback.py).      *)
(*                                                                         *)
(* The caller that runs the steps of a plan through the guard is external: *)
(* the executor of Remediation has one step, and no rollback.              *)
(***************************************************************************)
EXTENDS Integers, FiniteSets, Sequences

CONSTANT MaxSteps   \* bound on the actions of a plan, and of its rollback

ASSUME RecoveryAssumption == MaxSteps \in Nat \ {0}

\* What the prechecks ask of the plan and of the world, by their names.
PlanChecks == {"actions_and_params_allowlisted", "target_not_management_interface",
               "recovery_predicate_defined"}
WorldChecks == {"approval_valid_for_digest_and_version", "no_topology_drift",
                "telemetry_fresh_and_complete", "no_competing_execution", "alternate_path_healthy",
                "capacity_above_headroom", "keeps_final_usable_path", "audit_writable", "database_writable"}

VARIABLES
    steps,      \* the number of actions of the plan
    undo,       \* the number of its captured rollback actions
    stage,      \* "planned", "refused", "forward", "failed", "rollback" or "over"
    checked,    \* the plan passed every check
    audited,    \* the steps whose audit record is written
    mutated,    \* the steps whose effect is on the device
    completed,  \* the steps that the caller counts as completed
    reverted,   \* the rollback steps that were read back
    outcome     \* what rollback returned: a status, "raised", or "none"

rvars == <<steps, undo, stage, checked, audited, mutated, completed, reverted, outcome>>

RecoveryInit ==
    /\ steps \in 0 .. MaxSteps /\ undo \in 0 .. MaxSteps
    /\ stage = "planned" /\ checked = FALSE
    /\ audited = {} /\ mutated = {} /\ completed = 0 /\ reverted = 0 /\ outcome = "none"

\* run_prechecks: the checks that fail, of the plan and of the world as it is found.
Failures(broken) ==
    broken \cup (IF steps = 0 THEN {"actions_and_params_allowlisted"} ELSE {})
           \cup (IF undo = 0 THEN {"rollback_defined"} ELSE {})

Executable(broken) == Failures(broken) = {}

Precheck ==
    /\ stage = "planned"
    /\ \E broken \in {{}} \cup {{c} : c \in PlanChecks \cup WorldChecks} :
          /\ checked' = Executable(broken)
          /\ stage' = IF Executable(broken) THEN "forward" ELSE "refused"
    /\ UNCHANGED <<steps, undo, audited, mutated, completed, reverted, outcome>>

Next1 == completed + 1

\* The audit write fails and nothing is mutated, or the mutation follows it; one that raises may
\* have reached the device.
GuardedMutation ==
    /\ stage = "forward" /\ completed < steps
    /\ \/ stage' = "failed" /\ UNCHANGED <<audited, mutated, completed>>
       \/ \E applied, raised \in BOOLEAN :
             /\ raised \/ applied
             /\ audited' = audited \cup {Next1}
             /\ mutated' = IF applied THEN mutated \cup {Next1} ELSE mutated
             /\ completed' = IF raised THEN completed ELSE Next1
             /\ stage' = IF raised THEN "failed" ELSE "forward"
    /\ UNCHANGED <<steps, undo, checked, reverted, outcome>>

\* A step failed, or a postcondition did after the last one.
BeginRollback ==
    /\ stage = "failed" \/ (stage = "forward" /\ completed = steps)
    /\ stage' = IF completed = 0 THEN "over" ELSE "rollback"
    /\ outcome' = IF completed = 0 THEN "not_needed" ELSE outcome
    /\ UNCHANGED <<steps, undo, checked, audited, mutated, completed, reverted>>

\* The rollback actions of the completed steps, the last one first.
ToRevert == IF completed < undo THEN completed ELSE undo

\* Mutant of Target: in the order of the plan.
TargetForward == reverted + 1

Target == ToRevert - reverted

Halt == stage' = "over" /\ outcome' = "halted_operator_required" /\ UNCHANGED reverted

\* One turn of the loop.  The preconditions no longer hold; the call raises, before or after it
\* reached the device; the read-back fails; it raises, which nobody catches; or the step counts.
RollbackStep ==
    /\ stage = "rollback" /\ reverted < ToRevert
    /\ \/ Halt /\ UNCHANGED mutated
       \/ /\ mutated' \in {mutated, mutated \ {Target}}
          /\ \/ Halt
             \/ stage' = "over" /\ outcome' = "raised" /\ UNCHANGED reverted
       \/ mutated' = mutated \ {Target} /\ reverted' = reverted + 1 /\ UNCHANGED <<stage, outcome>>
    /\ UNCHANGED <<steps, undo, checked, audited, completed>>

RolledBack ==
    /\ stage = "rollback" /\ reverted = ToRevert
    /\ stage' = "over" /\ outcome' = "rolled_back"
    /\ UNCHANGED <<steps, undo, checked, audited, mutated, completed, reverted>>

RecoveryNext == Precheck \/ GuardedMutation \/ BeginRollback \/ RollbackStep \/ RolledBack

RecoverySpec == RecoveryInit /\ [][RecoveryNext]_rvars

-----------------------------------------------------------------------------
(* Properties. *)

RecoveryTypeOK ==
    /\ steps \in Nat /\ undo \in Nat
    /\ stage \in {"planned", "refused", "forward", "failed", "rollback", "over"}
    /\ checked \in BOOLEAN
    /\ audited \in SUBSET Nat /\ mutated \in SUBSET Nat
    /\ completed \in Nat /\ reverted \in Nat
    /\ outcome \in {"none", "not_needed", "rolled_back", "halted_operator_required", "raised"}

\* Whatever is on the device, now or when a rollback was abandoned, was audited first and belongs to
\* a plan that passed every check (audit_guard.py:18-24, prechecks.py:39-97).
MutationsAreAudited == mutated # {} => checked /\ mutated \subseteq audited

\* A rollback undoes the later step first: no completed step is undone while a later one with a
\* rollback of its own still stands, wherever the rollback stopped, and none is left when
\* it says that it rolled them back (rollback.py:43-58).
UndoneInReverse ==
    stage \in {"rollback", "over"} =>
        /\ \A i, j \in 1 .. ToRevert : i < j /\ j \in mutated => i \in mutated
        /\ outcome = "rolled_back" => \A i \in 1 .. ToRevert : i \notin mutated
=============================================================================
