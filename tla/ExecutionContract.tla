------------------------- MODULE ExecutionContract -------------------------
(***************************************************************************)
(* What the gated remediation flow promises, with nothing about requests,  *)
(* transactions, row locks or crashes: the device is touched only under a  *)
(* plan that a human approved, every plan gets at most one outcome, an     *)
(* outcome is "succeeded" only if the device was seen up after it was      *)
(* touched, and only an ambiguous outcome may still be resolved.           *)
(***************************************************************************)
CONSTANT Plans        \* the immutable plan versions, each with its own digest

VARIABLES approved,   \* plans some approver has approved
          touched,    \* plans under which the device was mutated
          sighted,    \* plans whose target was read back as "up"
          outcome     \* the durable outcome of each plan

contractVars == <<approved, touched, sighted, outcome>>

Outcomes == {"succeeded", "failed", "outcome_unknown"}

ContractInit ==
    /\ approved = {}
    /\ touched = {}
    /\ sighted = {}
    /\ outcome = [p \in Plans |-> "none"]

Approve(p) ==
    /\ approved' = approved \cup {p}
    /\ UNCHANGED <<touched, sighted, outcome>>

(* The device is mutated and read back: the read may show it up or not. *)
Operate(p) ==
    /\ p \in approved
    /\ touched' = touched \cup {p}
    /\ sighted' \in {sighted, sighted \cup {p}}
    /\ UNCHANGED <<approved, outcome>>

(* A later read of the device, by reconciliation. *)
Sight(p) ==
    /\ p \in touched
    /\ sighted' = sighted \cup {p}
    /\ UNCHANGED <<approved, touched, outcome>>

(* The first outcome of a plan, or the resolution of an ambiguous one. *)
Report(p, o) ==
    /\ p \in touched
    /\ \/ outcome[p] = "none"
       \/ outcome[p] = "outcome_unknown" /\ o # "outcome_unknown"
    /\ o = "succeeded" => p \in sighted
    /\ outcome' = [outcome EXCEPT ![p] = o]
    /\ UNCHANGED <<approved, touched, sighted>>

ContractNext ==
    \E p \in Plans :
        \/ Approve(p)
        \/ Operate(p)
        \/ Sight(p)
        \/ \E o \in Outcomes : Report(p, o)

ContractSpec == ContractInit /\ [][ContractNext]_contractVars
=============================================================================
