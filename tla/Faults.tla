------------------------------- MODULE Faults -------------------------------
(***************************************************************************)
(* chaos/faults.py: what the fault plugins do to their target.             *)
(*                                                                         *)
(* A target is an interface of a lab node, or the telemetry collector; its *)
(* state is the set of conditions that hold on it.  The exit status of     *)
(* every command is ignored, so any command may fail unnoticed; a command  *)
(* that times out raises, and may or may not have had its effect.          *)
(***************************************************************************)
EXTENDS FiniteSets

Clean == {}
Qdiscs == {"tbf", "netem"}
Conditions == Qdiscs \cup {"admin_down", "carrier_down", "stopped"}

FaultClasses == {"admin_shutdown", "carrier_loss", "intermittent_link",
                 "rate_limited_uplink", "impaired_link", "telemetry_gap", "healthy_control"}

\* The condition that a fault class puts on its target while its apply commands run.
Condition(fc) ==
    CASE fc = "admin_shutdown"      -> {"admin_down"}
      [] fc = "carrier_loss"        -> {"carrier_down"}
      [] fc = "intermittent_link"   -> {"carrier_down"}
      [] fc = "rate_limited_uplink" -> {"tbf"}
      [] fc = "impaired_link"       -> {"netem"}
      [] fc = "telemetry_gap"       -> {"stopped"}
      [] fc = "healthy_control"     -> {}

\* What a target in state `on` may look like after apply, or after a part of it: untouched,
\* impaired - unless a root qdisc is already there, `tc qdisc add` then fails - or, for a
\* flap, set up again.
Applied(fc, on) ==
    {on}
    \cup (IF Condition(fc) \subseteq Qdiscs /\ on \cap Qdiscs # {} THEN {} ELSE {on \cup Condition(fc)})
    \cup (IF fc = "intermittent_link" THEN {on \ Condition(fc)} ELSE {})

\* A target on which every command of apply worked.
Works(fc, on) ==
    IF fc = "intermittent_link" THEN on \ Condition(fc)
    ELSE IF on \cap Qdiscs # {} /\ Condition(fc) \subseteq Qdiscs THEN on
    ELSE on \cup Condition(fc)

\* Mutant of Undoes: the flap falls through to the payload that does nothing.
UndoesNoFlap(fc) ==
    IF fc = "intermittent_link" THEN {}
    ELSE IF Condition(fc) \cap Qdiscs # {} THEN Qdiscs ELSE Condition(fc)

\* What the cleanup payload undoes: `tc qdisc del root` removes any shaping.
Undoes(fc) == IF Condition(fc) \cap Qdiscs # {} THEN Qdiscs ELSE Condition(fc)

Cleared(fc, on) == {on, on \ Undoes(fc)}

OperDown(on) == on \cap {"admin_down", "carrier_down"} # {}

\* verify_onset on a target in state `on`.  A device that does not answer shows no onset.
Onset(fc, on) ==
    CASE fc \in {"admin_shutdown", "carrier_loss"}                          -> OperDown(on)
      [] fc \in {"rate_limited_uplink", "impaired_link", "telemetry_gap"}   -> Condition(fc) \subseteq on
      [] fc \in {"intermittent_link", "healthy_control"}                    -> TRUE

Unchecked == {"intermittent_link", "healthy_control"}
Observed(fc, on) == {Onset(fc, on)} \cup (IF fc \in Unchecked THEN {} ELSE {FALSE})

\* Fault classes whose commands run on a lab node, with a timeout that raises.
Remote == FaultClasses \ {"telemetry_gap", "healthy_control"}
=============================================================================
