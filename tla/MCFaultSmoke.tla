---------------------------- MODULE MCFaultSmoke ----------------------------
(* One fault of every kind; interfaces are shared by more entries than in CAMPAIGN. *)
EXTENDS FaultSmoke

CONSTANTS l1, l2, collector

MCCampaign ==
    << [class |-> "healthy_control",     target |-> l1],
       [class |-> "admin_shutdown",      target |-> l1],
       [class |-> "intermittent_link",   target |-> l2],
       [class |-> "rate_limited_uplink", target |-> l1],
       [class |-> "impaired_link",       target |-> l2],
       [class |-> "carrier_loss",        target |-> l2],
       [class |-> "telemetry_gap",       target |-> collector] >>
=============================================================================
