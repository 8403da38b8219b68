---------------------------- MODULE MCCorpusRun -----------------------------
(* One leaf with two uplinks, and a fault class of every way to leave a link. *)
EXTENDS CorpusRun

MCClasses == <<"admin_shutdown", "carrier_loss", "intermittent_link", "rate_limited_uplink",
               "healthy_control">>
MCLeaves == <<"leaf1">>
=============================================================================
