-------------------------- MODULE MCCorpusRelease ---------------------------
(* A training and a validation leaf with two uplinks each, one incident per cell. *)
EXTENDS CorpusRelease

MCClasses == <<"admin_shutdown", "intermittent_link", "rate_limited_uplink">>
MCLeaves == <<"leaf1", "leaf2">>
MCPolicy == <<"train", "validation">>
MCTestLeaf == <<FALSE, TRUE>>
=============================================================================
