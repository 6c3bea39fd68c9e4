----------------------------- MODULE MCRelaySync -----------------------------
(* Instances of RelaySync for TLC: the daemons and messages of the configurations. *)
EXTENDS RelaySync

CONSTANTS d1, d2, m1, m2, m3
==============================================================================
