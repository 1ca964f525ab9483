----------------------------- MODULE MCRecovery ------------------------------
(* Recovery of a node that is archival or commits every second block, or every
   fourth. *)
EXTENDS Recovery

Pruning(interval) == [archival |-> FALSE, interval |-> interval]
MCConfigs == {[archival |-> TRUE, interval |-> 2], Pruning(2), Pruning(4)}
=============================================================================
