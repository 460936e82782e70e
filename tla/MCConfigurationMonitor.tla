----------------------- MODULE MCConfigurationMonitor -----------------------
(* Instances of ConfigurationMonitor for TLC. *)
EXTENDS ConfigurationMonitor, TLC

CONSTANTS importer, w1

\* The ids are uuids.
Alike == Permutations(Id)
=============================================================================
