---------------------------- MODULE MCRemoteConfig ----------------------------
(* Instances of RemoteConfig for TLC. *)
EXTENDS RemoteConfig, TLC

Processes == Permutations(Clients)
================================================================================
