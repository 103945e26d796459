------------------------------- MODULE MCDocker -------------------------------
(* Instances of DockerScenario for TLC, with every graph of dependencies.   *)
EXTENDS DockerScenario

CONSTANTS A, B, C

ThreeInOrder == <<A, B, C>>
TwoInOrder == <<A, B>>

AllGraphs == [Containers -> SUBSET Containers]
================================================================================
