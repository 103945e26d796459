------------------------------ MODULE MCEndToEnd ------------------------------
(* DockerScenario with the containers of an EndToEndScenario, for TLC.      *)
EXTENDS EndToEndTopology, DockerScenario

TopologyGraphs == {DependsOn}
Probes == {weblog} \cup {c \in {agent} : Agent}
================================================================================
