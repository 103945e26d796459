--------------------------- MODULE EndToEndTopology ---------------------------
(***************************************************************************)
(* The containers of an EndToEndScenario and what each one depends on, as  *)
(* built by __init__, configure and _set_containers_dependancies from the  *)
(* options of the scenario.                                                *)
(***************************************************************************)
EXTENDS Sequences, FiniteSets

CONSTANTS
    proxy, backend, agent, buddy, weblog, db, mssql,  \* one container of each kind
    UseProxy,   \* use_proxy_for_weblog
    Agent,      \* include_agent
    Buddies,    \* include_buddies
    Databases   \* other_weblog_containers: subset of {db, mssql}

ASSUME KindAssumption ==
    /\ weblog \notin {proxy, backend, agent, buddy, db, mssql}
    /\ buddy \notin {proxy, backend, agent, db, mssql}
    /\ agent \notin {proxy, backend, db, mssql}
    /\ backend \notin {proxy, db, mssql}
    /\ mssql \notin {proxy, db}
ASSUME TopologyAssumption ==
    /\ UseProxy \in BOOLEAN /\ Agent \in BOOLEAN /\ Buddies \in BOOLEAN
    /\ Buddies => Agent
    /\ Databases \subseteq {db, mssql}

Part(cond, c) == IF cond THEN <<c>> ELSE <<>>

\* scenario._containers
ContainerList ==
    Part(UseProxy, proxy) \o <<backend>> \o Part(Agent, agent) \o Part(Buddies, buddy)
    \o <<weblog>> \o Part(db \in Databases, db) \o Part(mssql \in Databases, mssql)

InScenario == {ContainerList[i] : i \in DOMAIN ContainerList}

\* The dependencies of one kind of container.
DirectDependencies(c) ==
    CASE c = weblog -> Databases \cup {backend} \cup {x \in {agent} : Agent}
                       \cup {x \in {proxy} : UseProxy}
      [] c = agent  -> {backend}
      [] c = buddy  -> {agent}
      [] OTHER      -> {}

\* MsSql starts alone: every other container depends on it.
DependsOn ==
    [c \in InScenario |->
        DirectDependencies(c) \cup {x \in {mssql} : x \in Databases /\ c # mssql}]

\* Fault: the mocked backend is stopped before the agent.
StopListBackendFirst ==
    <<weblog>> \o Part(Buddies, buddy) \o <<backend>> \o Part(Agent, agent)

\* What _wait_and_stop_containers stops.
StopList == <<weblog>> \o Part(Buddies, buddy) \o Part(Agent, agent) \o <<backend>>
================================================================================
