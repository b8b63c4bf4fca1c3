-------------------------- MODULE MCContainerDeploy --------------------------
(***************************************************************************)
(* Instances of ContainerDeploy: two jobs that may want the same name, a    *)
(* run beside a job that may hold one of its names, and a lister.           *)
(***************************************************************************)
EXTENDS ContainerDeploy

MCConfigs == {[name |-> "run-a", valid |-> TRUE], [name |-> "web", valid |-> FALSE]}

Create2(s, t) == <<[phase |-> "create", service |-> s, known |-> TRUE],
                   [phase |-> "create", service |-> t, known |-> t # "run-x"]>>

MCPlans ==
    {<<[phase |-> "stop", service |-> "run-a", known |-> TRUE]>> \o Create2("run-a", "run-b"),
     Create2("run-b", "run-x")}

MCCasts == {{"j1", "j2"}, {"j1", "run"}, {"j1", "lister"}, {"run", "lister"}}
=============================================================================
