---------------------------- MODULE MCTierDaemon ----------------------------
(***************************************************************************)
(* A finite instance of TierDaemon for TLC: hosts with everything and with  *)
(* nothing installed, and configurations around the boundaries of the       *)
(* startup times.                                                           *)
(***************************************************************************)
EXTENDS TierDaemon

Everything ==
    UNION {Adapter[t].needs : t \in Tiers} \cup {"podman", "container", "container.exe"}
FullHost(os) == [os |-> os, have |-> Everything, veto |-> {}, force |-> {}]

MCHosts ==
    {FullHost(os) : os \in {"linux", "darwin", "windows", "freebsd"}}
    \cup {[os |-> "linux", have |-> {}, veto |-> {}, force |-> {"landlock"}],
          [os |-> "openbsd", have |-> Everything, veto |-> {"wasm", "kata"}, force |-> {}]}

MCConfigs ==
    [security : {"", "low", "medium", "high", "untrusted"},
     platform : {"", "macos", "windows"},
     workload : {"cli", "code"}, trusted : BOOLEAN, budget : {0, 100}]

Env(t, sec, p, b, prof) ==
    [tier |-> t, security |-> sec, platform |-> p, budget |-> b, profile |-> prof]

MCEnvs ==
    {Env("", "", "", 0, ""), Env("auto", "high", "linux", 125, "prod-fast"),
     Env("kvm", "", "", 0, "prod-secure"), Env("seccomp", "untrusted", "", 1, "nosuch")}

MCPreferred == {<<>>, <<"wsl", "podman">>, <<"nanovms", "apple", "apple">>, <<"nosuch">>}
=============================================================================
