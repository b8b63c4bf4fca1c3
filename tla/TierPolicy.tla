----------------------------- MODULE TierPolicy -----------------------------
(***************************************************************************)
(* How a tier and a backend are chosen: the three selection policies of     *)
(* pkg/tier/policy.go and the backend selection of pkg/runtime.  Pure       *)
(* operators: a configuration, an environment and what is registered or     *)
(* available go in, a name or an error comes out.                           *)
(*                                                                          *)
(* A configuration is [security, platform, workload, trusted, budget], ""   *)
(* and 0 being the zero values.  An environment is [tier, security,         *)
(* platform, budget, profile], "" and 0 for a variable that is unset or     *)
(* that Atoi refuses; names are already in lower case.                      *)
(***************************************************************************)
EXTENDS TierAdapters, Integers, Sequences, SequencesExt

Info(startup, security, platforms) ==
    [startup |-> startup, security |-> security, platforms |-> platforms]

\* policy.go keeps its own copy of the adapters' metadata.
allTiers ==
    [wasm |-> Info(1, "low", Portable), native |-> Info(0, "low", Portable),
     gvisor |-> Info(90, "medium", {"linux", "macos"}),
     firecracker |-> Info(125, "high", {"linux"}),
     landlock |-> Info(1, "low", {"linux"}), seccomp |-> Info(1, "low", {"linux"}),
     docker |-> Info(600, "medium", Portable), podman |-> Info(700, "medium", Portable),
     hyperkit |-> Info(400, "high", {"macos"}), applevz |-> Info(250, "high", {"macos"}),
     lima |-> Info(3000, "high", {"macos", "windows"}),
     kvm |-> Info(150, "high", {"linux"}), qemu |-> Info(2000, "high", Portable),
     cloudhv |-> Info(180, "high", {"linux"}), crosvm |-> Info(200, "high", {"linux"}),
     kata |-> Info(250, "high", {"linux"}), youki |-> Info(30, "medium", {"linux"}),
     systemdnspawn |-> Info(100, "medium", {"linux"}),
     nitrorekf |-> Info(5000, "untrusted", {"linux"}),
     sev |-> Info(500, "untrusted", {"linux"}), tdx |-> Info(600, "untrusted", {"linux"}),
     kubevirt |-> Info(2000, "high", {"linux"}),
     virtcontainers |-> Info(200, "medium", {"linux"}),
     jail |-> Info(50, "medium", {"freebsd"}), pledge |-> Info(1, "low", {"openbsd"}),
     sandboxexec |-> Info(5, "low", {"macos"}),
     gvisordocker |-> Info(600, "medium", {"linux", "macos"}),
     wolfi |-> Info(50, "medium", {"linux"}), distroless |-> Info(80, "high", Portable),
     userns |-> Info(1, "low", {"linux"})]

\* The names in the order of Go's string comparison.
CanonicalTierNames ==
    <<"applevz", "cloudhv", "crosvm", "distroless", "docker", "firecracker", "gvisor",
      "gvisordocker", "hyperkit", "jail", "kata", "kubevirt", "kvm", "landlock", "lima",
      "native", "nitrorekf", "pledge", "podman", "qemu", "sandboxexec", "seccomp", "sev",
      "systemdnspawn", "tdx", "userns", "virtcontainers", "wasm", "wolfi", "youki">>

NameRank(n) == CHOOSE i \in DOMAIN CanonicalTierNames : CanonicalTierNames[i] = n

\* The candidates of a platform and a level.  The code lists them in a slice, but
\* the order of the list does not outlast the sort.
MacOrder ==
    [low       |-> {"native", "sandboxexec", "applevz", "qemu"},
     medium    |-> {"applevz", "gvisor", "lima", "qemu", "gvisordocker", "distroless"},
     high      |-> {"applevz", "lima", "qemu", "distroless"},
     untrusted |-> {"applevz", "qemu", "lima"}]

WindowsOrder ==
    [low       |-> {"native", "qemu"},
     medium    |-> {"qemu", "gvisor", "distroless"},
     high      |-> {"qemu", "distroless"},
     untrusted |-> {"qemu"}]

LinuxOrder ==
    [low       |-> {"native", "landlock", "seccomp", "userns", "wasm"},
     medium    |-> {"landlock", "seccomp", "userns", "gvisor", "youki", "systemdnspawn",
                     "wolfi", "wasm", "docker", "podman", "gvisordocker"},
     high      |-> {"firecracker", "cloudhv", "crosvm", "qemu", "kata", "kubevirt",
                     "distroless", "virtcontainers"},
     untrusted |-> {"firecracker", "qemu", "cloudhv", "sev", "tdx", "nitrorekf",
                     "kubevirt"}]

TrustsEveryTool(workload, trusted) == workload \in {"cli", "tool"}

InProcess(workload, trusted) == trusted /\ workload \in {"cli", "tool"}

defaultCandidates(security, platform, workload, trusted) ==
    LET order == CASE platform = "macos"   -> MacOrder
                   [] platform = "windows" -> WindowsOrder
                   [] OTHER                -> LinuxOrder
        listed == IF security \in DOMAIN order THEN order[security] ELSE {}
    IN  IF InProcess(workload, trusted) THEN {"wasm", "native"} \cup listed ELSE listed

platformMatches(platforms, platform) == platforms = {} \/ platform \in platforms

ByName(m, n) == NameRank(m) < NameRank(n)

\* sort.SliceStable by (StartupMS, Name).
Faster(m, n) ==
    \/ allTiers[m].startup < allTiers[n].startup
    \/ allTiers[m].startup = allTiers[n].startup /\ NameRank(m) < NameRank(n)

Chosen(n) == [tier |-> n, err |-> "nil"]
Refused(e) == [tier |-> "", err |-> e]

Default(v, zero, d) == IF v = zero THEN d ELSE v

BudgetIgnored(c, budget) == TRUE

WithinBudget(c, budget) == budget <= 0 \/ allTiers[c].startup <= budget

\* The candidates that are registered and support the platform.
filtered(cfg, registered) ==
    LET platform == Default(cfg.platform, "", "linux")
        security == Default(cfg.security, "", "medium")
    IN  {c \in defaultCandidates(security, platform, cfg.workload, cfg.trusted) :
            c \in registered /\ platformMatches(allTiers[c].platforms, platform)}

within(cfg, registered) == {c \in filtered(cfg, registered) : WithinBudget(c, cfg.budget)}

\* The first of the sorted candidates.
First(S) == CHOOSE c \in S : \A d \in S \ {c} : Faster(c, d)

DefaultSelect(cfg, registered) ==
    IF filtered(cfg, registered) = {} THEN Refused("no candidate")
    ELSE IF within(cfg, registered) = {} THEN Refused("no tier fits the budget")
    ELSE Chosen(First(within(cfg, registered)))

platformFromRuntime(os) ==
    CASE os = "darwin" -> "macos" [] os = "windows" -> "windows" [] OTHER -> "linux"

applyEnvOverrides(cfg, env, os) ==
    [cfg EXCEPT !.security = Default(env.security, "", @),
                !.platform = Default(env.platform, "", Default(@, "", platformFromRuntime(os))),
                !.budget   = IF env.budget > 0 THEN env.budget ELSE @]

\* NVMS_TIER: the filters are tried on what DefaultPolicy would pick, without
\* TrustedCode, and not on the tier that was asked for.
envExactTier(cfg, env, registered) ==
    IF env.tier \notin registered THEN Refused("not registered")
    ELSE IF DefaultSelect([cfg EXCEPT !.trusted = FALSE], registered).err # "nil"
         THEN Refused("fails filters")
         ELSE Chosen(env.tier)

AutoSelect(cfg, env, os, registered) ==
    LET envCfg == applyEnvOverrides(cfg, env, os)
    IN  IF env.tier \in {"", "auto"} THEN DefaultSelect(envCfg, registered)
        ELSE envExactTier(envCfg, env, registered)

\* The knobs of a profile; an unknown one has the zero configuration.
profileSelection(p) ==
    LET knobs(security, budget) ==
            [security |-> security, platform |-> "linux", budget |-> budget]
    IN  CASE p = "dev"                -> knobs("low", 5000)
          [] p \in {"ci", "ci-secure"} -> knobs("medium", 10000)
          [] p = "ci-fast"            -> knobs("low", 2000)
          [] p = "prod-secure"        -> knobs("untrusted", 0)
          [] p = "prod-fast"          -> knobs("high", 1000)
          [] p = "airgapped"          -> knobs("high", 0)
          [] OTHER -> [security |-> "", platform |-> "", budget |-> 0]

ProfileConfig(cfg, env) ==
    IF env.profile = "" THEN cfg
    ELSE LET p == profileSelection(env.profile)
         IN  [cfg EXCEPT !.security = p.security, !.platform = p.platform, !.budget = p.budget]

ProfileSelect(cfg, env, registered) == DefaultSelect(ProfileConfig(cfg, env), registered)
-----------------------------------------------------------------------------
(***************************************************************************)
(* Execution backends: Select tries the preferred backends first and then   *)
(* all of them in the order of their names.                                 *)
(***************************************************************************)
AllBackends == <<"apple", "nanovms", "podman", "wsl">>

SupportsAny(b, target) == TRUE

Supports(b, target) == target = IF b = "nanovms" THEN "nanovms" ELSE "docker"

\* The executables of DefaultBinaryProbe; it has none for nanovms.
candidates(b) ==
    CASE b = "podman" -> {"podman"}
      [] b = "apple"  -> {"container"}
      [] b = "wsl"    -> {"container.exe", "wslc.exe"}
      [] OTHER        -> {}

\* A backend is there when an executable is found and its --version does not
\* outlast the probe's two seconds.
BackendProbe(b, host, slow) == candidates(b) \cap host.have # {} /\ b \notin slow

Discover(host, slow) == {b \in Range(AllBackends) : BackendProbe(b, host, slow)}

SelectBackend(target, preferred, available) ==
    LET try    == preferred \o AllBackends
        usable == {i \in DOMAIN try : Supports(try[i], target) /\ try[i] \in available}
    IN  IF usable = {} THEN Refused("no available backend")
        ELSE Chosen(try[CHOOSE i \in usable : \A j \in usable : i <= j])

\* Registry queries, on the adapters' own metadata.
ByPlatform(registered, platform) ==
    {n \in registered : platformMatches(Adapter[n].platforms, platform)}
ByStartup(registered, max) == {n \in registered : Adapter[n].startup <= max}
BySecurity(registered, security) == {n \in registered : Adapter[n].security = security}
=============================================================================
