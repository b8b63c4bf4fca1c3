----------------------------- MODULE TierDaemon -----------------------------
(***************************************************************************)
(* The programs that use the tiers.                                         *)
(*                                                                          *)
(* An "embedder" builds a registry (pkg/tier/registry.go) and asks a        *)
(* selection policy for a tier.                                             *)
(*                                                                          *)
(* A "daemon" is `nvms serve --tier N`: the HTTP handlers of                *)
(* internal/api/router.go over the tierAdapter of                           *)
(* internal/adapters/sandbox.go over the tier adapter that NewSandboxPort   *)
(* finds for N.  A deploy request calls Create and Start under the          *)
(* request's context, which net/http ends when the handler has returned or  *)
(* when the client hangs up; other requests stop and delete at any time.    *)
(*                                                                          *)
(* A "library" user drives one adapter of the default registry in the same  *)
(* way, with contexts of its own.  Its code is not in the repository; the   *)
(* adapters without a number are reached by nobody else.                    *)
(*                                                                          *)
(* The guest itself (a VM, a container, a process) is external: it may fail *)
(* to come up, end by itself, and take its time to die.                     *)
(***************************************************************************)
EXTENDS TierPolicy, FiniteSets

CONSTANTS
    Sandbox,    \* deploy requests, and the sandboxes they make
    Hosts,      \* hosts [os, have, veto, force] a program may run on
    Embedded,   \* tiers an embedder registers one by one
    Configs,    \* selection configurations it asks with
    Envs,       \* environments it runs in
    Preferred,  \* lists of backends it prefers
    Numbers     \* tier numbers the daemon may be started with

\* Which tiers there are is fixed; the other parameters are of the types the code gives
\* them.
ASSUME EmbeddedAssumption == Embedded \subseteq Tiers

Config == [security : STRING, platform : STRING, workload : STRING, trusted : BOOLEAN, budget : Int]

ASSUME SelectionAssumption ==
    /\ Configs \subseteq Config
    /\ Envs \subseteq [tier : STRING, security : STRING, platform : STRING, budget : Int, profile : STRING]
    /\ Preferred \subseteq Seq(STRING)

VARIABLES
    program,    \* "embedder", "daemon" or "library"
    host,       \* the host, fixed
    registry,   \* names in Registry.adapters
    answer,     \* what a Select was asked and what it said
    served,     \* tier behind the daemon's port, "stub" or "none"
    listed,     \* keys of tierAdapter.sandboxes
    status,     \* status field of each descriptor
    request,    \* where each deploy request is
    hungUp,     \* requests whose client is gone
    guest,      \* what runs for each sandbox
    killed,     \* sandboxes whose guest was signalled
    told,       \* what clients have been told: <<"stopped" or "deleted", s>>
    restarted   \* the daemon has been restarted

selection == <<registry, answer>>
sandboxes == <<listed, status, request, hungUp, guest, killed, told, restarted>>
vars == <<program, host, selection, served, sandboxes>>

NoAnswer == [policy |-> "none"]

ForgetsLandlock(os) == Tiers \ {"landlock", "jail", "pledge", "sandboxexec"}

\* Build tags leave three adapters out on other systems.
registerDefaultTiers(os) ==
    Tiers \ ((IF os = "freebsd" THEN {} ELSE {"jail"}) \cup
             (IF os = "openbsd" THEN {} ELSE {"pledge"}) \cup
             (IF os = "darwin" THEN {} ELSE {"sandboxexec"}))

\* The daemon's numbers for tiers 4 to 30.  Ten of the names belong to no
\* adapter.
tierName ==
    <<"", "", "", "docker", "podman", "gvisor", "firecracker", "native", "landlock",
      "seccomp", "lxc", "kata", "qemu", "kvm", "wasm", "wasmtime", "cloudhv", "crosvm",
      "applevz", "hyperkit", "lima", "firejail", "bubblewrap", "nsjail", "youki", "crun",
      "sysbox", "kata-fc", "kata-qemu", "kata-cloud-hv">>

NewSandboxPort(n, os) ==
    IF n \notin 4 .. 30 THEN "none"
    ELSE IF tierName[n] \in registerDefaultTiers(os) THEN tierName[n] ELSE "stub"

Init ==
    /\ program \in {"embedder", "daemon", "library"}
    /\ host \in Hosts
    /\ registry = {}
    /\ answer = NoAnswer
    /\ CASE program = "embedder" -> served = "none"
         [] program = "daemon" -> \E n \in Numbers : served = NewSandboxPort(n, host.os)
         [] program = "library" -> served \in registerDefaultTiers(host.os) \ Range(tierName)
    /\ listed = {}
    /\ status = [s \in Sandbox |-> "none"]
    /\ request = [s \in Sandbox |-> "idle"]
    /\ hungUp = {}
    /\ guest = [s \in Sandbox |-> "none"]
    /\ killed = {}
    /\ told = {}
    /\ restarted = FALSE
-----------------------------------------------------------------------------
(***************************************************************************)
(* The embedder.                                                            *)
(***************************************************************************)
Embeds == program = "embedder" /\ UNCHANGED <<program, host, served, sandboxes>>

\* A duplicate is an error and changes nothing.
Register(n) == registry' = registry \cup {n}

\* RegisterAll stops at the first duplicate and keeps what it has added.
RegisterAll(names) ==
    LET dup  == {i \in DOMAIN names : \/ names[i] \in registry
                                      \/ \E j \in 1 .. i - 1 : names[j] = names[i]}
        last == IF dup = {} THEN Len(names) ELSE (CHOOSE i \in dup : \A j \in dup : i <= j) - 1
    IN  registry' = registry \cup {names[i] : i \in 1 .. last}

DefaultRegistry == registry = {} /\ registry' = registerDefaultTiers(host.os)

Select(policy, cfg, env) ==
    /\ answer' = [policy |-> policy, env |-> env,
                  cfg |-> CASE policy = "default" -> cfg
                            [] policy = "auto"    -> applyEnvOverrides(cfg, env, host.os)
                            [] policy = "profile" -> ProfileConfig(cfg, env),
                  got |-> CASE policy = "default" -> DefaultSelect(cfg, registry)
                            [] policy = "auto"    -> AutoSelect(cfg, env, host.os, registry)
                            [] policy = "profile" -> ProfileSelect(cfg, env, registry)]
    /\ UNCHANGED registry

\* runtime.Select over DefaultBinaryProbe; slow backends miss its deadline.
SelectRuntime(target, preferred, slow) ==
    LET available == Discover(host, slow)
    IN  /\ answer' = [policy |-> "backend", target |-> target, preferred |-> preferred,
                      available |-> available,
                      got |-> SelectBackend(target, preferred, available)]
        /\ UNCHANGED registry

Embed ==
    /\ Embeds
    /\ \/ /\ answer = NoAnswer
          /\ UNCHANGED answer
          /\ \/ \E n \in Embedded : Register(n)
             \/ \E n, m \in Embedded : RegisterAll(<<n, m>>)
             \/ DefaultRegistry
       \/ \E policy \in {"default", "auto", "profile"}, cfg \in Configs, env \in Envs :
             answer = NoAnswer /\ Select(policy, cfg, env)
       \/ \E target \in {"docker", "nanovms"}, preferred \in Preferred, slow \in SUBSET {"podman", "wsl"} :
             answer = NoAnswer /\ SelectRuntime(target, preferred, slow)
-----------------------------------------------------------------------------
(***************************************************************************)
(* The daemon.  A(s) is the adapter, and Ends(s) what a guest that ends     *)
(* leaves behind: an engine may keep a record of it.                        *)
(***************************************************************************)
Serves == program # "embedder" /\ UNCHANGED <<program, host, selection, served>>

A == Adapter[served]

Ends == IF A.stop = "engine" THEN {"none", "exited"} ELSE {"none"}

To(s, q) == request' = [request EXCEPT ![s] = q]
Guest(s, g) == guest' = [guest EXCEPT ![s] = g]

\* handleDeploy: Port.Create.  An engine may already know the id's container.
Create(s) ==
    /\ request[s] = "idle"
    /\ \/ /\ served \in Tiers
          /\ \E image \in BOOLEAN : Deploys(served, host, image)
          /\ To(s, "created")
          /\ listed' = listed \cup {s}
          /\ status' = [status EXCEPT ![s] = "running"]
          /\ \E g \in IF A.start = "detached" THEN Ends ELSE {"none"} : Guest(s, g)
       \/ /\ served \in Tiers => \E image \in BOOLEAN : ~Deploys(served, host, image)
          /\ To(s, "over")
          /\ UNCHANGED <<listed, status, guest>>
    /\ UNCHANGED <<hungUp, killed, told, restarted>>

MarksStopped(s, ok) ==
    /\ To(s, "answered")
    /\ status' = [status EXCEPT ![s] = IF ok THEN "running" ELSE "stopped"]

\* Start came back: the handler marks the descriptor and answers.
StartAnswered(s, ok) ==
    /\ To(s, "answered")
    /\ status' = [status EXCEPT ![s] = IF ok THEN "running" ELSE "failed"]

\* handleDeploy: Port.Start of a tier that launches nothing.
StartNothing(s) ==
    /\ request[s] = "created"
    /\ served \in Tiers /\ ~Launches(served)
    /\ \E ok \in (CASE A.start = "nothing" -> {TRUE}
                    [] A.start = "refused" -> {FALSE}
                    [] A.start = "thread"  -> BOOLEAN) : StartAnswered(s, ok)
    /\ UNCHANGED <<listed, hungUp, guest, killed, told, restarted>>

\* handleDeploy: Port.Start of a tier whose command returns and leaves the
\* guest, or hands it to a goroutine that kills it with the context.
StartLaunch(s) ==
    /\ request[s] = "created"
    /\ served \in Tiers /\ A.start \in {"child", "daemonized", "detached", "creates"}
    /\ \/ /\ s \notin hungUp
          /\ A.start = "detached" => guest[s] # "none"
          /\ Guest(s, "up") /\ StartAnswered(s, TRUE)
       \* the command is killed, or fails, once the engine has acted
       \/ /\ A.start # "child"
          /\ A.start = "detached" => guest[s] # "none"
          /\ Guest(s, "up") /\ StartAnswered(s, FALSE)
       \/ UNCHANGED guest /\ StartAnswered(s, FALSE)
    /\ UNCHANGED <<listed, hungUp, killed, told, restarted>>

\* handleDeploy: Port.Start waits for a command that lasts as long as the guest.
StartForeground(s) ==
    /\ request[s] = "created"
    /\ served \in Tiers /\ A.start = "foreground"
    /\ \/ s \notin hungUp /\ Guest(s, "up") /\ To(s, "waiting") /\ UNCHANGED status
       \/ UNCHANGED guest /\ StartAnswered(s, FALSE)
    /\ UNCHANGED <<listed, hungUp, killed, told, restarted>>

StartReturns(s) ==
    /\ request[s] = "waiting"
    /\ guest[s] \notin {"up", "dying"}
    /\ \E ok \in IF s \in killed THEN {FALSE} ELSE BOOLEAN : StartAnswered(s, ok)
    /\ UNCHANGED <<listed, hungUp, guest, killed, told, restarted>>

KeepsGuest(s) == UNCHANGED <<guest, killed>>

\* The context of the request ends, and with it a command that it was given to.
\* exec.CommandContext kills that command only: it is taken to be the guest, or to
\* take the guest along when it dies.
CancelContext(s) ==
    IF A.start \in {"child", "foreground"} /\ guest[s] = "up"
    THEN Guest(s, "dying") /\ killed' = killed \cup {s}
    ELSE UNCHANGED <<guest, killed>>

HangUp(s) ==
    /\ request[s] \in {"created", "waiting"}
    /\ s \notin hungUp
    /\ hungUp' = hungUp \cup {s}
    /\ IF request[s] = "waiting" THEN CancelContext(s) ELSE UNCHANGED <<guest, killed>>
    /\ UNCHANGED <<listed, status, request, told, restarted>>

HandlerReturns(s) ==
    /\ request[s] = "answered"
    /\ To(s, "over")
    /\ CancelContext(s)
    /\ UNCHANGED <<listed, status, hungUp, told, restarted>>

NotImplemented(s, ok) == ok /\ UNCHANGED <<guest, killed>>

\* Adapter.Stop; ok is its answer.
AdapterStop(s, ok) ==
    CASE A.stop = "nothing" -> ok /\ UNCHANGED <<guest, killed>>
      [] A.stop = "pkill" ->
            IF guest[s] \in {"up", "dying"}
            THEN ok /\ Guest(s, "dying") /\ killed' = killed \cup {s}
            ELSE ~ok /\ UNCHANGED <<guest, killed>>
      [] A.stop = "engine" ->
            \/ /\ ok /\ guest[s] = "up" /\ killed' = killed \cup {s}
               /\ \E g \in Ends \cup {"dying"} : Guest(s, g)
            \/ ok /\ guest[s] \in {"dying", "exited"} /\ UNCHANGED <<guest, killed>>
            \/ ~ok /\ UNCHANGED <<guest, killed>>

\* Adapter.Delete; ok is its answer.
AdapterDelete(s, ok) ==
    CASE A.delete = "nothing" -> ok /\ UNCHANGED <<guest, killed>>
      [] A.delete = "stop"    -> AdapterStop(s, ok)
      [] A.delete = "engine"  ->
            \/ ok /\ guest[s] \in {"none", "exited"} /\ Guest(s, "none") /\ UNCHANGED killed
            \/ ~ok /\ UNCHANGED <<guest, killed>>
      [] A.delete = "force"   ->
            \/ ok /\ Guest(s, "none") /\ killed' = killed \cup {s}
            \/ ~ok /\ UNCHANGED <<guest, killed>>

\* Only what a client hears after its deployment was answered counts as told.
Tell(s, what, ok) ==
    told' = IF ok /\ request[s] = "over" THEN told \cup {<<what, s>>} ELSE told

\* handleStop: tierAdapter.Stop does not look into its map.
Stop(s) ==
    /\ status[s] # "none"
    /\ served \in Tiers
    /\ \E ok \in BOOLEAN : AdapterStop(s, ok) /\ Tell(s, "stopped", ok)
    /\ UNCHANGED <<listed, status, request, hungUp, restarted>>

\* DELETE /v1/sandboxes/{id}: the entry goes, whatever the adapter says.
Delete(s) ==
    /\ status[s] # "none"
    /\ served \in Tiers
    /\ \E ok \in BOOLEAN : AdapterDelete(s, ok) /\ Tell(s, "deleted", ok)
    /\ listed' = listed \ {s}
    /\ UNCHANGED <<status, request, hungUp, restarted>>

\* The guest ends by itself, or at last from a signal.
GuestEnds(s) ==
    /\ guest[s] \in {"up", "dying"}
    /\ \E g \in Ends : Guest(s, g)
    /\ UNCHANGED <<listed, status, request, hungUp, killed, told, restarted>>

\* The daemon dies: its contexts kill nothing any more, its map is lost.
Restart ==
    /\ ~restarted
    /\ restarted' = TRUE
    /\ listed' = {}
    /\ request' = [s \in Sandbox |-> IF request[s] = "idle" THEN "idle" ELSE "over"]
    /\ UNCHANGED <<status, hungUp, guest, killed, told>>

Serve ==
    /\ Serves
    /\ \/ \E s \in Sandbox :
            \/ Create(s) \/ StartNothing(s) \/ StartLaunch(s) \/ StartForeground(s)
            \/ StartReturns(s) \/ HangUp(s) \/ HandlerReturns(s)
            \/ Stop(s) \/ Delete(s) \/ GuestEnds(s)
       \/ Restart

Next == Embed \/ Serve

Spec == Init /\ [][Next]_vars

\* Handlers and started commands run on; a signalled guest dies; a client
\* does not wait for ever (the project's own has a timeout).
Fairness ==
    \A s \in Sandbox :
        /\ WF_vars(Serves /\ (StartNothing(s) \/ StartLaunch(s) \/ StartForeground(s)))
        /\ WF_vars(Serves /\ StartReturns(s))
        /\ WF_vars(Serves /\ HandlerReturns(s))
        /\ WF_vars(Serves /\ HangUp(s))
        /\ WF_vars(Serves /\ guest[s] = "dying" /\ GuestEnds(s))

FairSpec == Spec /\ Fairness
-----------------------------------------------------------------------------
(***************************************************************************)
(* Properties.                                                              *)
(***************************************************************************)
TypeOK ==
    /\ registry \subseteq Tiers
    /\ served \in Tiers \cup {"stub", "none"}
    /\ listed \subseteq Sandbox /\ hungUp \subseteq Sandbox /\ killed \subseteq Sandbox
    /\ status \in [Sandbox -> {"none", "running", "failed"}]
    /\ request \in [Sandbox -> {"idle", "created", "waiting", "answered", "over"}]
    /\ guest \in [Sandbox -> {"none", "up", "dying", "exited"}]
    /\ told \subseteq {"stopped", "deleted"} \X Sandbox
    /\ restarted \in BOOLEAN

\* A policy (not NVMS_TIER) has chosen a tier.
Picked ==
    /\ answer.policy \in {"default", "auto", "profile"}
    /\ answer.got.err = "nil"
    /\ answer.policy = "auto" => answer.env.tier \in {"", "auto"}

\* The tier a policy picks is registered and, by the metadata of its own adapter
\* and not only by policy.go's copy, runs on the platform within the budget.
AnswerFits ==
    Picked =>
        /\ answer.got.tier \in ByPlatform(registry, Default(answer.cfg.platform, "", "linux"))
        /\ answer.cfg.budget > 0 => answer.got.tier \in ByStartup(registry, answer.cfg.budget)

\* A policy never regrets: with a larger budget it picks the same tier, and
\* with one more tier registered it still picks one, and none that is slower.
NoRegret ==
    Picked =>
        /\ DefaultSelect([answer.cfg EXCEPT !.budget = 0], registry) = answer.got
        /\ \A n \in Tiers \ registry :
              LET got == DefaultSelect(answer.cfg, registry \cup {n})
              IN  /\ got.err = "nil"
                  /\ Adapter[got.tier].startup <= Adapter[answer.got.tier].startup

\* Code that nobody vouches for, at security level untrusted, gets a tier with
\* hardware isolation, whatever is registered and whatever workload it is.
UntrustedIsolated ==
    Picked /\ answer.cfg.security = "untrusted" /\ ~answer.cfg.trusted
        => answer.got.tier \in BySecurity(registry, "high") \cup BySecurity(registry, "untrusted")

\* With the default registry a policy picks a tier that can be deployed and
\* started: kvm, and seccomp whose Start always refuses, are never picked.
DefaultAnswerStarts ==
    Picked /\ registry = registerDefaultTiers(host.os)
        => "refused" \notin {Adapter[answer.got.tier].deploy, Adapter[answer.got.tier].start}

\* A container plan gets a backend that is there whenever one is, the first of
\* the preferred ones that is; a nanovms plan never gets a container engine
\* (nor anything else: nothing probes for nanovms).
BackendFits ==
    answer.policy = "backend" =>
        IF answer.target = "nanovms" \/ answer.available = {} THEN answer.got.err # "nil"
        ELSE /\ answer.got.tier \in answer.available
             /\ \A i \in DOMAIN answer.preferred : answer.preferred[i] \in answer.available
                    => \E j \in 1 .. i : answer.preferred[j] = answer.got.tier

\* Once a deployment was answered and its context has ended, a guest is still up
\* only on the tiers that hand it to an engine or to init; on the others the
\* end of the request kills it, or has waited for its end.
GuestOutlivesRequest ==
    \A s \in Sandbox : request[s] = "over" /\ guest[s] = "up" /\ ~restarted
        => A.start \in {"daemonized", "detached", "creates"}

\* A client that was told "stopped" has no guest up any more: the tiers whose
\* Stop does nothing are the ones whose Start launches nothing.
StoppedStaysDown ==
    \A s \in Sandbox : <<"stopped", s>> \in told => guest[s] # "up"

\* A client that was told "deleted" has no guest up, although five Deletes do
\* nothing: the request's context has killed theirs, but not if the daemon
\* died in between.
DeletedIsGone ==
    \A s \in Sandbox : <<"deleted", s>> \in told /\ guest[s] = "up"
        => /\ restarted
           /\ served \in {"gvisor", "jail", "sandboxexec", "systemdnspawn", "virtcontainers"}

\* Every deploy request is answered, also on the tiers whose Start lasts as long
\* as the guest: the client's hang-up ends the guest, and that ends Start.
DeployAnswered ==
    \A s \in Sandbox : request[s] = "created" ~> request[s] = "over"

\* What a selection answers, taken together: a policy's tier fits the request and
\* the adapter, could not be beaten, isolates untrusted code and can be started;
\* a backend is there and of the right kind.
SelectionInv ==
    AnswerFits /\ NoRegret /\ UntrustedIsolated /\ DefaultAnswerStarts /\ BackendFits

\* What runs for a sandbox agrees with what its client has been told: by the end
\* of the deploy request, by a stop and by a delete.
GuestInv == TypeOK /\ GuestOutlivesRequest /\ StoppedStaysDown /\ DeletedIsGone

=============================================================================
