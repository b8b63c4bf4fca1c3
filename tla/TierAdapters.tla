---------------------------- MODULE TierAdapters ----------------------------
(***************************************************************************)
(* The thirty tier adapters of pkg/tier, one definition per file.  An       *)
(* adapter is the metadata of its TierInfo that selection reads, and what   *)
(* its five methods do:                                                     *)
(*                                                                          *)
(*   os, needs  the values of runtime.GOOS and the binaries, devices and    *)
(*              kernel features that Probe insists on;                      *)
(*   override   what NVMS_REQUIRE_<TIER> does: "veto" (1 fails the probe),  *)
(*              "force" (0 passes it), "none";                              *)
(*   deploy     "probe" (Probe, then a descriptor), "present" (the same,    *)
(*              but blind to the veto), "image" (the same as "probe", and   *)
(*              an image is required), "refused";                           *)
(*   start      "nothing", "refused", "thread" (restricts the caller),      *)
(*              "child" (cmd.Start under the caller's context),             *)
(*              "foreground" (CombinedOutput of a command that runs as      *)
(*              long as the guest does), "daemonized" (a command that       *)
(*              leaves the guest behind and returns), "detached" (asks an   *)
(*              engine that must know the id), "creates" (asks an engine    *)
(*              that makes the guest when it does not know the id);         *)
(*   stop       "nothing", "pkill" (an error when nothing matches),         *)
(*              "engine" (asks the engine that runs the guest);             *)
(*   delete     "nothing", "stop" (calls Stop), "engine", and "force" (the  *)
(*              engine also removes a running guest).                       *)
(*                                                                          *)
(* Names, descriptions, memory figures and workload hints take part in no   *)
(* decision and are left out.  None of the Deploy methods makes anything:   *)
(* each returns a descriptor with status "running".                         *)
(***************************************************************************)

AnyOS    == {"linux", "darwin", "windows", "freebsd", "openbsd"}
Portable == {"linux", "macos", "windows"}

\* WASM in process: the runtime is only probed.
wasm ==
    [startup |-> 1, security |-> "low", platforms |-> Portable,
     os |-> AnyOS, needs |-> {"wasm runtime"}, override |-> "veto",
     deploy |-> "present", start |-> "nothing", stop |-> "nothing", delete |-> "nothing"]

gvisor ==
    [startup |-> 90, security |-> "medium", platforms |-> {"linux", "macos"},
     os |-> AnyOS, needs |-> {"runsc"}, override |-> "veto",
     deploy |-> "present", start |-> "child", stop |-> "pkill", delete |-> "nothing"]

\* The path that Deploy records is the one Start executes.
firecracker ==
    [startup |-> 125, security |-> "high", platforms |-> {"linux"},
     os |-> AnyOS, needs |-> {"firecracker"}, override |-> "veto",
     deploy |-> "probe", start |-> "child", stop |-> "pkill", delete |-> "stop"]

\* Start restricts the calling thread of the daemon itself.
landlock ==
    [startup |-> 1, security |-> "low", platforms |-> {"linux"},
     os |-> AnyOS, needs |-> {"landlock"}, override |-> "force",
     deploy |-> "probe", start |-> "thread", stop |-> "nothing", delete |-> "nothing"]

\* Start refuses: the filter is not compiled.
seccomp ==
    [startup |-> 1, security |-> "low", platforms |-> {"linux"},
     os |-> AnyOS, needs |-> {"no foreign NVMS_PLATFORM"}, override |-> "force",
     deploy |-> "probe", start |-> "refused", stop |-> "nothing", delete |-> "nothing"]

native ==
    [startup |-> 0, security |-> "low", platforms |-> Portable,
     os |-> AnyOS, needs |-> {}, override |-> "none",
     deploy |-> "probe", start |-> "nothing", stop |-> "nothing", delete |-> "nothing"]

docker ==
    [startup |-> 600, security |-> "medium", platforms |-> Portable,
     os |-> AnyOS, needs |-> {"docker", "docker server"}, override |-> "none",
     deploy |-> "image", start |-> "detached", stop |-> "engine", delete |-> "force"]

podman ==
    [startup |-> 700, security |-> "medium", platforms |-> Portable,
     os |-> AnyOS, needs |-> {"podman", "podman store"}, override |-> "none",
     deploy |-> "image", start |-> "detached", stop |-> "engine", delete |-> "force"]

hyperkit ==
    [startup |-> 400, security |-> "high", platforms |-> {"macos"},
     os |-> {"darwin"}, needs |-> {"hyperkit"}, override |-> "none",
     deploy |-> "probe", start |-> "foreground", stop |-> "pkill", delete |-> "stop"]

applevz ==
    [startup |-> 250, security |-> "high", platforms |-> {"macos"},
     os |-> {"darwin"}, needs |-> {"hv_vmm_present"}, override |-> "none",
     deploy |-> "probe", start |-> "nothing", stop |-> "nothing", delete |-> "nothing"]

lima ==
    [startup |-> 3000, security |-> "high", platforms |-> {"macos", "windows"},
     os |-> AnyOS, needs |-> {"limactl or colima"}, override |-> "none",
     deploy |-> "probe", start |-> "creates", stop |-> "engine", delete |-> "force"]

\* Probe works, Deploy and Start return ErrUnsupported.
kvm ==
    [startup |-> 150, security |-> "high", platforms |-> {"linux"},
     os |-> {"linux"}, needs |-> {"/dev/kvm"}, override |-> "none",
     deploy |-> "refused", start |-> "refused", stop |-> "nothing", delete |-> "nothing"]

qemu ==
    [startup |-> 2000, security |-> "high", platforms |-> Portable,
     os |-> AnyOS, needs |-> {"qemu-system"}, override |-> "none",
     deploy |-> "probe", start |-> "daemonized", stop |-> "pkill", delete |-> "stop"]

cloudhv ==
    [startup |-> 180, security |-> "high", platforms |-> {"linux"},
     os |-> {"linux"}, needs |-> {"cloud-hypervisor"}, override |-> "none",
     deploy |-> "probe", start |-> "foreground", stop |-> "pkill", delete |-> "stop"]

crosvm ==
    [startup |-> 200, security |-> "high", platforms |-> {"linux"},
     os |-> {"linux"}, needs |-> {"crosvm"}, override |-> "none",
     deploy |-> "probe", start |-> "foreground", stop |-> "pkill", delete |-> "stop"]

kata ==
    [startup |-> 250, security |-> "high", platforms |-> {"linux"},
     os |-> AnyOS, needs |-> {"containerd-shim-kata-v2"}, override |-> "veto",
     deploy |-> "probe", start |-> "nothing", stop |-> "nothing", delete |-> "nothing"]

\* `youki delete` refuses a running container.
youki ==
    [startup |-> 30, security |-> "medium", platforms |-> {"linux"},
     os |-> AnyOS, needs |-> {"youki"}, override |-> "none",
     deploy |-> "image", start |-> "foreground", stop |-> "engine", delete |-> "engine"]

systemdnspawn ==
    [startup |-> 100, security |-> "medium", platforms |-> {"linux"},
     os |-> AnyOS, needs |-> {"systemd-nspawn"}, override |-> "none",
     deploy |-> "probe", start |-> "foreground", stop |-> "engine", delete |-> "nothing"]

nitrorekf ==
    [startup |-> 5000, security |-> "untrusted", platforms |-> {"linux"},
     os |-> {"linux"}, needs |-> {"/dev/nitro_enclaves"}, override |-> "none",
     deploy |-> "probe", start |-> "nothing", stop |-> "nothing", delete |-> "nothing"]

sev ==
    [startup |-> 500, security |-> "untrusted", platforms |-> {"linux"},
     os |-> {"linux"}, needs |-> {"/dev/sev"}, override |-> "none",
     deploy |-> "probe", start |-> "nothing", stop |-> "nothing", delete |-> "nothing"]

tdx ==
    [startup |-> 600, security |-> "untrusted", platforms |-> {"linux"},
     os |-> {"linux"}, needs |-> {"/dev/tdx-guest"}, override |-> "none",
     deploy |-> "probe", start |-> "nothing", stop |-> "nothing", delete |-> "nothing"]

kubevirt ==
    [startup |-> 2000, security |-> "high", platforms |-> {"linux"},
     os |-> AnyOS, needs |-> {"/var/run/kubevirt"}, override |-> "none",
     deploy |-> "probe", start |-> "nothing", stop |-> "nothing", delete |-> "nothing"]

virtcontainers ==
    [startup |-> 200, security |-> "medium", platforms |-> {"linux"},
     os |-> AnyOS, needs |-> {"virtcontainers"}, override |-> "none",
     deploy |-> "probe", start |-> "foreground", stop |-> "pkill", delete |-> "nothing"]

jail ==
    [startup |-> 50, security |-> "medium", platforms |-> {"freebsd"},
     os |-> AnyOS, needs |-> {"jail"}, override |-> "none",
     deploy |-> "probe", start |-> "foreground", stop |-> "engine", delete |-> "nothing"]

pledge ==
    [startup |-> 1, security |-> "low", platforms |-> {"openbsd"},
     os |-> AnyOS, needs |-> {"pledge"}, override |-> "none",
     deploy |-> "probe", start |-> "nothing", stop |-> "pkill", delete |-> "nothing"]

sandboxexec ==
    [startup |-> 5, security |-> "low", platforms |-> {"macos"},
     os |-> AnyOS, needs |-> {"sandbox-exec"}, override |-> "none",
     deploy |-> "probe", start |-> "foreground", stop |-> "pkill", delete |-> "nothing"]

gvisordocker ==
    [startup |-> 600, security |-> "medium", platforms |-> {"linux", "macos"},
     os |-> AnyOS, needs |-> {"docker", "runsc"}, override |-> "none",
     deploy |-> "image", start |-> "detached", stop |-> "engine", delete |-> "force"]

wolfi ==
    [startup |-> 50, security |-> "medium", platforms |-> {"linux"},
     os |-> AnyOS, needs |-> {"ID=wolfi"}, override |-> "none",
     deploy |-> "probe", start |-> "nothing", stop |-> "nothing", delete |-> "nothing"]

distroless ==
    [startup |-> 80, security |-> "high", platforms |-> Portable,
     os |-> AnyOS, needs |-> {"docker"}, override |-> "none",
     deploy |-> "image", start |-> "nothing", stop |-> "nothing", delete |-> "nothing"]

userns ==
    [startup |-> 1, security |-> "low", platforms |-> {"linux"},
     os |-> {"linux"}, needs |-> {"uid_map"}, override |-> "none",
     deploy |-> "probe", start |-> "nothing", stop |-> "nothing", delete |-> "nothing"]

(***************************************************************************)
(* What NewXxxAdapter returns, by the name the adapter is registered under. *)
(***************************************************************************)
Adapter ==
    [wasm |-> wasm, gvisor |-> gvisor, firecracker |-> firecracker,
     landlock |-> landlock, seccomp |-> seccomp, native |-> native,
     docker |-> docker, podman |-> podman, hyperkit |-> hyperkit,
     applevz |-> applevz, lima |-> lima, kvm |-> kvm,
     qemu |-> qemu, cloudhv |-> cloudhv, crosvm |-> crosvm,
     kata |-> kata, youki |-> youki, systemdnspawn |-> systemdnspawn,
     nitrorekf |-> nitrorekf, sev |-> sev, tdx |-> tdx,
     kubevirt |-> kubevirt, virtcontainers |-> virtcontainers, jail |-> jail,
     pledge |-> pledge, sandboxexec |-> sandboxexec, gvisordocker |-> gvisordocker,
     wolfi |-> wolfi, distroless |-> distroless, userns |-> userns]

Tiers == DOMAIN Adapter

\* A probe on a host [os, have, veto, force]: its operating system, what is
\* installed on it, and the tiers whose environment override is set.
Present(t, host) == host.os \in Adapter[t].os /\ Adapter[t].needs \subseteq host.have

Probe(t, host) ==
    \/ Adapter[t].override = "force" /\ t \in host.force
    \/ /\ ~(Adapter[t].override = "veto" /\ t \in host.veto)
       /\ Present(t, host)

\* Deploy returns a descriptor, for a config with or without an image.
Deploys(t, host, image) ==
    CASE Adapter[t].deploy = "refused" -> FALSE
      [] Adapter[t].deploy = "present" -> Present(t, host)
      [] Adapter[t].deploy = "probe"   -> Probe(t, host)
      [] Adapter[t].deploy = "image"   -> Probe(t, host) /\ image

\* Whether Start of this tier ever leaves a guest running.
Launches(t) == Adapter[t].start \notin {"nothing", "refused", "thread"}
=============================================================================
