---------------------------- MODULE DaemonProofs ----------------------------
(***************************************************************************)
(* Safety of the daemon's sandbox routes, for any sandboxes, requests, hosts *)
(* and orders of events: over the thirty tier adapters (TierDaemon), and    *)
(* over the Firecracker adapter in detail (SandboxDaemon).                  *)
(***************************************************************************)
EXTENDS TierDaemon, SandboxDaemon, SequenceTheorems, WellFoundedInduction, TLAPS

(***************************************************************************)
(* The table of adapters, reduced to what the proofs need: three kinds of   *)
(* tiers, by what is left to stop and what Stop and Delete do about it.     *)
(***************************************************************************)

\* A tier whose Start leaves nothing that could run on.
LaunchesNothing(t) ==
    /\ Adapter[t].start \in {"nothing", "refused", "thread"}
    /\ Adapter[t].stop \in {"nothing", "pkill"}
    /\ Adapter[t].delete = "nothing"

\* A tier whose Delete leaves the guest to the context of its request.
LeftToContext(t) ==
    /\ Adapter[t].start \in {"child", "foreground"}
    /\ Adapter[t].stop \in {"pkill", "engine"}
    /\ Adapter[t].delete = "nothing"
    /\ t \in {"gvisor", "jail", "sandboxexec", "systemdnspawn", "virtcontainers"}

\* A tier whose Stop and Delete both act on the guest.
TakesDown(t) ==
    /\ Adapter[t].stop \in {"pkill", "engine"}
    /\ Adapter[t].delete \in {"stop", "engine", "force"}

\* The names of the thirty adapters.
LEMMA TierNames ==
    ASSUME NEW t \in Tiers
    PROVE  t \in {"wasm", "gvisor", "firecracker", "landlock", "seccomp", "native",
                  "docker", "podman", "hyperkit", "applevz", "lima", "kvm", "qemu",
                  "cloudhv", "crosvm", "kata", "youki", "systemdnspawn", "nitrorekf", "sev",
                  "tdx", "kubevirt", "virtcontainers", "jail", "pledge", "sandboxexec",
                  "gvisordocker", "wolfi", "distroless", "userns"}
  BY DEF Tiers, Adapter

\* Every adapter is of one of the three kinds: no tier launches a guest that neither
\* its Stop nor its Delete nor the end of the request takes down.
LEMMA TierKinds ==
    ASSUME NEW t \in Tiers
    PROVE  LaunchesNothing(t) \/ LeftToContext(t) \/ TakesDown(t)
<1>1. /\ LaunchesNothing("wasm") /\ LaunchesNothing("landlock") /\ LaunchesNothing("seccomp")
      /\ LaunchesNothing("native") /\ LaunchesNothing("applevz")
  BY DEF LaunchesNothing, Adapter, wasm, landlock, seccomp, native, applevz
<1>2. /\ LaunchesNothing("kvm") /\ LaunchesNothing("kata") /\ LaunchesNothing("nitrorekf")
      /\ LaunchesNothing("sev") /\ LaunchesNothing("tdx")
  BY DEF LaunchesNothing, Adapter, kvm, kata, nitrorekf, sev, tdx
<1>3. /\ LaunchesNothing("kubevirt") /\ LaunchesNothing("pledge") /\ LaunchesNothing("wolfi")
      /\ LaunchesNothing("distroless") /\ LaunchesNothing("userns")
  BY DEF LaunchesNothing, Adapter, kubevirt, pledge, wolfi, distroless, userns
<1>4. /\ LeftToContext("gvisor") /\ LeftToContext("systemdnspawn")
      /\ LeftToContext("virtcontainers") /\ LeftToContext("jail")
      /\ LeftToContext("sandboxexec")
  BY DEF LeftToContext, Adapter, gvisor, systemdnspawn, virtcontainers, jail, sandboxexec
<1>5. /\ TakesDown("firecracker") /\ TakesDown("docker") /\ TakesDown("podman")
      /\ TakesDown("hyperkit") /\ TakesDown("lima")
  BY DEF TakesDown, Adapter, firecracker, docker, podman, hyperkit, lima
<1>6. /\ TakesDown("qemu") /\ TakesDown("cloudhv") /\ TakesDown("crosvm")
      /\ TakesDown("youki") /\ TakesDown("gvisordocker")
  BY DEF TakesDown, Adapter, qemu, cloudhv, crosvm, youki, gvisordocker
<1> QED
  BY TierNames, <1>1, <1>2, <1>3, <1>4, <1>5, <1>6

(***************************************************************************)
(* The inductive invariant.  The three parts of GuestInv say nothing of     *)
(* requests on their way, nor why a guest may be up at all.                 *)
(***************************************************************************)

\* Starts that bring a guest up.
Launch == {"child", "daemonized", "detached", "creates", "foreground"}

\* What runs was launched by an adapter of a tier that launches.
UpWasLaunched ==
    \A s \in Sandbox : guest[s] \in {"up", "dying"} => served \in Tiers /\ A.start \in Launch

\* Before its Create a sandbox has no guest, and no client can name it.
IdleHasNothing ==
    \A s \in Sandbox : request[s] = "idle" => guest[s] = "none" /\ status[s] = "none"

\* Clients are told of sandboxes only after the deployment was answered, when
\* nothing starts a guest any more.
ToldIsOver ==
    \A s \in Sandbox : <<"stopped", s>> \in told \/ <<"deleted", s>> \in told
        => request[s] = "over"

IInv ==
    /\ TypeOK
    /\ UpWasLaunched /\ IdleHasNothing /\ ToldIsOver
    /\ GuestOutlivesRequest /\ StoppedStaysDown /\ DeletedIsGone

\* A program that has just started satisfies the invariant.
LEMMA InitInv == Init => IInv
<1> SUFFICES ASSUME Init PROVE IInv
  OBVIOUS
<1>1. \A os : registerDefaultTiers(os) \subseteq Tiers
  BY DEF registerDefaultTiers
<1>2. served \in Tiers \cup {"stub", "none"}
  <2>1. CASE program = "embedder"
    BY <2>1 DEF Init
  <2>2. CASE program = "daemon"
    BY <1>1, <2>2 DEF Init, NewSandboxPort
  <2>3. CASE program = "library"
    BY <1>1, <2>3 DEF Init
  <2> QED
    BY <2>1, <2>2, <2>3 DEF Init
<1>3. TypeOK
  BY <1>2 DEF Init, TypeOK
<1> QED
  BY <1>3 DEF Init, IInv, UpWasLaunched, IdleHasNothing, ToldIsOver,
              GuestOutlivesRequest, StoppedStaysDown, DeletedIsGone

\* The first of two positions that satisfy something is one of them.
LEMMA FirstOfTwo ==
    ASSUME NEW S, S \subseteq 1 .. 2, S # {}
    PROVE  (CHOOSE i \in S : \A j \in S : i <= j) \in 1 .. 2
<1>1. \A j \in S : j = 1 \/ j = 2
  OBVIOUS
<1>2. \E i \in S : \A j \in S : i <= j
  <2>1. CASE 1 \in S
    <3>1. \A j \in S : 1 <= j
      BY <1>1
    <3> QED
      BY <2>1, <3>1
  <2>2. CASE 1 \notin S
    <3>1. \A j \in S : j = 2
      BY <1>1, <2>2
    <3>2. PICK k \in S : TRUE
      OBVIOUS
    <3> QED
      BY <3>1, <3>2
  <2> QED
    BY <2>1, <2>2
<1> QED
  BY <1>2

\* An embedder registers only tiers there are, and has no sandboxes.
LEMMA EmbedInv == IInv /\ Embed => IInv'
<1> SUFFICES ASSUME IInv, Embed PROVE IInv'
  OBVIOUS
<1>1. registry' \subseteq Tiers
  <2> USE EmbeddedAssumption DEF IInv, TypeOK
  <2>1. ASSUME NEW n \in Embedded, Register(n) PROVE registry' \subseteq Tiers
    BY <2>1 DEF Register
  <2>2. ASSUME NEW n \in Embedded, NEW m \in Embedded, RegisterAll(<<n, m>>)
        PROVE  registry' \subseteq Tiers
    <3> DEFINE names == <<n, m>>
               dup  == {i \in DOMAIN names : \/ names[i] \in registry
                                             \/ \E j \in 1 .. i - 1 : names[j] = names[i]}
               first == CHOOSE i \in dup : \A j \in dup : i <= j
               last == IF dup = {} THEN Len(names) ELSE first - 1
    <3>1. DOMAIN names = 1 .. 2 /\ Len(names) = 2
      OBVIOUS
    <3>2. dup \subseteq 1 .. 2
      BY <3>1
    <3>3. last \in 0 .. 2
      <4> HIDE DEF dup, names
      <4>1. dup # {} => first \in 1 .. 2
        BY <3>2, FirstOfTwo
      <4> HIDE DEF first
      <4> QED
        BY <3>1, <4>1
    <3>4. registry' = registry \cup {names[i] : i \in 1 .. last}
      BY <2>2 DEF RegisterAll
    <3>5. \A i \in 1 .. 2 : names[i] \in Tiers
      OBVIOUS
    <3> HIDE DEF last, names
    <3> QED
      BY <3>3, <3>4, <3>5
  <2>3. CASE DefaultRegistry
    BY <2>3 DEF DefaultRegistry, registerDefaultTiers
  <2> QED
    BY <2>1, <2>2, <2>3 DEF Embed, Select, SelectRuntime
<1>2. UNCHANGED <<served, sandboxes>>
  BY DEF Embed, Embeds
<1> QED
  BY <1>1, <1>2 DEF IInv, TypeOK, UpWasLaunched, IdleHasNothing, ToldIsOver, sandboxes, A,
                    GuestOutlivesRequest, StoppedStaysDown, DeletedIsGone

(***************************************************************************)
(* The steps of the daemon.  Here says that the invariant holds and that    *)
(* the step is one of the daemon's own.                                     *)
(***************************************************************************)
Here == IInv /\ UNCHANGED <<served, registry>>

\* Create makes a descriptor; what an engine may already hold under its name is
\* not running.
LEMMA CreateInv == ASSUME Here, NEW s \in Sandbox, Create(s) PROVE IInv'
<1> USE DEF Here, IInv, TypeOK, UpWasLaunched, IdleHasNothing, ToldIsOver,
            GuestOutlivesRequest, StoppedStaysDown, DeletedIsGone, A
<1>1. PICK g \in {"none", "exited"} : guest' = [guest EXCEPT ![s] = g]
  BY DEF Create, Guest, Ends
<1>2. PICK q \in {"created", "over"} : request' = [request EXCEPT ![s] = q]
  BY DEF Create, To
<1>3. listed' \subseteq Sandbox /\ status' \in [Sandbox -> {"none", "running", "failed"}]
  BY DEF Create
<1>4. \A x \in Sandbox \ {s} : status'[x] = status[x]
  BY DEF Create
<1>5. request[s] = "idle" /\ UNCHANGED <<hungUp, killed, told, restarted>>
  BY DEF Create
<1> QED
  BY <1>1, <1>2, <1>3, <1>4, <1>5

\* Start of a tier that launches nothing brings nothing up.
LEMMA StartNothingInv == ASSUME Here, NEW s \in Sandbox, StartNothing(s) PROVE IInv'
<1> USE DEF Here, IInv, TypeOK, UpWasLaunched, IdleHasNothing, ToldIsOver,
            GuestOutlivesRequest, StoppedStaysDown, DeletedIsGone, A
<1>1. PICK v \in {"running", "failed"} : status' = [status EXCEPT ![s] = v]
  BY DEF StartNothing, StartAnswered
<1> QED
  BY <1>1 DEF StartNothing, StartAnswered, To

\* Start of a tier that launches brings a guest up before the deployment is over.
LEMMA StartLaunchInv == ASSUME Here, NEW s \in Sandbox, StartLaunch(s) PROVE IInv'
<1> USE DEF Here, IInv, TypeOK, UpWasLaunched, IdleHasNothing, ToldIsOver,
            GuestOutlivesRequest, StoppedStaysDown, DeletedIsGone, A, Launch
<1>1. PICK v \in {"running", "failed"} : status' = [status EXCEPT ![s] = v]
  BY DEF StartLaunch, StartAnswered
<1> QED
  BY <1>1 DEF StartLaunch, StartAnswered, To, Guest

\* A Start that waits for its guest keeps the request open while the guest is up.
LEMMA StartForegroundInv == ASSUME Here, NEW s \in Sandbox, StartForeground(s) PROVE IInv'
  BY DEF Here, IInv, TypeOK, UpWasLaunched, IdleHasNothing, ToldIsOver,
         GuestOutlivesRequest, StoppedStaysDown, DeletedIsGone, A, Launch,
         StartForeground, StartAnswered, To, Guest

\* Start comes back only when its guest is gone.
LEMMA StartReturnsInv == ASSUME Here, NEW s \in Sandbox, StartReturns(s) PROVE IInv'
<1> USE DEF Here, IInv, TypeOK, UpWasLaunched, IdleHasNothing, ToldIsOver,
            GuestOutlivesRequest, StoppedStaysDown, DeletedIsGone, A
<1>1. PICK v \in {"running", "failed"} : status' = [status EXCEPT ![s] = v]
  BY DEF StartReturns, StartAnswered
<1> QED
  BY <1>1 DEF StartReturns, StartAnswered, To

\* A hang-up brings no guest up; it signals the one that Start waits for.
LEMMA HangUpInv == ASSUME Here, NEW s \in Sandbox, HangUp(s) PROVE IInv'
  BY DEF Here, IInv, TypeOK, UpWasLaunched, IdleHasNothing, ToldIsOver,
         GuestOutlivesRequest, StoppedStaysDown, DeletedIsGone, A, Launch,
         HangUp, CancelContext, Guest

\* The end of the request signals every guest that was left to its context.
LEMMA HandlerReturnsInv == ASSUME Here, NEW s \in Sandbox, HandlerReturns(s) PROVE IInv'
  BY DEF Here, IInv, TypeOK, UpWasLaunched, IdleHasNothing, ToldIsOver,
         GuestOutlivesRequest, StoppedStaysDown, DeletedIsGone, A, Launch,
         HandlerReturns, CancelContext, Guest, To

\* A guest that ends is not up.
LEMMA GuestEndsInv == ASSUME Here, NEW s \in Sandbox, GuestEnds(s) PROVE IInv'
<1> USE DEF Here, IInv, TypeOK, UpWasLaunched, IdleHasNothing, ToldIsOver,
            GuestOutlivesRequest, StoppedStaysDown, DeletedIsGone, A
<1>1. PICK g \in {"none", "exited"} : guest' = [guest EXCEPT ![s] = g]
  BY DEF GuestEnds, Guest, Ends
<1> QED
  BY <1>1 DEF GuestEnds

\* A restart ends every request; what it leaves up is what DeletedIsGone allows for.
LEMMA RestartInv == ASSUME Here, Restart PROVE IInv'
  BY DEF Here, IInv, TypeOK, UpWasLaunched, IdleHasNothing, ToldIsOver,
         GuestOutlivesRequest, StoppedStaysDown, DeletedIsGone, A, Restart

\* What an adapter's Stop or Delete may do to a guest: nothing brings it up, and
\* no other guest is touched.
Lowers(s) ==
    /\ killed' \subseteq Sandbox
    /\ \E g \in {"none", "up", "dying", "exited"} :
         /\ guest' = [guest EXCEPT ![s] = g]
         /\ g \in {"up", "dying"} => guest[s] \in {"up", "dying"}
         /\ g = "up" => guest[s] = "up"

\* Nothing is done to a guest.
LEMMA LeavesAlone ==
    ASSUME TypeOK, NEW s \in Sandbox, UNCHANGED <<guest, killed>>
    PROVE  Lowers(s)
<1>1. guest' = [guest EXCEPT ![s] = guest[s]] /\ guest[s] \in {"none", "up", "dying", "exited"}
  BY DEF TypeOK
<1> QED
  BY <1>1 DEF Lowers, TypeOK

\* A Stop that reports success has brought the guest down, or there was none.
LEMMA StopEffect ==
    ASSUME IInv, NEW s \in Sandbox, served \in Tiers, NEW ok \in BOOLEAN, AdapterStop(s, ok)
    PROVE  Lowers(s) /\ (ok => guest'[s] # "up")
<1>1. A.stop = "nothing" \/ A.stop = "pkill" \/ A.stop = "engine"
  BY TierKinds DEF LaunchesNothing, LeftToContext, TakesDown, A
<1>2. CASE A.stop = "nothing"
  <2>1. UNCHANGED <<guest, killed>>
    BY <1>2 DEF AdapterStop
  <2>2. guest[s] # "up"
    BY <1>2, TierKinds DEF LaunchesNothing, LeftToContext, TakesDown, A, IInv, UpWasLaunched, Launch
  <2> QED
    BY <2>1, <2>2, LeavesAlone DEF IInv
<1>3. CASE A.stop = "pkill"
  <2>1. CASE guest[s] \in {"up", "dying"}
    BY <1>3, <2>1 DEF AdapterStop, Guest, Lowers, IInv, TypeOK
  <2>2. CASE guest[s] \notin {"up", "dying"}
    BY <1>3, <2>2, LeavesAlone DEF AdapterStop, IInv
  <2> QED
    BY <2>1, <2>2
<1>4. CASE A.stop = "engine"
  <2>1. CASE /\ guest[s] = "up" /\ killed' = killed \cup {s}
             /\ \E g \in Ends \cup {"dying"} : Guest(s, g)
    BY <2>1 DEF Guest, Ends, Lowers, IInv, TypeOK
  <2>2. CASE /\ ~ok \/ guest[s] \in {"dying", "exited"}
             /\ UNCHANGED <<guest, killed>>
    BY <2>2, LeavesAlone DEF IInv
  <2> QED
    BY <1>4, <2>1, <2>2 DEF AdapterStop
<1> QED
  BY <1>1, <1>2, <1>3, <1>4

\* A Delete that reports success has brought the guest down, unless the tier leaves
\* that to a context that the daemon's death has made void.
LEMMA DeleteEffect ==
    ASSUME IInv, NEW s \in Sandbox, served \in Tiers, NEW ok \in BOOLEAN, AdapterDelete(s, ok)
    PROVE  /\ Lowers(s)
           /\ ok /\ request[s] = "over" /\ guest'[s] = "up" => restarted /\ LeftToContext(served)
<1>1. \/ A.delete = "nothing" \/ A.delete = "stop" \/ A.delete = "engine" \/ A.delete = "force"
  BY TierKinds DEF LaunchesNothing, LeftToContext, TakesDown, A
<1>2. CASE A.delete = "nothing"
  <2>1. UNCHANGED <<guest, killed>>
    BY <1>2 DEF AdapterDelete
  <2>2. guest[s] = "up" => LeftToContext(served)
    BY <1>2, TierKinds DEF LaunchesNothing, TakesDown, A, IInv, UpWasLaunched, Launch
  <2>3. LeftToContext(served) /\ guest[s] = "up" /\ request[s] = "over" => restarted
    BY DEF LeftToContext, A, IInv, TypeOK, GuestOutlivesRequest
  <2> QED
    BY <2>1, <2>2, <2>3, LeavesAlone DEF IInv
<1>3. CASE A.delete = "stop"
  BY <1>3, StopEffect DEF AdapterDelete
<1>4. CASE A.delete = "engine"
  <2>1. CASE UNCHANGED <<guest, killed>> /\ ~ok
    BY <2>1, LeavesAlone DEF IInv
  <2>2. CASE ok /\ guest[s] \in {"none", "exited"} /\ Guest(s, "none") /\ UNCHANGED killed
    BY <2>2 DEF Guest, Lowers, IInv, TypeOK
  <2> QED
    BY <1>4, <2>1, <2>2 DEF AdapterDelete
<1>5. CASE A.delete = "force"
  <2>1. CASE UNCHANGED <<guest, killed>> /\ ~ok
    BY <2>1, LeavesAlone DEF IInv
  <2>2. CASE ok /\ Guest(s, "none") /\ killed' = killed \cup {s}
    BY <2>2 DEF Guest, Lowers, IInv, TypeOK
  <2> QED
    BY <1>5, <2>1, <2>2 DEF AdapterDelete
<1> QED
  BY <1>1, <1>2, <1>3, <1>4, <1>5

\* A stop request keeps the invariant.
LEMMA StopInv == ASSUME Here, NEW s \in Sandbox, Stop(s) PROVE IInv'
<1>1. PICK ok \in BOOLEAN : AdapterStop(s, ok) /\ Tell(s, "stopped", ok)
  BY DEF Stop
<1>2. IInv /\ served \in Tiers /\ UNCHANGED <<served, registry>>
  BY DEF Stop, Here
<1>3. UNCHANGED <<listed, status, request, hungUp, restarted>> /\ status[s] # "none"
  BY DEF Stop
<1>4. Lowers(s) /\ (ok => guest'[s] # "up")
  BY <1>1, <1>2, StopEffect
<1>5. /\ told' = told \/ told' = told \cup {<<"stopped", s>>}
      /\ told' # told => ok /\ request[s] = "over"
  BY <1>1 DEF Tell
<1> QED
  BY <1>2, <1>3, <1>4, <1>5
     DEF Lowers, IInv, TypeOK, UpWasLaunched, IdleHasNothing, ToldIsOver, A,
         GuestOutlivesRequest, StoppedStaysDown, DeletedIsGone

\* So does a delete request.
LEMMA DeleteInv == ASSUME Here, NEW s \in Sandbox, Delete(s) PROVE IInv'
<1>1. PICK ok \in BOOLEAN : AdapterDelete(s, ok) /\ Tell(s, "deleted", ok)
  BY DEF Delete
<1>2. IInv /\ served \in Tiers /\ UNCHANGED <<served, registry>>
  BY DEF Delete, Here
<1>3. /\ UNCHANGED <<status, request, hungUp, restarted>> /\ status[s] # "none"
      /\ listed' \subseteq listed
  BY DEF Delete
<1>4. /\ Lowers(s)
      /\ ok /\ request[s] = "over" /\ guest'[s] = "up" => restarted /\ LeftToContext(served)
  BY <1>1, <1>2, DeleteEffect
<1>5. /\ told' = told \/ told' = told \cup {<<"deleted", s>>}
      /\ told' # told => ok /\ request[s] = "over"
  BY <1>1 DEF Tell
<1> QED
  BY <1>2, <1>3, <1>4, <1>5
     DEF Lowers, IInv, TypeOK, UpWasLaunched, IdleHasNothing, ToldIsOver, A, LeftToContext,
         GuestOutlivesRequest, StoppedStaysDown, DeletedIsGone

\* Every step of a program keeps the invariant.
LEMMA StepInv == IInv /\ [Next]_vars => IInv'
<1> SUFFICES ASSUME IInv, [Next]_vars PROVE IInv'
  OBVIOUS
<1>1. CASE UNCHANGED vars
  BY <1>1 DEF vars, selection, sandboxes, IInv, TypeOK, UpWasLaunched, IdleHasNothing, ToldIsOver, A,
              GuestOutlivesRequest, StoppedStaysDown, DeletedIsGone
<1>2. CASE Embed
  BY <1>2, EmbedInv
<1>3. CASE Serve
  <2>1. Here
    BY <1>3 DEF Here, Serve, Serves, selection
  <2> QED
    BY <1>3, <2>1, CreateInv, StartNothingInv, StartLaunchInv, StartForegroundInv,
       StartReturnsInv, HangUpInv, HandlerReturnsInv, StopInv, DeleteInv, GuestEndsInv, RestartInv
       DEF Serve
<1> QED
  BY <1>1, <1>2, <1>3 DEF Next

\* The invariant holds in every state of a program over the tiers.
THEOREM TierInvariant == Spec => []IInv
  BY InitInv, StepInv, PTL DEF Spec

\* What runs for a sandbox agrees with what its client has been told, whatever tier
\* is served and however deploys, hang-ups, stops, deletes, the guest's own end and
\* a restart of the daemon interleave: handleDeploy, handleStop and the delete route
\* over the thirty adapters.
THEOREM GuestCorrect == Spec => []GuestInv
  BY TierInvariant, PTL DEF IInv, GuestInv

-----------------------------------------------------------------------------
(***************************************************************************)
(* Selection.  First the facts about the tables: policy.go's copy of the    *)
(* adapters' metadata agrees with theirs, names are ranked without ties,    *)
(* and what the candidate lists may hold.                                   *)
(***************************************************************************)
SameInfo(t) ==
    allTiers[t] = Info(Adapter[t].startup, Adapter[t].security, Adapter[t].platforms)

\* The policy's copy of what it reads of an adapter is exact.
LEMMA TierCopies == ASSUME NEW t \in Tiers PROVE SameInfo(t)
<1>1. SameInfo("wasm")
  <2>1. Adapter["wasm"] = wasm
    BY DEF Adapter
  <2>2. wasm.startup = 1 /\ wasm.security = "low" /\ wasm.platforms = Portable
    BY DEF wasm
  <2>3. allTiers["wasm"] = Info(1, "low", Portable)
    BY DEF allTiers
  <2> QED
    BY <2>1, <2>2, <2>3 DEF SameInfo
<1>2. SameInfo("gvisor")
  BY DEF SameInfo, allTiers, Adapter, gvisor
<1>3. SameInfo("firecracker")
  BY DEF SameInfo, allTiers, Adapter, firecracker
<1>4. SameInfo("landlock")
  BY DEF SameInfo, allTiers, Adapter, landlock
<1>5. SameInfo("seccomp")
  <2>1. Adapter["seccomp"] = seccomp
    BY DEF Adapter
  <2>2. seccomp.startup = 1 /\ seccomp.security = "low" /\ seccomp.platforms = {"linux"}
    BY DEF seccomp
  <2>3. allTiers["seccomp"] = Info(1, "low", {"linux"})
    BY DEF allTiers
  <2> QED
    BY <2>1, <2>2, <2>3 DEF SameInfo
<1>6. SameInfo("native")
  BY DEF SameInfo, allTiers, Adapter, native
<1>7. SameInfo("docker")
  <2>1. Adapter["docker"] = docker
    BY DEF Adapter
  <2>2. docker.startup = 600 /\ docker.security = "medium" /\ docker.platforms = Portable
    BY DEF docker
  <2>3. allTiers["docker"] = Info(600, "medium", Portable)
    BY DEF allTiers
  <2> QED
    BY <2>1, <2>2, <2>3 DEF SameInfo
<1>8. SameInfo("podman")
  <2>1. Adapter["podman"] = podman
    BY DEF Adapter
  <2>2. podman.startup = 700 /\ podman.security = "medium" /\ podman.platforms = Portable
    BY DEF podman
  <2>3. allTiers["podman"] = Info(700, "medium", Portable)
    BY DEF allTiers
  <2> QED
    BY <2>1, <2>2, <2>3 DEF SameInfo
<1>9. SameInfo("hyperkit")
  BY DEF SameInfo, allTiers, Adapter, hyperkit
<1>10. SameInfo("applevz")
  BY DEF SameInfo, allTiers, Adapter, applevz
<1>11. SameInfo("lima")
  <2>1. Adapter["lima"] = lima
    BY DEF Adapter
  <2>2. lima.startup = 3000 /\ lima.security = "high" /\ lima.platforms = {"macos", "windows"}
    BY DEF lima
  <2>3. allTiers["lima"] = Info(3000, "high", {"macos", "windows"})
    BY DEF allTiers
  <2> QED
    BY <2>1, <2>2, <2>3 DEF SameInfo
<1>12. SameInfo("kvm")
  BY DEF SameInfo, allTiers, Adapter, kvm
<1>13. SameInfo("qemu")
  BY DEF SameInfo, allTiers, Adapter, qemu
<1>14. SameInfo("cloudhv")
  BY DEF SameInfo, allTiers, Adapter, cloudhv
<1>15. SameInfo("crosvm")
  BY DEF SameInfo, allTiers, Adapter, crosvm
<1>16. SameInfo("kata")
  BY DEF SameInfo, allTiers, Adapter, kata
<1>17. SameInfo("youki")
  BY DEF SameInfo, allTiers, Adapter, youki
<1>18. SameInfo("systemdnspawn")
  BY DEF SameInfo, allTiers, Adapter, systemdnspawn
<1>19. SameInfo("nitrorekf")
  BY DEF SameInfo, allTiers, Adapter, nitrorekf
<1>20. SameInfo("sev")
  BY DEF SameInfo, allTiers, Adapter, sev
<1>21. SameInfo("tdx")
  BY DEF SameInfo, allTiers, Adapter, tdx
<1>22. SameInfo("kubevirt")
  BY DEF SameInfo, allTiers, Adapter, kubevirt
<1>23. SameInfo("virtcontainers")
  BY DEF SameInfo, allTiers, Adapter, virtcontainers
<1>24. SameInfo("jail")
  BY DEF SameInfo, allTiers, Adapter, jail
<1>25. SameInfo("pledge")
  BY DEF SameInfo, allTiers, Adapter, pledge
<1>26. SameInfo("sandboxexec")
  BY DEF SameInfo, allTiers, Adapter, sandboxexec
<1>27. SameInfo("gvisordocker")
  BY DEF SameInfo, allTiers, Adapter, gvisordocker
<1>28. SameInfo("wolfi")
  BY DEF SameInfo, allTiers, Adapter, wolfi
<1>29. SameInfo("distroless")
  BY DEF SameInfo, allTiers, Adapter, distroless
<1>30. SameInfo("userns")
  BY DEF SameInfo, allTiers, Adapter, userns
<1> QED
  BY TierNames, <1>1, <1>2, <1>3, <1>4, <1>5, <1>6, <1>7, <1>8, <1>9, <1>10, <1>11,
     <1>12, <1>13, <1>14, <1>15, <1>16, <1>17, <1>18, <1>19, <1>20, <1>21, <1>22, <1>23,
     <1>24, <1>25, <1>26, <1>27, <1>28, <1>29, <1>30

\* Every tier has a rank, and no two have the same.
LEMMA TierRanks ==
    ASSUME NEW t \in Tiers
    PROVE  NameRank(t) \in Nat /\ CanonicalTierNames[NameRank(t)] = t
<1>1. DOMAIN CanonicalTierNames = 1 .. 30
  BY DEF CanonicalTierNames
<1>2. \E i \in 1 .. 30 : CanonicalTierNames[i] = t
  <2>1. /\ CanonicalTierNames[1] = "applevz" /\ CanonicalTierNames[2] = "cloudhv"
        /\ CanonicalTierNames[3] = "crosvm" /\ CanonicalTierNames[4] = "distroless"
        /\ CanonicalTierNames[5] = "docker" /\ CanonicalTierNames[6] = "firecracker"
    BY DEF CanonicalTierNames
  <2>2. /\ CanonicalTierNames[7] = "gvisor" /\ CanonicalTierNames[8] = "gvisordocker"
        /\ CanonicalTierNames[9] = "hyperkit" /\ CanonicalTierNames[10] = "jail"
        /\ CanonicalTierNames[11] = "kata" /\ CanonicalTierNames[12] = "kubevirt"
    BY DEF CanonicalTierNames
  <2>3. /\ CanonicalTierNames[13] = "kvm" /\ CanonicalTierNames[14] = "landlock"
        /\ CanonicalTierNames[15] = "lima" /\ CanonicalTierNames[16] = "native"
        /\ CanonicalTierNames[17] = "nitrorekf" /\ CanonicalTierNames[18] = "pledge"
    BY DEF CanonicalTierNames
  <2>4. /\ CanonicalTierNames[19] = "podman" /\ CanonicalTierNames[20] = "qemu"
        /\ CanonicalTierNames[21] = "sandboxexec" /\ CanonicalTierNames[22] = "seccomp"
        /\ CanonicalTierNames[23] = "sev" /\ CanonicalTierNames[24] = "systemdnspawn"
    BY DEF CanonicalTierNames
  <2>5. /\ CanonicalTierNames[25] = "tdx" /\ CanonicalTierNames[26] = "userns"
        /\ CanonicalTierNames[27] = "virtcontainers" /\ CanonicalTierNames[28] = "wasm"
        /\ CanonicalTierNames[29] = "wolfi" /\ CanonicalTierNames[30] = "youki"
    BY DEF CanonicalTierNames
  <2> QED
    BY TierNames, <2>1, <2>2, <2>3, <2>4, <2>5
<1> QED
  BY <1>1, <1>2 DEF NameRank

\* "landlock" comes before "seccomp".
LEMMA LandlockFirst == NameRank("landlock") = 14 /\ NameRank("seccomp") = 22
<1>1. DOMAIN CanonicalTierNames = 1 .. 30
  BY DEF CanonicalTierNames
<1>2. \A i \in 1 .. 30 : (CanonicalTierNames[i] = "landlock" <=> i = 14)
                         /\ (CanonicalTierNames[i] = "seccomp" <=> i = 22)
  BY DEF CanonicalTierNames
<1> QED
  BY <1>1, <1>2 DEF NameRank

\* Startup times are natural numbers.
LEMMA TierTimes == ASSUME NEW t \in Tiers PROVE allTiers[t].startup \in Nat
<1>1. /\ allTiers["wasm"].startup = 1 /\ allTiers["gvisor"].startup = 90
      /\ allTiers["firecracker"].startup = 125 /\ allTiers["landlock"].startup = 1
      /\ allTiers["seccomp"].startup = 1 /\ allTiers["native"].startup = 0
  BY DEF allTiers, Info
<1>2. /\ allTiers["docker"].startup = 600 /\ allTiers["podman"].startup = 700
      /\ allTiers["hyperkit"].startup = 400 /\ allTiers["applevz"].startup = 250
      /\ allTiers["lima"].startup = 3000 /\ allTiers["kvm"].startup = 150
  BY DEF allTiers, Info
<1>3. /\ allTiers["qemu"].startup = 2000 /\ allTiers["cloudhv"].startup = 180
      /\ allTiers["crosvm"].startup = 200 /\ allTiers["kata"].startup = 250
      /\ allTiers["youki"].startup = 30 /\ allTiers["systemdnspawn"].startup = 100
  BY DEF allTiers, Info
<1>4. /\ allTiers["nitrorekf"].startup = 5000 /\ allTiers["sev"].startup = 500
      /\ allTiers["tdx"].startup = 600 /\ allTiers["kubevirt"].startup = 2000
      /\ allTiers["virtcontainers"].startup = 200 /\ allTiers["jail"].startup = 50
  BY DEF allTiers, Info
<1>5. /\ allTiers["pledge"].startup = 1 /\ allTiers["sandboxexec"].startup = 5
      /\ allTiers["gvisordocker"].startup = 600 /\ allTiers["wolfi"].startup = 50
      /\ allTiers["distroless"].startup = 80 /\ allTiers["userns"].startup = 1
  BY DEF allTiers, Info
<1> QED
  BY TierNames, <1>1, <1>2, <1>3, <1>4, <1>5

\* The policy's figures are the adapter's.
LEMMA TierFigures ==
    ASSUME NEW t \in Tiers
    PROVE  /\ allTiers[t].startup = Adapter[t].startup
           /\ allTiers[t].platforms = Adapter[t].platforms
<1>1. allTiers[t] = Info(Adapter[t].startup, Adapter[t].security, Adapter[t].platforms)
  BY TierCopies DEF SameInfo
<1> QED
  BY <1>1 DEF Info

(***************************************************************************)
(* The sort of the candidates: the order is strict and total, so a set of   *)
(* tiers that is not empty has exactly one first.                           *)
(***************************************************************************)

\* A set of natural numbers that is not empty has a least one.
LEMMA LeastNumber ==
    ASSUME NEW S \in SUBSET Nat, S # {}
    PROVE  \E m \in S : \A k \in S : m <= k
<1>1. PICK m \in S : \A k \in S : ~(<<k, m>> \in OpToRel(<, Nat))
  BY NatLessThanWellFounded, WFMin
<1>2. \A k \in S : ~(k < m)
  BY <1>1 DEF OpToRel
<1> QED
  BY <1>2

\* Of two tiers not both are faster than the other.
LEMMA FasterOneWay ==
    ASSUME NEW c \in Tiers, NEW d \in Tiers, Faster(c, d)
    PROVE  ~Faster(d, c)
  BY TierTimes, TierRanks DEF Faster

\* The first of the sorted candidates is one of them and before all others.
LEMMA FirstIsFastest ==
    ASSUME NEW S \in SUBSET Tiers, S # {}
    PROVE  First(S) \in S /\ \A d \in S \ {First(S)} : Faster(First(S), d)
<1> DEFINE times == {allTiers[t].startup : t \in S}
<1>1. times \in SUBSET Nat /\ times # {}
  BY TierTimes
<1>2. PICK m \in times : \A k \in times : m <= k
  <2> HIDE DEF times
  <2> QED
    BY <1>1, LeastNumber
<1> DEFINE ranks == {NameRank(t) : t \in {u \in S : allTiers[u].startup = m}}
<1>3. ranks \in SUBSET Nat /\ ranks # {}
  BY <1>2, TierRanks
<1>4. PICK r \in ranks : \A k \in ranks : r <= k
  <2> HIDE DEF ranks
  <2> QED
    BY <1>3, LeastNumber
<1>5. PICK c \in S : allTiers[c].startup = m /\ NameRank(c) = r
  BY <1>4
<1>6. \A d \in S \ {c} : Faster(c, d)
  <2> SUFFICES ASSUME NEW d \in S, d # c PROVE Faster(c, d)
    OBVIOUS
  <2>1. m \in Nat /\ allTiers[d].startup \in Nat /\ m <= allTiers[d].startup
    BY <1>1, <1>2, TierTimes
  <2>2. CASE allTiers[d].startup # m
    BY <2>1, <2>2, <1>5 DEF Faster
  <2>3. CASE allTiers[d].startup = m
    <3>1. r <= NameRank(d) /\ r \in Nat /\ NameRank(d) \in Nat
      BY <2>3, <1>4, <1>3, TierRanks
    <3>2. NameRank(d) # r
      BY <1>5, TierRanks
    <3> QED
      BY <2>3, <3>1, <3>2, <1>5 DEF Faster
  <2> QED
    BY <2>2, <2>3
<1> QED
  BY <1>5, <1>6 DEF First

\* Whatever is before all others is the first.
LEMMA FirstIsOnly ==
    ASSUME NEW S \in SUBSET Tiers, NEW c \in S, \A d \in S \ {c} : Faster(c, d)
    PROVE  First(S) = c
<1>1. First(S) \in S /\ \A d \in S \ {First(S)} : Faster(First(S), d)
  BY FirstIsFastest
<1> QED
  BY <1>1, FasterOneWay

(***************************************************************************)
(* What DefaultPolicy answers.                                              *)
(***************************************************************************)

\* A configuration, whatever its strings are.
IsConfig(c) ==
    /\ c = [security |-> c.security, platform |-> c.platform, workload |-> c.workload,
            trusted |-> c.trusted, budget |-> c.budget]
    /\ c.trusted \in BOOLEAN /\ c.budget \in Int

\* Only registered candidates are sorted, and those within the budget are some of them.
LEMMA CandidateSets ==
    ASSUME NEW cfg, NEW R \in SUBSET Tiers
    PROVE  within(cfg, R) \subseteq filtered(cfg, R) /\ filtered(cfg, R) \subseteq R
  BY DEF within, filtered

\* A tier is answered when some candidate is within the budget: the first of them.
LEMMA DefaultAnswer ==
    ASSUME NEW cfg, NEW R \in SUBSET Tiers
    PROVE  /\ DefaultSelect(cfg, R).err = "nil" <=> within(cfg, R) # {}
           /\ within(cfg, R) # {} =>
                /\ DefaultSelect(cfg, R) = Chosen(First(within(cfg, R)))
                /\ DefaultSelect(cfg, R).tier = First(within(cfg, R))
                /\ First(within(cfg, R)) \in within(cfg, R)
                /\ \A d \in within(cfg, R) \ {First(within(cfg, R))} :
                      Faster(First(within(cfg, R)), d)
<1>1. within(cfg, R) \subseteq filtered(cfg, R) /\ within(cfg, R) \in SUBSET Tiers
  BY CandidateSets
<1>2. CASE within(cfg, R) = {}
  <2>1. DefaultSelect(cfg, R).err # "nil"
    BY <1>2 DEF DefaultSelect, Refused
  <2> QED
    BY <1>2, <2>1
<1>3. CASE within(cfg, R) # {}
  <2>1. DefaultSelect(cfg, R) = Chosen(First(within(cfg, R)))
    BY <1>1, <1>3 DEF DefaultSelect
  <2>2. DefaultSelect(cfg, R).err = "nil" /\ DefaultSelect(cfg, R).tier = First(within(cfg, R))
    BY <2>1 DEF Chosen
  <2> QED
    BY <1>1, <1>3, <2>1, <2>2, FirstIsFastest
<1> QED
  BY <1>2, <1>3

\* The tier that is answered runs on the platform within the budget.
LEMMA DefaultFits ==
    ASSUME NEW cfg, IsConfig(cfg), NEW R \in SUBSET Tiers, DefaultSelect(cfg, R).err = "nil"
    PROVE  LET t == DefaultSelect(cfg, R).tier
           IN  /\ t \in ByPlatform(R, Default(cfg.platform, "", "linux"))
               /\ cfg.budget > 0 => t \in ByStartup(R, cfg.budget)
<1> DEFINE t == DefaultSelect(cfg, R).tier
<1>1. t \in within(cfg, R)
  BY DefaultAnswer
<1>2. t \in R /\ t \in Tiers
  BY <1>1, CandidateSets
<1>3. /\ platformMatches(allTiers[t].platforms, Default(cfg.platform, "", "linux"))
      /\ WithinBudget(t, cfg.budget)
  <2> HIDE DEF t
  <2> QED
    BY <1>1 DEF within, filtered
<1>4. allTiers[t].startup = Adapter[t].startup /\ allTiers[t].platforms = Adapter[t].platforms
  BY <1>2, TierFigures
<1>5. cfg.budget \in Int
  BY DEF IsConfig
<1> HIDE DEF t
<1>6. t \in ByPlatform(R, Default(cfg.platform, "", "linux"))
  BY <1>2, <1>3, <1>4 DEF ByPlatform
<1>7. cfg.budget > 0 => t \in ByStartup(R, cfg.budget)
  <2>1. WithinBudget(t, cfg.budget)
    BY <1>3
  <2>2. allTiers[t].startup \in Nat
    BY <1>2, TierTimes
  <2>3. cfg.budget > 0 => allTiers[t].startup <= cfg.budget
    BY <2>1, <2>2, <1>5 DEF WithinBudget
  <2> QED
    BY <1>2, <1>4, <2>3 DEF ByStartup
<1> QED
  BY <1>6, <1>7 DEF t

\* The budget takes no candidate away that could have been first: without it the
\* same tier is answered.
LEMMA BudgetNoRegret ==
    ASSUME NEW cfg, IsConfig(cfg), NEW R \in SUBSET Tiers, DefaultSelect(cfg, R).err = "nil"
    PROVE  DefaultSelect([cfg EXCEPT !.budget = 0], R) = DefaultSelect(cfg, R)
<1> DEFINE free == [cfg EXCEPT !.budget = 0]
           c == First(within(cfg, R))
<1>1. /\ free.security = cfg.security /\ free.platform = cfg.platform
      /\ free.workload = cfg.workload /\ free.trusted = cfg.trusted /\ free.budget = 0
  BY DEF IsConfig
<1> HIDE DEF free
<1>2. filtered(free, R) = filtered(cfg, R)
  BY <1>1 DEF filtered
<1>3. within(free, R) = filtered(cfg, R)
  BY <1>1, <1>2 DEF within, WithinBudget
<1>4. /\ within(cfg, R) # {} /\ DefaultSelect(cfg, R) = Chosen(c)
      /\ c \in within(cfg, R) /\ \A d \in within(cfg, R) \ {c} : Faster(c, d)
  BY DefaultAnswer
<1>5. c \in filtered(cfg, R) /\ filtered(cfg, R) \in SUBSET Tiers
  BY <1>4, CandidateSets
<1>6. \A d \in filtered(cfg, R) \ {c} : Faster(c, d)
  <2> SUFFICES ASSUME NEW d \in filtered(cfg, R), d # c PROVE Faster(c, d)
    OBVIOUS
  <2>1. CASE d \in within(cfg, R)
    BY <1>4, <2>1
  <2>2. CASE d \notin within(cfg, R)
    <3>1. ~WithinBudget(d, cfg.budget) /\ WithinBudget(c, cfg.budget)
      BY <1>4, <2>2 DEF within
    <3>2. cfg.budget \in Int /\ allTiers[c].startup \in Nat /\ allTiers[d].startup \in Nat
      BY <1>5, TierTimes DEF IsConfig
    <3> QED
      BY <3>1, <3>2 DEF WithinBudget, Faster
  <2> QED
    BY <2>1, <2>2
<1>7. First(filtered(cfg, R)) = c
  BY <1>5, <1>6, FirstIsOnly
<1>8. DefaultSelect(free, R) = Chosen(First(within(free, R)))
  BY <1>3, <1>5, DefaultAnswer
<1> QED
  BY <1>3, <1>4, <1>7, <1>8 DEF free

\* One more registered tier never makes the answer an error, nor a slower tier.
LEMMA RegistryNoRegret ==
    ASSUME NEW cfg, IsConfig(cfg), NEW R \in SUBSET Tiers, DefaultSelect(cfg, R).err = "nil",
           NEW n \in Tiers
    PROVE  LET got == DefaultSelect(cfg, R \cup {n})
           IN  /\ got.err = "nil"
               /\ Adapter[got.tier].startup <= Adapter[DefaultSelect(cfg, R).tier].startup
<1> DEFINE c == First(within(cfg, R))
           Q == R \cup {n}
           d == First(within(cfg, Q))
<1>1. within(cfg, R) # {} /\ DefaultSelect(cfg, R).tier = c /\ c \in within(cfg, R)
  BY DefaultAnswer
<1>2. c \in within(cfg, Q) /\ Q \in SUBSET Tiers
  <2> HIDE DEF c
  <2> QED
    BY <1>1 DEF within, filtered
<1>3. /\ DefaultSelect(cfg, Q).err = "nil" /\ DefaultSelect(cfg, Q).tier = d
      /\ d \in within(cfg, Q) /\ \A e \in within(cfg, Q) \ {d} : Faster(d, e)
  BY <1>2, DefaultAnswer
<1>4. c \in Tiers /\ d \in Tiers
  BY <1>1, <1>2, <1>3, CandidateSets
<1>5. /\ allTiers[c].startup = Adapter[c].startup /\ allTiers[d].startup = Adapter[d].startup
      /\ allTiers[c].startup \in Nat /\ allTiers[d].startup \in Nat
  BY <1>4, TierFigures, TierTimes
<1>6. d = c \/ Faster(d, c)
  BY <1>2, <1>3
<1>7. Adapter[d].startup <= Adapter[c].startup
  BY <1>5, <1>6 DEF Faster
<1> QED
  BY <1>1, <1>3, <1>7

\* At level "untrusted" the lists of the three platforms hold these tiers only.
UntrustedTiers ==
    {"applevz", "qemu", "lima", "firecracker", "cloudhv", "sev", "tdx", "nitrorekf", "kubevirt"}

\* All of them isolate in hardware, by their own adapters' metadata.
LEMMA UntrustedLevels ==
    ASSUME NEW t \in UntrustedTiers
    PROVE  Adapter[t].security \in {"high", "untrusted"}
<1>1. /\ Adapter["applevz"].security = "high" /\ Adapter["qemu"].security = "high"
      /\ Adapter["lima"].security = "high"
  BY DEF Adapter, applevz, qemu, lima
<1>2. /\ Adapter["firecracker"].security = "high" /\ Adapter["cloudhv"].security = "high"
      /\ Adapter["kubevirt"].security = "high"
  BY DEF Adapter, firecracker, cloudhv, kubevirt
<1>3. /\ Adapter["sev"].security = "untrusted" /\ Adapter["tdx"].security = "untrusted"
      /\ Adapter["nitrorekf"].security = "untrusted"
  BY DEF Adapter, sev, tdx, nitrorekf
<1> QED
  BY <1>1, <1>2, <1>3 DEF UntrustedTiers

\* Untrusted code at level "untrusted" has no other candidate.
LEMMA UntrustedCandidates ==
    ASSUME NEW platform, NEW workload
    PROVE  defaultCandidates("untrusted", platform, workload, FALSE) \subseteq UntrustedTiers
<1>1. /\ MacOrder["untrusted"] \subseteq UntrustedTiers
      /\ "untrusted" \in DOMAIN MacOrder
  BY DEF MacOrder, UntrustedTiers
<1>2. /\ WindowsOrder["untrusted"] \subseteq UntrustedTiers
      /\ "untrusted" \in DOMAIN WindowsOrder
  BY DEF WindowsOrder, UntrustedTiers
<1>3. /\ LinuxOrder["untrusted"] \subseteq UntrustedTiers
      /\ "untrusted" \in DOMAIN LinuxOrder
  BY DEF LinuxOrder, UntrustedTiers
<1>4. ~InProcess(workload, FALSE)
  BY DEF InProcess
<1> QED
  BY <1>1, <1>2, <1>3, <1>4 DEF defaultCandidates

\* The tier that is answered for untrusted code isolates in hardware.
LEMMA DefaultIsolates ==
    ASSUME NEW cfg, IsConfig(cfg), NEW R \in SUBSET Tiers, DefaultSelect(cfg, R).err = "nil",
           cfg.security = "untrusted", ~cfg.trusted
    PROVE  DefaultSelect(cfg, R).tier \in BySecurity(R, "high") \cup BySecurity(R, "untrusted")
<1> DEFINE t == DefaultSelect(cfg, R).tier
<1>1. t \in filtered(cfg, R) /\ t \in R
  BY DefaultAnswer, CandidateSets
<1> HIDE DEF t
<1>2. cfg.trusted = FALSE
  BY DEF IsConfig
<1>3. Default(cfg.security, "", "medium") = "untrusted"
  BY DEF Default
<1>4. \E platform, workload :
         t \in defaultCandidates("untrusted", platform, workload, FALSE)
  BY <1>1, <1>2, <1>3 DEF filtered
<1>5. t \in UntrustedTiers
  BY <1>4, UntrustedCandidates
<1> QED
  BY <1>1, <1>5, UntrustedLevels DEF BySecurity, t

\* Only two adapters refuse to be deployed or to be started.
LEMMA TierStarts ==
    ASSUME NEW t \in Tiers, "refused" \in {Adapter[t].deploy, Adapter[t].start}
    PROVE  t \in {"kvm", "seccomp"}
<1> DEFINE Starts(u) == "refused" \notin {Adapter[u].deploy, Adapter[u].start}
<1>1. /\ Starts("wasm") /\ Starts("landlock") /\ Starts("native") /\ Starts("applevz")
  BY DEF Adapter, wasm, landlock, native, applevz
<1>2. /\ Starts("kata") /\ Starts("nitrorekf") /\ Starts("sev") /\ Starts("tdx")
  BY DEF Adapter, kata, nitrorekf, sev, tdx
<1>3. /\ Starts("kubevirt") /\ Starts("pledge") /\ Starts("wolfi") /\ Starts("distroless")
  BY DEF Adapter, kubevirt, pledge, wolfi, distroless
<1>4. /\ Starts("userns") /\ Starts("gvisor") /\ Starts("systemdnspawn") /\ Starts("jail")
  BY DEF Adapter, userns, gvisor, systemdnspawn, jail
<1>5. /\ Starts("virtcontainers") /\ Starts("sandboxexec") /\ Starts("firecracker")
  BY DEF Adapter, virtcontainers, sandboxexec, firecracker
<1>6. /\ Starts("docker") /\ Starts("podman") /\ Starts("lima")
  <2>1. Adapter["docker"] = docker /\ Adapter["podman"] = podman /\ Adapter["lima"] = lima
    BY DEF Adapter
  <2>2. "refused" \notin {docker.deploy, docker.start}
    BY DEF docker
  <2>3. "refused" \notin {podman.deploy, podman.start}
    BY DEF podman
  <2>4. "refused" \notin {lima.deploy, lima.start}
    BY DEF lima
  <2> QED
    BY <2>1, <2>2, <2>3, <2>4
<1>7. /\ Starts("hyperkit") /\ Starts("qemu")
  BY DEF Adapter, hyperkit, qemu
<1>8. /\ Starts("cloudhv") /\ Starts("crosvm") /\ Starts("youki") /\ Starts("gvisordocker")
  BY DEF Adapter, cloudhv, crosvm, youki, gvisordocker
<1>9. ~Starts(t)
  OBVIOUS
<1> HIDE DEF Starts
<1> QED
  BY TierNames, <1>1, <1>2, <1>3, <1>4, <1>5, <1>6, <1>7, <1>8, <1>9

\* A set of candidates without kvm, and with landlock whenever seccomp is one.
LandlockWithSeccomp(S) == "kvm" \notin S /\ ("seccomp" \in S => "landlock" \in S)

\* Every set of candidates is such a set.
LEMMA CandidatesWithoutKvm ==
    ASSUME NEW security, NEW platform, NEW workload, NEW trusted
    PROVE  LandlockWithSeccomp(defaultCandidates(security, platform, workload, trusted))
<1>1. \A l \in DOMAIN MacOrder : LandlockWithSeccomp(MacOrder[l])
  BY DEF MacOrder, LandlockWithSeccomp
<1>2. \A l \in DOMAIN WindowsOrder : LandlockWithSeccomp(WindowsOrder[l])
  BY DEF WindowsOrder, LandlockWithSeccomp
<1>3. \A l \in DOMAIN LinuxOrder : LandlockWithSeccomp(LinuxOrder[l])
  BY DEF LinuxOrder, LandlockWithSeccomp
<1> DEFINE order == CASE platform = "macos"   -> MacOrder
                      [] platform = "windows" -> WindowsOrder
                      [] OTHER                -> LinuxOrder
           names == IF security \in DOMAIN order THEN order[security] ELSE {}
<1>4. LandlockWithSeccomp(names)
  <2>1. CASE security \in DOMAIN order
    BY <2>1, <1>1, <1>2, <1>3
  <2>2. CASE security \notin DOMAIN order
    BY <2>2 DEF LandlockWithSeccomp
  <2> QED
    BY <2>1, <2>2
<1>5. defaultCandidates(security, platform, workload, trusted) =
         IF InProcess(workload, trusted) THEN {"wasm", "native"} \cup names ELSE names
  BY DEF defaultCandidates
<1> HIDE DEF names
<1> QED
  BY <1>4, <1>5 DEF LandlockWithSeccomp

\* With the default registry the tier that is answered can be deployed and started:
\* landlock is a candidate wherever seccomp is, takes as long and comes first.
LEMMA DefaultStarts ==
    ASSUME NEW cfg, IsConfig(cfg), NEW os, NEW R \in SUBSET Tiers, R = registerDefaultTiers(os),
           DefaultSelect(cfg, R).err = "nil"
    PROVE  "refused" \notin {Adapter[DefaultSelect(cfg, R).tier].deploy,
                             Adapter[DefaultSelect(cfg, R).tier].start}
<1> DEFINE t == DefaultSelect(cfg, R).tier
           C == defaultCandidates(Default(cfg.security, "", "medium"),
                                  Default(cfg.platform, "", "linux"), cfg.workload, cfg.trusted)
<1>1. /\ t \in within(cfg, R) /\ t \in Tiers
      /\ \A d \in within(cfg, R) \ {t} : Faster(t, d)
  BY DefaultAnswer, CandidateSets
<1> HIDE DEF t
<1>2. LandlockWithSeccomp(C)
  BY CandidatesWithoutKvm
<1> HIDE DEF C
<1>3. filtered(cfg, R) = {c \in C : /\ c \in R
                                    /\ platformMatches(allTiers[c].platforms,
                                                       Default(cfg.platform, "", "linux"))}
  BY DEF filtered, C
<1>4. t # "kvm"
  BY <1>1, <1>2, <1>3 DEF within, LandlockWithSeccomp
<1>5. ASSUME t = "seccomp" PROVE FALSE
  <2>1. allTiers["landlock"] = allTiers["seccomp"] /\ allTiers["seccomp"].startup = 1
    BY DEF allTiers, Info
  <2>2. "landlock" \in R
    <3>1. "landlock" \in Tiers
      BY DEF Tiers, Adapter
    <3> QED
      BY <3>1 DEF registerDefaultTiers
  <2>3. "landlock" \in C
    BY <1>1, <1>2, <1>3, <1>5 DEF within, LandlockWithSeccomp
  <2>4. "landlock" \in filtered(cfg, R)
    BY <1>1, <1>3, <1>5, <2>1, <2>2, <2>3 DEF within
  <2>5. "landlock" \in within(cfg, R)
    BY <1>1, <1>5, <2>1, <2>4 DEF within, WithinBudget
  <2>6. Faster("seccomp", "landlock")
    BY <1>1, <1>5, <2>5
  <2> QED
    BY <2>1, <2>6, LandlockFirst DEF Faster
<1> QED
  BY <1>1, <1>4, <1>5, TierStarts DEF t

(***************************************************************************)
(* Backends.                                                                *)
(***************************************************************************)

\* The probe knows three backends, and nanovms is none of them.
LEMMA BackendsFound ==
    ASSUME NEW h, NEW slow
    PROVE  Discover(h, slow) \subseteq {"apple", "podman", "wsl"}
<1>1. Range(AllBackends) = {"apple", "nanovms", "podman", "wsl"}
  BY DEF AllBackends, Range
<1>2. ~BackendProbe("nanovms", h, slow)
  BY DEF BackendProbe, candidates
<1> QED
  BY <1>1, <1>2 DEF Discover

\* The places of the list that Select walks: the preferred backends, then all of them.
LEMMA BackendList ==
    ASSUME NEW preferred \in Seq(STRING)
    PROVE  /\ DOMAIN (preferred \o AllBackends) \subseteq Nat
           /\ \A i \in DOMAIN preferred : /\ i \in DOMAIN (preferred \o AllBackends)
                                          /\ (preferred \o AllBackends)[i] = preferred[i]
           /\ \A b \in {"apple", "podman", "wsl"} :
                 \E i \in DOMAIN (preferred \o AllBackends) : (preferred \o AllBackends)[i] = b
           /\ \A i \in DOMAIN (preferred \o AllBackends), j \in DOMAIN preferred :
                 i <= j => i \in 1 .. j /\ i \in DOMAIN preferred
<1> DEFINE S == STRING \cup {"apple", "nanovms", "podman", "wsl"}
           try == preferred \o AllBackends
<1>1. /\ AllBackends \in Seq(S) /\ Len(AllBackends) = 4
      /\ AllBackends[1] = "apple" /\ AllBackends[3] = "podman" /\ AllBackends[4] = "wsl"
  BY DEF AllBackends
<1>2. preferred \in Seq(S) /\ Len(preferred) \in Nat
  OBVIOUS
<1> HIDE DEF S
<1>3. /\ try \in Seq(S) /\ Len(try) = Len(preferred) + Len(AllBackends)
      /\ \A i \in 1 .. Len(preferred) + Len(AllBackends) :
            try[i] = IF i <= Len(preferred) THEN preferred[i]
                     ELSE AllBackends[i - Len(preferred)]
  BY <1>1, <1>2, ConcatProperties
<1> HIDE DEF try
<1>4. DOMAIN try = 1 .. Len(preferred) + 4 /\ DOMAIN preferred = 1 .. Len(preferred)
  BY <1>1, <1>2, <1>3
<1>5. \A i \in 1 .. Len(preferred) : try[i] = preferred[i]
  BY <1>1, <1>2, <1>3
<1>6. \A k \in 1 .. 4 : try[Len(preferred) + k] = AllBackends[k]
  BY <1>1, <1>2, <1>3
<1>7. \A b \in {"apple", "podman", "wsl"} : \E i \in DOMAIN try : try[i] = b
  <2>1. /\ try[Len(preferred) + 1] = "apple" /\ try[Len(preferred) + 3] = "podman"
        /\ try[Len(preferred) + 4] = "wsl"
    BY <1>1, <1>6
  <2>2. /\ Len(preferred) + 1 \in DOMAIN try /\ Len(preferred) + 3 \in DOMAIN try
        /\ Len(preferred) + 4 \in DOMAIN try
    BY <1>2, <1>4
  <2> QED
    BY <2>1, <2>2
<1> QED
  BY <1>2, <1>4, <1>5, <1>7 DEF try

\* What Select answers fits the plan and the preference.
LEMMA BackendAnswer ==
    ASSUME NEW plan \in {"docker", "nanovms"}, NEW preferred \in Seq(STRING),
           NEW available \in SUBSET {"apple", "podman", "wsl"}
    PROVE  LET got == SelectBackend(plan, preferred, available)
           IN  IF plan = "nanovms" \/ available = {} THEN got.err # "nil"
               ELSE /\ got.tier \in available
                    /\ \A i \in DOMAIN preferred : preferred[i] \in available
                          => \E j \in 1 .. i : preferred[j] = got.tier
<1> DEFINE try == preferred \o AllBackends
           usable == {i \in DOMAIN try : Supports(try[i], plan) /\ try[i] \in available}
           got == SelectBackend(plan, preferred, available)
<1>1. /\ DOMAIN try \subseteq Nat
      /\ \A i \in DOMAIN preferred : i \in DOMAIN try /\ try[i] = preferred[i]
      /\ \A b \in {"apple", "podman", "wsl"} : \E i \in DOMAIN try : try[i] = b
      /\ \A i \in DOMAIN try, j \in DOMAIN preferred :
            i <= j => i \in 1 .. j /\ i \in DOMAIN preferred
  BY BackendList
<1>2. \A b \in available : Supports(b, plan) <=> plan = "docker"
  BY DEF Supports
<1>3. got = IF usable = {} THEN Refused("no available backend")
            ELSE Chosen(try[CHOOSE i \in usable : \A j \in usable : i <= j])
  BY DEF SelectBackend
<1> HIDE DEF try, got
<1>4. CASE plan = "nanovms" \/ available = {}
  <2>1. usable = {}
    BY <1>2, <1>4
  <2>2. got.err # "nil"
    BY <1>3, <2>1 DEF Refused
  <2> QED
    BY <1>4, <2>2 DEF got
<1>5. CASE plan = "docker" /\ available # {}
  <2>1. usable = {i \in DOMAIN try : try[i] \in available}
    BY <1>2, <1>5
  <2>2. usable # {} /\ usable \in SUBSET Nat
    <3>1. PICK b \in available : TRUE
      BY <1>5
    <3>2. PICK i \in DOMAIN try : try[i] = b
      BY <1>1, <3>1
    <3>3. i \in usable
      BY <2>1, <3>1, <3>2
    <3> QED
      BY <1>1, <3>3
  <2> HIDE DEF usable
  <2>3. PICK m \in usable : /\ m = CHOOSE i \in usable : \A j \in usable : i <= j
                            /\ \A j \in usable : m <= j
    BY <2>2, LeastNumber
  <2>4. got = Chosen(try[m])
    BY <1>3, <2>2, <2>3
  <2>5. got.tier = try[m]
    BY <2>4 DEF Chosen
  <2>6. got.tier \in available
    BY <2>1, <2>3, <2>5
  <2>7. ASSUME NEW i \in DOMAIN preferred, preferred[i] \in available
        PROVE  \E j \in 1 .. i : preferred[j] = got.tier
    <3>1. i \in usable
      BY <1>1, <2>1, <2>7
    <3>2. m \in DOMAIN try /\ m <= i
      BY <2>1, <2>3, <3>1
    <3> QED
      BY <1>1, <2>5, <3>2
  <2> QED
    BY <1>5, <2>6, <2>7 DEF got
<1> QED
  BY <1>4, <1>5
(***************************************************************************)
(* The inductive invariant of the embedder: an answer, once given, is the   *)
(* one for the registry as it is, since nothing is registered after it.     *)
(***************************************************************************)

\* What a policy answered, but for NVMS_TIER.
PolicyKnown ==
    (/\ answer.policy \in {"default", "auto", "profile"}
     /\ answer.policy = "auto" => answer.env.tier \in {"", "auto"})
        => IsConfig(answer.cfg) /\ answer.got = DefaultSelect(answer.cfg, registry)

\* What the backend selection answered.
BackendKnown ==
    answer.policy = "backend" =>
        /\ answer.target \in {"docker", "nanovms"} /\ answer.preferred \in Seq(STRING)
        /\ answer.available \in SUBSET {"apple", "podman", "wsl"}
        /\ answer.got = SelectBackend(answer.target, answer.preferred, answer.available)

AnswerKnown == PolicyKnown /\ BackendKnown

\* Overrides and profiles make configurations.
LEMMA ConfigsMade ==
    ASSUME NEW cfg \in Configs, NEW env \in Envs, NEW os
    PROVE  /\ IsConfig(cfg)
           /\ IsConfig(applyEnvOverrides(cfg, env, os))
           /\ IsConfig(ProfileConfig(cfg, env))
<1>1. /\ cfg = [security |-> cfg.security, platform |-> cfg.platform, workload |-> cfg.workload,
                trusted |-> cfg.trusted, budget |-> cfg.budget]
      /\ cfg.trusted \in BOOLEAN /\ cfg.budget \in Int /\ env.budget \in Int
  BY SelectionAssumption DEF Config
<1>2. IsConfig(cfg)
  BY <1>1 DEF IsConfig
<1>3. IsConfig(applyEnvOverrides(cfg, env, os))
  <2> DEFINE security == Default(env.security, "", cfg.security)
             platform == Default(env.platform, "",
                                 Default(cfg.platform, "", platformFromRuntime(os)))
             budget == IF env.budget > 0 THEN env.budget ELSE cfg.budget
  <2>1. budget \in Int
    BY <1>1
  <2>2. applyEnvOverrides(cfg, env, os) =
           [cfg EXCEPT !.security = security, !.platform = platform, !.budget = budget]
    BY DEF applyEnvOverrides
  <2> HIDE DEF security, platform, budget
  <2> QED
    BY <1>1, <2>1, <2>2 DEF IsConfig
<1>4. profileSelection(env.profile).budget \in Int
  BY DEF profileSelection
<1>5. IsConfig(ProfileConfig(cfg, env))
  BY <1>1, <1>4 DEF IsConfig, ProfileConfig
<1> QED
  BY <1>2, <1>3, <1>5

\* A policy's answer is DefaultPolicy's for the configuration that it made.
LEMMA SelectKnown ==
    ASSUME NEW policy \in {"default", "auto", "profile"}, NEW cfg \in Configs,
           NEW env \in Envs, Select(policy, cfg, env)
    PROVE  AnswerKnown'
<1> USE DEF Select
<1>1. registry' = registry /\ answer'.policy = policy /\ answer'.env = env
  OBVIOUS
<1>2. answer'.policy # "backend"
  BY <1>1
<1>3. CASE policy = "default"
  <2>1. answer'.cfg = cfg /\ answer'.got = DefaultSelect(cfg, registry)
    BY <1>3
  <2> QED
    BY <1>1, <1>2, <2>1, ConfigsMade DEF AnswerKnown, PolicyKnown, BackendKnown
<1>4. CASE policy = "auto"
  <2>1. /\ answer'.cfg = applyEnvOverrides(cfg, env, host.os)
        /\ answer'.got = AutoSelect(cfg, env, host.os, registry)
    BY <1>4
  <2>2. env.tier \in {"", "auto"} => answer'.got = DefaultSelect(answer'.cfg, registry)
    BY <2>1 DEF AutoSelect
  <2> QED
    BY <1>1, <1>2, <2>1, <2>2, ConfigsMade, <1>4 DEF AnswerKnown, PolicyKnown, BackendKnown
<1>5. CASE policy = "profile"
  <2>1. /\ answer'.cfg = ProfileConfig(cfg, env)
        /\ answer'.got = DefaultSelect(ProfileConfig(cfg, env), registry)
    BY <1>5 DEF ProfileSelect
  <2> QED
    BY <1>1, <1>2, <2>1, ConfigsMade DEF AnswerKnown, PolicyKnown, BackendKnown
<1> QED
  BY <1>3, <1>4, <1>5

\* The backend selection's answer is for what the probe has found.
LEMMA SelectRuntimeKnown ==
    ASSUME NEW plan \in {"docker", "nanovms"}, NEW preferred \in Preferred, NEW slow,
           SelectRuntime(plan, preferred, slow)
    PROVE  AnswerKnown'
<1>1. /\ answer'.policy = "backend" /\ answer'.target = plan /\ answer'.preferred = preferred
      /\ answer'.available = Discover(host, slow)
      /\ answer'.got = SelectBackend(plan, preferred, Discover(host, slow))
  BY DEF SelectRuntime
<1>2. answer'.policy \notin {"default", "auto", "profile"}
  BY <1>1
<1>3. preferred \in Seq(STRING)
  BY SelectionAssumption
<1> QED
  BY <1>1, <1>2, <1>3, BackendsFound DEF AnswerKnown, PolicyKnown, BackendKnown

\* Nothing has been answered at first.
LEMMA InitKnown == Init => AnswerKnown
<1> SUFFICES ASSUME Init PROVE AnswerKnown
  OBVIOUS
<1>1. answer.policy = "none"
  BY DEF Init, NoAnswer
<1> QED
  BY <1>1 DEF AnswerKnown, PolicyKnown, BackendKnown

\* Every step keeps what is known of the answer.
LEMMA StepKnown == AnswerKnown /\ [Next]_vars => AnswerKnown'
<1> SUFFICES ASSUME AnswerKnown, [Next]_vars PROVE AnswerKnown'
  OBVIOUS
<1>1. CASE UNCHANGED <<registry, answer>>
  BY <1>1 DEF AnswerKnown, PolicyKnown, BackendKnown
<1>2. CASE answer = NoAnswer /\ UNCHANGED answer
  <2>1. answer'.policy = "none"
    BY <1>2 DEF NoAnswer
  <2> QED
    BY <2>1 DEF AnswerKnown, PolicyKnown, BackendKnown
<1>3. CASE Embed
  <2>1. CASE \E policy \in {"default", "auto", "profile"}, cfg \in Configs, env \in Envs :
                Select(policy, cfg, env)
    BY <2>1, SelectKnown
  <2>2. CASE \E plan \in {"docker", "nanovms"}, preferred \in Preferred,
                slow \in SUBSET {"podman", "wsl"} : SelectRuntime(plan, preferred, slow)
    BY <2>2, SelectRuntimeKnown
  <2> QED
    BY <1>2, <1>3, <2>1, <2>2 DEF Embed
<1> QED
  BY <1>1, <1>3 DEF Next, Serve, Serves, vars, selection

\* What is known of the answer implies what is promised of it.
LEMMA KnownIsRight == TypeOK /\ AnswerKnown => SelectionInv
<1> SUFFICES ASSUME TypeOK, AnswerKnown PROVE SelectionInv
  OBVIOUS
<1>1. registry \in SUBSET Tiers
  BY DEF TypeOK
<1>2. Picked => /\ IsConfig(answer.cfg) /\ answer.got = DefaultSelect(answer.cfg, registry)
                /\ DefaultSelect(answer.cfg, registry).err = "nil"
  BY DEF Picked, AnswerKnown, PolicyKnown
<1>3. AnswerFits
  BY <1>1, <1>2, DefaultFits DEF AnswerFits
<1>4. NoRegret
  <2> SUFFICES ASSUME Picked
               PROVE  /\ DefaultSelect([answer.cfg EXCEPT !.budget = 0], registry) = answer.got
                      /\ \A n \in Tiers \ registry :
                            LET got == DefaultSelect(answer.cfg, registry \cup {n})
                            IN  /\ got.err = "nil"
                                /\ Adapter[got.tier].startup <= Adapter[answer.got.tier].startup
    BY DEF NoRegret
  <2> QED
    BY <1>1, <1>2, BudgetNoRegret, RegistryNoRegret
<1>5. UntrustedIsolated
  BY <1>1, <1>2, DefaultIsolates DEF UntrustedIsolated
<1>6. DefaultAnswerStarts
  BY <1>1, <1>2, DefaultStarts DEF DefaultAnswerStarts
<1>7. BackendFits
  BY BackendAnswer DEF BackendFits, AnswerKnown, BackendKnown
<1> QED
  BY <1>3, <1>4, <1>5, <1>6, <1>7 DEF SelectionInv

\* The selection policies and the backend selection keep their promises for every
\* configuration, environment, host, preference and registry: the tier fits by its
\* adapter's own metadata, could not be beaten, isolates untrusted code and can be
\* started; the backend is there and the first preferred one that is.
THEOREM SelectionCorrect == Spec => []SelectionInv
<1>1. Spec => []AnswerKnown
  BY InitKnown, StepKnown, PTL DEF Spec
<1>2. IInv => TypeOK
  BY DEF IInv
<1> QED
  BY <1>1, <1>2, TierInvariant, KnownIsRight, PTL

-----------------------------------------------------------------------------
(***************************************************************************)
(* The sandbox routes over the Firecracker adapter, step by step.           *)
(***************************************************************************)

\* A sandbox that has not got past Start has no VM.
NotStarted == \A d \in DeployRequest : pc[d] \in {"idle", "create", "start", "failed"} => d \notin alive

\* A listed sandbox with a VM has its command, so that a stop finds it.
ListedHasCommand == \A d \in DeployRequest : d \in vms /\ d \in alive => d \in cmds

\* Only deploy requests are at the steps of handleDeploy, only stops and deletes at
\* the others.
Places ==
    /\ \A d \in DeployRequest : pc[d] \notin {"stop", "wait", "remove"}
    /\ \A r \in Request : pc[r] \in {"create", "start", "failed", "normalise", "check"}
                                => r \in DeployRequest

VmInv ==
    /\ VmTypeOK /\ AliveIsRunning
    /\ NotStarted /\ ListedHasCommand /\ Places

\* A daemon that has just started satisfies the invariant.
LEMMA InitVmInv == VmInit => VmInv
  BY VmAssumption DEF VmInit, VmInv, VmTypeOK, AliveIsRunning,
         NotStarted, ListedHasCommand, Places, Request

\* Every step of a request, a client or a VM keeps the invariant.
LEMMA StepVmInv == VmInv /\ [VmNext]_vmVars => VmInv'
<1> SUFFICES ASSUME VmInv, [VmNext]_vmVars PROVE VmInv'
  OBVIOUS
<1> USE VmAssumption DEF VmInv, VmTypeOK, AliveIsRunning,
            NotStarted, ListedHasCommand, Places, Request
<1>1. CASE UNCHANGED vmVars
  BY <1>1 DEF vmVars, handlers, adapter, procs
<1>2. ASSUME NEW r \in Request, Arrive(r) PROVE VmInv'
  BY <1>2 DEF Arrive, Goto, adapter, procs
<1>3. ASSUME NEW r \in Request, ClientHangsUp(r) PROVE VmInv'
  BY <1>3 DEF ClientHangsUp, adapter, procs
<1>4. ASSUME NEW d \in Request, CreateVm(d) PROVE VmInv'
  BY <1>4 DEF CreateVm, Goto, procs
<1>5. ASSUME NEW d \in Request, Start(d) PROVE VmInv'
  BY <1>5 DEF Start, Goto
<1>6. ASSUME NEW d \in Request, StartFails(d) PROVE VmInv'
  BY <1>6 DEF StartFails, Goto, adapter, procs
<1>7. ASSUME NEW d \in Request, AnswerFailed(d) PROVE VmInv'
  BY <1>7 DEF AnswerFailed, Return, Goto, procs
<1>8. ASSUME NEW d \in Request, Normalise(d) PROVE VmInv'
  BY <1>8 DEF Normalise, Goto, procs
<1>9. ASSUME NEW d \in Request, AnswerDeployed(d) PROVE VmInv'
  BY <1>9 DEF AnswerDeployed, Return, Goto, adapter, procs
<1>10. ASSUME NEW r \in Request, StopNotFound(r) PROVE VmInv'
  BY <1>10 DEF StopNotFound, StopReturns, Return, Goto, adapter, procs
<1>11. ASSUME NEW r \in Request, StopNotStarted(r) PROVE VmInv'
  BY <1>11 DEF StopNotStarted, StopReturns, Return, Goto, procs
<1>12. ASSUME NEW r \in Request, SignalVm(r) PROVE VmInv'
  BY <1>12 DEF SignalVm, Goto
<1>13. ASSUME NEW r \in Request, WaitVm(r) PROVE VmInv'
  BY <1>13 DEF WaitVm, StopReturns, Return, Goto
<1>14. ASSUME NEW r \in Request, RemoveVm(r) PROVE VmInv'
  BY <1>14 DEF RemoveVm, Return, Goto, procs
<1>15. ASSUME NEW d \in DeployRequest, VmEnds(d) PROVE VmInv'
  BY <1>15 DEF VmEnds, ContextKills, ObeySignal, handlers, adapter
<1> QED
  BY <1>1, <1>2, <1>3, <1>4, <1>5, <1>6, <1>7, <1>8, <1>9, <1>10, <1>11, <1>12, <1>13, <1>14, <1>15
     DEF VmNext, Step

\* The invariant holds in every state of the daemon.
THEOREM VmInvariant == VmSpec => []VmInv
  BY InitVmInv, StepVmInv, PTL DEF VmSpec

\* The variables keep their types, whatever requests come in whatever order.
THEOREM VmTypeCorrect == VmSpec => []VmTypeOK
  BY VmInvariant, PTL DEF VmInv

\* No VM runs that the API reports as pending, stopped or failed.
THEOREM AliveIsRunningCorrect == VmSpec => []AliveIsRunning
  BY VmInvariant, PTL DEF VmInv
=============================================================================
