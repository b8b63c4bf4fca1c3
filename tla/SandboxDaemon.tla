---------------------------- MODULE SandboxDaemon ----------------------------
(***************************************************************************)
(* The sandbox routes of the daemon (internal/api/router.go) over its          *)
(* Firecracker adapter (internal/adapters/firecracker).                      *)
(*                                                                         *)
(* Requests run concurrently, each with a context that ends when its client   *)
(* hangs up and, in any case, when its handler has returned.  The adapter     *)
(* keeps its two maps under one mutex, which Stop holds until the VM's process *)
(* has ended, and ties that process to the context of the request that        *)
(* started it.  The deploy handler also writes the status of the shared        *)
(* sandbox object without the mutex.                                        *)
(*                                                                         *)
(* Every deploy request makes one sandbox, so the request stands for the       *)
(* sandbox's ID.                                                            *)
(*                                                                         *)
(* Names that TierDaemon has too carry the prefix or suffix Vm, so that       *)
(* DaemonProofs can extend both.                                            *)
(***************************************************************************)
EXTENDS Naturals

CONSTANTS
    DeployRequest, StopRequest, DeleteRequest,
    Pid,
    NoPid,          \* the sandbox was never started
    NoRequest       \* the mutex is free

Request == DeployRequest \cup StopRequest \cup DeleteRequest

ASSUME VmAssumption ==
    /\ NoPid \notin Pid
    /\ NoRequest \notin Request
    /\ DeployRequest \cap (StopRequest \cup DeleteRequest) = {}
    /\ StopRequest \cap DeleteRequest = {}

VARIABLES
    pc,             \* where each handler is
    target,         \* the sandbox each stop and delete request names
    code,         \* the status code of each deploy request, 0 before there is one
    ended,          \* requests whose context has ended
    mu,             \* who holds Adapter.mu across steps
    vms,            \* keys of Adapter.vms
    cmds,           \* keys of Adapter.cmds
    pid,            \* the process ID in each sandbox's exec.Cmd
    vmStatus,         \* Status of each sandbox object
    alive,          \* sandboxes whose VM process runs
    signalled,      \* sandboxes whose process has a signal to obey
    reaped          \* sandboxes whose exec.Cmd has been waited for

handlers == <<pc, target, code, ended>>
adapter  == <<mu, vms, cmds, pid, vmStatus>>
procs    == <<alive, signalled, reaped>>
vmVars   == <<handlers, adapter, procs>>

VmTypeOK ==
    /\ pc \in [Request -> {"idle", "create", "start", "failed", "normalise", "check",
                        "stop", "wait", "remove", "done"}]
    /\ target \in [Request -> DeployRequest]
    /\ code \in [DeployRequest -> {0, 201, 500}]
    /\ ended \subseteq Request
    /\ mu \in StopRequest \cup DeleteRequest \cup {NoRequest}
    /\ vms \subseteq DeployRequest
    /\ cmds \subseteq DeployRequest
    /\ pid \in [DeployRequest -> Pid \cup {NoPid}]
    /\ vmStatus \in [DeployRequest -> {"none", "pending", "running", "stopped", "failed"}]
    /\ alive \subseteq DeployRequest
    /\ signalled \subseteq DeployRequest
    /\ reaped \subseteq DeployRequest

VmInit ==
    /\ pc = [r \in Request |-> "idle"]
    /\ target \in {f \in [Request -> DeployRequest] : \A d \in DeployRequest : f[d] = d}
    /\ code = [d \in DeployRequest |-> 0]
    /\ ended = {}
    /\ mu = NoRequest
    /\ vms = {} /\ cmds = {}
    /\ pid = [d \in DeployRequest |-> NoPid]
    /\ vmStatus = [d \in DeployRequest |-> "none"]
    /\ alive = {} /\ signalled = {} /\ reaped = {}

Locked == mu # NoRequest

Goto(r, label) == pc' = [pc EXCEPT ![r] = label]

\* The handler returns, and net/http ends the request's context.
Return(r) ==
    /\ Goto(r, "done")
    /\ ended' = ended \cup {r}

Arrive(r) ==
    /\ pc[r] = "idle"
    /\ Goto(r, IF r \in DeployRequest THEN "create" ELSE "stop")
    /\ UNCHANGED <<target, code, ended, adapter, procs>>

(***************************************************************************)
(* handleDeploy.                                                           *)
(***************************************************************************)
CreateVm(d) ==
    /\ pc[d] = "create" /\ ~Locked
    /\ vms' = vms \cup {d}
    /\ vmStatus' = [vmStatus EXCEPT ![d] = "pending"]
    /\ Goto(d, "start")
    /\ UNCHANGED <<target, code, ended, mu, cmds, pid, procs>>

\* Process IDs in use: an exited process keeps its own until it is waited for.
Holds(d, p) == pid[d] = p /\ d \notin reaped

Start(d) ==
    /\ pc[d] = "start" /\ ~Locked
    /\ d \in vms
    /\ d \notin ended
    /\ \E p \in Pid :
          /\ \A e \in DeployRequest : ~Holds(e, p)
          /\ pid' = [pid EXCEPT ![d] = p]
    /\ cmds' = cmds \cup {d}
    /\ vmStatus' = [vmStatus EXCEPT ![d] = "running"]
    /\ alive' = alive \cup {d}
    /\ Goto(d, "normalise")
    /\ UNCHANGED <<target, code, ended, mu, vms, signalled, reaped>>

\* The sandbox was deleted, the context has ended, or firecracker is missing or
\* does not start.
StartFails(d) ==
    /\ pc[d] = "start" /\ ~Locked
    /\ Goto(d, "failed")
    /\ UNCHANGED <<target, code, ended, adapter, procs>>

\* The handler marks the sandbox as failed; the adapter keeps it.
AnswerFailed(d) ==
    /\ pc[d] = "failed"
    /\ vmStatus' = [vmStatus EXCEPT ![d] = "failed"]
    /\ code' = [code EXCEPT ![d] = 500]
    /\ Return(d)
    /\ UNCHANGED <<target, mu, vms, cmds, pid, procs>>

\* Written without the mutex, over whatever a stop has written since.
Normalise(d) ==
    /\ pc[d] = "normalise"
    /\ vmStatus' = [vmStatus EXCEPT ![d] = IF @ = "failed" THEN @ ELSE "running"]
    /\ Goto(d, "check")
    /\ UNCHANGED <<target, code, ended, mu, vms, cmds, pid, procs>>

AnswerDeployed(d) ==
    /\ pc[d] = "check"
    /\ code' = [code EXCEPT ![d] = IF vmStatus[d] = "running" THEN 201 ELSE 500]
    /\ Return(d)
    /\ UNCHANGED <<target, adapter, procs>>

(***************************************************************************)
(* Adapter.Stop, for handleStop and for Adapter.Delete.                       *)
(***************************************************************************)

\* Where the request goes on once Stop has returned.
StopReturns(r) ==
    \/ r \in StopRequest /\ Return(r)
    \/ r \in DeleteRequest /\ Goto(r, "remove") /\ UNCHANGED ended

StopNotFound(r) ==
    /\ pc[r] = "stop" /\ ~Locked
    /\ target[r] \notin vms
    /\ StopReturns(r)
    /\ UNCHANGED <<target, code, adapter, procs>>

StopNotStarted(r) ==
    /\ pc[r] = "stop" /\ ~Locked
    /\ target[r] \in vms /\ target[r] \notin cmds
    /\ vmStatus' = [vmStatus EXCEPT ![target[r]] = "stopped"]
    /\ StopReturns(r)
    /\ UNCHANGED <<target, code, mu, vms, cmds, pid, procs>>

\* kill, run under the request's own context, signals whatever process has the ID
\* now; with the context ended the signal may never be sent.
SignalVm(r) ==
    /\ pc[r] = "stop" /\ ~Locked
    /\ target[r] \in vms /\ target[r] \in cmds
    /\ mu' = r
    /\ \/ signalled' = signalled \cup {d \in alive : Holds(d, pid[target[r]])}
       \/ r \in ended /\ UNCHANGED signalled
    /\ Goto(r, "wait")
    /\ UNCHANGED <<target, code, ended, vms, cmds, pid, vmStatus, alive, reaped>>

\* (Some definitions are preceded by a variant that a slip in the code would give;
\* PROJECT.json pairs each with the property that tells the two apart.)

\* cmd.Wait returns when the process is gone, and at once if it was called before.
DoesNotWait(r) ==
    /\ pc[r] = "wait"
    /\ reaped' = reaped \cup {target[r]}
    /\ vmStatus' = [vmStatus EXCEPT ![target[r]] = "stopped"]
    /\ mu' = NoRequest
    /\ StopReturns(r)
    /\ UNCHANGED <<target, code, vms, cmds, pid, alive, signalled>>
KeepsMutex(r) ==
    /\ pc[r] = "wait"
    /\ target[r] \notin alive
    /\ reaped' = reaped \cup {target[r]}
    /\ vmStatus' = [vmStatus EXCEPT ![target[r]] = "stopped"]
    /\ StopReturns(r)
    /\ UNCHANGED <<target, code, mu, vms, cmds, pid, alive, signalled>>
WaitVm(r) ==
    /\ pc[r] = "wait"
    /\ target[r] \notin alive
    /\ reaped' = reaped \cup {target[r]}
    /\ vmStatus' = [vmStatus EXCEPT ![target[r]] = "stopped"]
    /\ mu' = NoRequest
    /\ StopReturns(r)
    /\ UNCHANGED <<target, code, vms, cmds, pid, alive, signalled>>

\* The second half of Adapter.Delete.
MarksDeleting(r) ==
    /\ pc[r] = "remove" /\ ~Locked
    /\ vmStatus' = [vmStatus EXCEPT ![target[r]] = "deleting"]
    /\ Return(r)
    /\ UNCHANGED <<target, code, mu, vms, cmds, pid, procs>>
RemoveVm(r) ==
    /\ pc[r] = "remove" /\ ~Locked
    /\ vms' = vms \ {target[r]}
    /\ cmds' = cmds \ {target[r]}
    /\ Return(r)
    /\ UNCHANGED <<target, code, mu, pid, vmStatus, procs>>

(***************************************************************************)
(* The environment.  (A VM that exits by itself looks to the adapter like one  *)
(* that was killed.)                                                        *)
(***************************************************************************)
ClientHangsUp(r) ==
    /\ pc[r] \notin {"idle", "done"}
    /\ r \notin ended
    /\ ended' = ended \cup {r}
    /\ UNCHANGED <<pc, target, code, adapter, procs>>

\* exec.CommandContext kills the process when the context it was given ends.
DetachedProcess(d) == FALSE /\ UNCHANGED vmVars
ContextKills(d) ==
    /\ d \in alive /\ d \in ended
    /\ alive' = alive \ {d}
    /\ UNCHANGED <<handlers, adapter, signalled, reaped>>

ObeySignal(d) ==
    /\ d \in alive /\ d \in signalled
    /\ alive' = alive \ {d}
    /\ UNCHANGED <<handlers, adapter, signalled, reaped>>

Step(r) ==
    \/ CreateVm(r) \/ Start(r) \/ StartFails(r) \/ AnswerFailed(r) \/ Normalise(r) \/ AnswerDeployed(r)
    \/ StopNotFound(r) \/ StopNotStarted(r) \/ SignalVm(r) \/ WaitVm(r) \/ RemoveVm(r)

VmEnds(d) == ContextKills(d) \/ ObeySignal(d)

VmNext ==
    \/ \E r \in Request : Arrive(r) \/ Step(r) \/ ClientHangsUp(r)
    \/ \E d \in DeployRequest : VmEnds(d)

VmSpec == VmInit /\ [][VmNext]_vmVars

\* A handler that was called goes on, a mutex that keeps becoming free is got, and a
\* process that is killed ends.  Obeying a signal (SIGTERM) is up to the VM, and no
\* client has to send a request or hang up.
VmFairSpec ==
    /\ VmSpec
    /\ \A r \in Request : SF_vmVars(Step(r))
    /\ \A d \in DeployRequest : WF_vmVars(ContextKills(d))

(***************************************************************************)
(* Properties.                                                             *)
(***************************************************************************)

\* No VM runs that the API reports as pending, stopped or failed, although the deploy
\* handler writes the status without the mutex while stops and deletes run.
AliveIsRunning == \A d \in DeployRequest : d \in alive => vmStatus[d] = "running"

\* Once a sandbox is deleted its VM ends for good, also when the delete request slips
\* between the creation and the start of the sandbox, or the start between the two
\* halves of the delete.
DeletedEnds ==
    \A r \in DeleteRequest : (pc[r] = "done" /\ vmStatus[target[r]] # "none" /\ target[r] \notin vms)
                                 ~> [](target[r] \notin alive)

\* Every request is answered, although Stop holds the adapter's only mutex while it
\* waits for a VM that may ignore the signal or never got it.
RequestsReturn == \A r \in Request : pc[r] # "idle" ~> pc[r] = "done"

\* router.go:162: "a successful response must describe a sandbox that has actually been
\* handed to the adapter's lifecycle", and sandbox.go:191: "IsRunning returns true if the
\* sandbox is running": nobody having stopped or deleted it, a sandbox that was answered
\* with 201 and is listed as running has a VM.
DeployedStaysUp ==
    \A d \in DeployRequest :
        code[d] = 201 /\ vmStatus[d] = "running" /\ d \notin signalled => d \in alive
=============================================================================
