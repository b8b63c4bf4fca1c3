# A TLA+ model of NanoVMS

NanoVMS is a Go engine that runs workloads on isolation tiers: native processes,
containers, micro-VMs.  Around that core sit a GPU reservation store shared by
processes, a bounded "evaluation action" that runs one host command under a GPU
lease and an exclusive output directory, an HTTP API, and adapters that drive
external engines.  This directory holds TLA+ modules translated from the source,
TLC configurations for small instances, and TLAPS proofs.

`PROJECT.json` lists, for every definition that models code, the lines it models;
for every run its properties; and for every property a variant of a definition (a
dropped guard, a missing reset, ...) that breaks it.  The variants stand in the
modules just before the definition they are variants of, and nothing uses them
otherwise.

## Inventory

Paths are relative to the repository root.

| Component | State it keeps | Operations | Interacts with | What is hard, and what correct means |
|---|---|---|---|---|
| GPU reservation store, `pkg/gpu/reservation*.go` | one JSON file `uuid -> (token, owner, expiry)`, one lock file | Reserve, Release, Active | called by evaluation actions of several processes | Read-modify-write across processes, expiry, crash between temp file and rename. One holder per GPU; all or nothing; only the owner frees. |
| Evaluation action, `pkg/orchestrate/evaluation.go` | lease, result, flags local to one call | Execute with its deferred functions | store, inspector, command runner, output root | Error paths multiply: each failure must give back what was taken and keep the first code. The lease must outlast the command. |
| Evaluation output root, `evaluation_filesystem.go`, `evaluation_lock_*.go` | coordinator lock file, root directory, output lock file, per-process mutexes | prepare, lock, clean up | the file system, other executions, strangers | Lock files that are deleted; nested roots; deleting only what was created here. |
| Evaluation inspector, `evaluation_inspector.go` | none | InspectWithInventory, toolkit resolution, CDI expansion | Docker, nvidia-smi, toolkit binaries | Search order and ambiguity of toolkit candidates. |
| Orchestration engine and dispatchers, `orchestrate.go`, `sandbox_dispatcher.go`, `composition.go`, `service_lifecycle.go` | backend map, started services | Deploy, Stop, Delete, DeployComposition, service Execute with rollback | adapters through `SandboxPort` | Partial failure: what was started must be stopped again. |
| GPU contracts and inventory, `pkg/gpu/contracts.go`, `inventory.go`, `command.go` | none | Reconcile, ValidateCompatibility, CSV parsing, bounded command | nvidia-smi | Version comparison; missing, surplus or duplicate GPUs. |
| Environment provider, `pkg/environment` | applied digest per profile | Plan, Apply, Verify | inventory, toolkit, state store | Check-then-record by two callers. |
| Runtime registry and probe, `pkg/runtime` | probe results | Probe, Select | host binaries | Choice among backends. |
| Tier registry and policy, `pkg/tier` | adapter map | Register, Select, environment overrides | adapters | Precedence of override, profile, default. |
| Resilience, `pkg/resilience` | breaker state, counters, time of last failure | Allow, RecordSuccess, RecordFailure, Execute | any caller | Results of overlapping requests that arrive in a later state. |
| Rate limiters, `pkg/ratelimit`, `internal/api/rate_limit.go` | tokens, last time | Allow | API middleware | Arithmetic at the boundary. |
| Audit log, `internal/api/audit.go` | ring of entries, JSONL file | Append, Query, rotation, Close | API middleware | Ring wrap-around; order of completion against order of stamps; failed rotation. |
| HTTP API, `internal/api/router.go` | sandbox client | deploy, stop, delete, audit handlers | sandbox port, audit log | Create then start, without rollback. |
| Listener, `internal/listen` | socket, two channels | Serve, Close | HTTP server | Both sides close the same channel. |
| Plugin registry, `internal/plugin` | list of plugins | Register, UnregisterAll | plugins | Registration racing unload. |
| Process adapter, `internal/adapters/process` | entries: status, command, channel | Create, Start, Stop, Delete, reaper | operating-system processes | Locks dropped around blocking calls; a reaper that outlives its entry. |
| VM adapters, `internal/adapters/{firecracker,gvisor,podman}` | command map, status | Create, Start, Stop, Delete | external VMM | As above, without a reaper. |
| Container adapter, `internal/adapters/containers` | none but the engine's | Probe, Create, Start, Stop, Delete | docker, podman, nerdctl | A step of several failing. |
| Snapshot store, `pkg/snapshot` | directory of metadata files | Create, List, Delete | file system | Payload and metadata written apart. |

The remaining parts (metrics, tokens, configuration, command line, domain types,
templates, Rust crates, SDKs, mobile and Windows companions, deployment files) keep
no state that two steps could disagree about; `PROJECT.json` gives the reason for
each.

## Plan

Most important first; items 1 to 12 are done.

1. `LeaseTable`, `ReservationStore`, `ReservationStoreProofs`: the store, and that it
   implements an atomic table of leases.
2. `OutputRoot`: the output directory's two locks and its clean-up.
3. `EvaluationAction`: Execute over `LeaseTable`, with time.
4. `ProcessAdapter`: the one adapter with a reaper.
5. This inventory, the hazards and the map.
6. `CircuitBreaker`, proved in `AuditAndBreakerProofs`: overlapping requests.
7. `AuditLog`, `AuditAndBreakerProofs`: ring, query and rotation against a reference list
   of entries.
8. `SandboxDaemon`, proved in `DaemonProofs`: the API handlers over the Firecracker
   adapter.
9. `TierAdapters`, `TierPolicy`, `TierDaemon`: the thirty tier adapters, the selection
   policies over them, and the daemon that serves one of them.
10. `ContainerDeploy`: the dispatcher and the service lifecycle over the container
    adapters and an engine that fails, loses answers or hangs.
11. `HostFacts`, `EnvironmentProvider`: Plan, Apply, Verify and Inspect over a host that
    changes while they read it.
12. Theorems: every safety property of every run, `AuditLog` and `TierDaemon` last.
13. `Listener` (the socket and its two channels) and `PluginRegistry` (registration
    racing unload), small components of their own.

## The modules

### LeaseTable, ReservationStore

`LeaseTable` is the abstract specification: a table of unexpired leases changed by
`Grant` (all GPUs of a set at once), `Free` (GPUs of one token) and `Tick`.

`ReservationStore` has one caller per member of `Proc`.  A call walks through
`lock -> (wait) -> read -> check -> write -> commit -> unlock`; the labels are the
points where the code gives other callers a chance: a failed flock attempt, the
store's own I/O.  `st`, `now` and `req` are the call's local variables; `file` is the
JSON file, `lock` the flock.  The temp file has no variable, since nothing reads it:
`WriteTemp` separates the write from the rename so that a crash fits between.  Every
`if err != nil` is an action (`LockFails`, `ReadFails`, `RandomTokenFails`,
`WriteFails`), `Crash` may come at any label, and a context may end while a call
waits.  JSON encoding is the identity on what the properties see (the decoder rejects
anything else, which is `ReadFails`).  The clock counts in units; reading it is part
of the decision, and writing may happen later, so a lease may be written when it has
expired already.

`used`, `known`, `held` are history: tokens drawn, tokens some caller may present, and
the leases whose holders may rely on them.  `held` is what the correctness properties
are about; it is not derived from the file.

### OutputRoot

Executions (`Action`) run in processes, on roots that may be nested (`ParentOf`).  The
file system is `dir` (identity of the directory at each root), `lockFile` (identity of
the lock file in it), `coordFile` and `filled`.  Locks are `mutex` (per process and
path), `coordinator` and `flocked`; an flock belongs to the opened inode, so a lock
file that was deleted and made again is a different lock.  Labels follow Execute:
`parent, cmutex, copen, cflock` (coordinator), `lstat, mkdir, restat`
(prepareOutputRoot), `space`, `omutex, oopen, ocheck, oflock` (lockOutputRoot),
`body, run`, then `inspect, readdir, lstatlock, rmlock, rmdir`
(cleanupCreatedOutputRoot: Lstat of the root, ReadDir, Lstat of the lock file and the two
removals are a step each) and `unlock` (the remaining deferred functions).  `maker` is
history: who made the directory now at the path.

Strangers may create, fill and (for roots in `Tampered`) replace a root, at any moment.
Three of these moments no check in the code covers (`Blind`): between `Mkdir` and the
`Lstat` that records the identity, between the clean-up's look at the root and its
ReadDir, and before the final Remove.  `swapped`, history too, records whose root was
replaced in one of them, and `OnlyOwnEmptyRootRemoved` says that only there a stranger's
directory is lost, and only an empty one.  Identities a running execution remembers are not
reused by the kernel.  A command's writes after its process group was killed are covered
by `StrangerFillsRoot`.

### EvaluationAction

Execute from validation to return, over `LeaseTable`: `ValidLimits` is the TTL rule,
`Reserve` a `Grant`, `ReleaseLease` a `Free`; `OutcomeCode` is the order in which the
command's flags and the state of the output decide the error code.  Time passes
between any two steps, but not beyond a running command's timeout, which is what the
runner enforces.  The inspector and the inventory are a success or an error.

### ProcessAdapter

Client goroutines call Create, Start, Stop and Delete; each process has a reaper
goroutine.  `cmd` and `waitDone` are the entry's fields, overwritten by every Start;
channels are named after the process they were made for.  Create and Start run
entirely under the mutex and are one action each; Stop and Delete are split where the
code unlocks or reads a field without the lock.  A second close of a channel sets
`panicked`, after which nothing runs.  An id that was deleted is not created again.

### CircuitBreaker

Each method of the breaker is one critical section and one action; `pending` are the
clients between Allow and their report.  `since` is `time.Since(lastFailureTime)`,
which makes no difference beyond the timeout.  `streak` and `trial` are history: the
failures since the last success, and the successes since the breaker last became
half-open.  A report is not tied to the state its request was let through in, so late
reports of every kind occur.  The names that every specification has carry the prefix
`Breaker` here, and `Vm` in `SandboxDaemon`, so that a module of proofs can extend two
components.

### AuditLog

`Stamp` is the end of auditMiddleware, up to the call of Append; `AppendEntry`
is Append with the rotation it may end in; Query is an operator on the ring:
`Found` are the steps of its walk that add an entry, `Nth` the order in which
they do, `Page` the cut by `limit` and `offset`, which range over `Limits` and
`Offsets`.  An entry has a `Kind`, its provider and isolation, and a filter asks for
either, both or none.  The file at `jsonlPath` is `lines`, the rotated files are `archive`,
indexed by the second that names them, and `handle` tells an open file from one
that is closed but still in the field. `Rotate` covers the failed rename (the
old file goes on) and the failed reopen (the closed handle stays); `Restart` is
a new daemon on the same file.  `MaxLines` stands for the 100 MB limit, counted
in lines.  `log` and `written` are history, the list Query and the files are
compared with; `excused` are the entries that a failure the code ignores, or a
rotation to a name already used in that second, kept from the disk.

### SandboxDaemon

Requests go through the handlers of `router.go` into the Firecracker adapter.
Create and Start are single critical sections; Stop keeps the mutex (`mu`) from
`SignalVm` to `WaitVm`; Delete is Stop and then `Remove`.  `Normalise` and
`AnswerFailed` are the handler's writes to the shared sandbox object, without
the mutex; they are taken to be whole: "running" and "stopped" are equally long,
so that mixing their words gives one of them, and "failed" is only written for a
sandbox that has no VM.  `ended` are the contexts that have ended, because the
client hung up or because the handler returned, and `ContextKills` is what
exec.CommandContext does then.  Process IDs are free again once a process has
been waited for, and `SignalVm` signals whatever process has the ID.  A deploy
request stands for the sandbox it makes; stops and deletes name any sandbox, at
any time.

### TierAdapters, TierPolicy, TierDaemon

`TierAdapters` describes each adapter of `pkg/tier` as a record: the metadata of its
Info, what Probe and Deploy ask of the host, what Start leaves behind, what Stop and
Delete do.  `start` is the interesting field: a guest may be a *child* that dies with the
request's context, a command in the *foreground* that Start waits for, *daemonized*,
*detached* (made by an engine beforehand) or *created* by the engine; other tiers launch
nothing, restrict the calling thread, or refuse.  `exec.CommandContext` kills one process,
the command: for child and foreground tiers that command is assumed to be the guest or to
take it along.  `youki.go:57`, `virtcontainers.go:55` and `jail.go:54` wait in
CombinedOutput without a WaitDelay, so a guest that survived its command and kept its
output open would keep Start waiting; `GuestInv` and `DeployAnswered` do not speak of
such a guest.

`TierPolicy` holds the pure functions: `DefaultSelect`, `AutoSelect` (environment
overrides) and `ProfileSelect` of `policy.go`, with the policy's own table `allTiers`,
and backend probing and selection of `pkg/runtime`.  The properties compare the
policies' answers with the adapters' own metadata, which is a second copy in the code.

`TierDaemon` is the state machine.  An *embedder* fills a registry (in any
order, also partially) and asks a policy; a *daemon* serves one tier number
through the HTTP handlers and the `tierAdapter`; a *library* user drives an
adapter that has no number.  A deploy request walks `idle -> created ->
(waiting) -> answered -> over`; at the last step net/http ends its context.
Clients hang up, stop and delete at any moment, guests end by themselves, and
the daemon may be restarted once, which loses its map and its contexts but not
the guests.  `told` and `killed` are history: what a client was told after its
deployment, and which guests were signalled.

### ContainerDeploy

A *job* is one Deploy of the sandbox dispatcher over the podman or the native container
adapter; its labels are the adapter's commands: `idle` (create), `inspect`, `check` or
`verify` (Start looks before or after, by adapter), `start`, `cleanup`, `refresh`.  The
*run* is one Execute of `service_lifecycle.go` with its rollback, retried under the same
run id.  The engine is external: a command does its work and answers, does it and the
answer is lost, or fails; `Hang` makes it silent for good, and then only a context or a
deadline ends a command (`Fails`).  `fault` is history and records what a caller could
not know ("blind") or could not undo ("refused"), which the properties have to excuse.
The native adapter may be left without an id, when create or inspect prints none, and then
means its container by name (`Target`).  `List` is modelled because it relates what was
listed first to what is inspected one by one later.  What inspect prints is reduced to the
state of the container; `Metrics` only reformats what the engine prints and is not
modelled.

### HostFacts, EnvironmentProvider

`HostFacts` holds the pure functions on what the host shows: inventory rows, Reconcile,
compatibility of a device with a toolkit, the ordered groups of places a toolkit is
looked for in (`toolkitCandidateGroups`, `resolveToolkit`), where nvcc is run for a place
(`RunsIn`: in the distribution, but on the host for a root that is absolute there) and CDI
expansion.  A version is a pair, a path is a name that may be absolute on the host, in a
distribution or nowhere, and a row is a record.

`EnvironmentProvider` runs calls of Plan, Apply, Verify and Inspect side by side.  Each
command is a step (two for each inventory scope, one per toolkit version, one for WSL,
one for CDI), and `ChangeHost` moves the host to another state between any two.  Apply's
look into the store and its write are two steps, and there may be no store at all.  A
request names the inventory scopes that are configured (both, one or none), the
inspector's own toolkit root, which goes before the request's, and the environment, in
which a variable may be set in two conflicting ways.  The digest of a contract is the
contract without the fields that CanonicalJSON leaves out.  `steady` and `torn` are
history: the host has not changed since the call began, and it has changed between the two
commands that read a scope's driver and its ceiling.  Codes that differ only in which part
of the inventory failed are one, `inventory_failed`; the inspector's optional
`ProgramFilesRoots`, which nothing in the repository but tests sets, is left unset.

## The runs

| Run | Bounds | Shows |
|---|---|---|
| `reservation_store` | 2 callers, 2 GPUs, 2 tokens, TTL 1-2, time 0-3 | exclusive leases, no lost update, all-or-nothing, owner-only release, refinement of `LeaseTable` |
| `reservation_store_live` | 2 callers, 1 GPU | every call returns, the flock is given up |
| `output_root` | 2 executions, 2 processes, one root inside the other, strangers who replace the inner one | exclusive root, no ground removed, a true report, only empty roots deleted and foreign ones only in the blind moments; 4.9 million states |
| `output_root_live` | 2 executions, 1 root | every Execute returns |
| `evaluation` | 2 executions, 1 GPU, timeouts 1 and 3, TTL 1-3, time 0-4 | result fields tell the truth, first code kept, lease covers a prompt command |
| `process_adapter` | 2 clients, 1 sandbox, 3 processes | status catches up with a dead process; "stopped" is true of a first run |
| `circuit_breaker` | 3 clients, thresholds 0-2, timeout 2 | opens exactly at the threshold, closes only after a full trial, is tried again when open |
| `audit_log` | 4 entries, ring of 2, file of 2 lines, 2 kinds of entry, 2 seconds | the files hold every entry, in order, but for accepted losses; Query agrees with the list, for every filter and page |
| `sandbox_daemon` | 2 deploys, 1 stop, 1 delete, 1 process ID | no VM runs that is reported as not running, a deleted VM ends, every request is answered |
| `tiers` | 1 sandbox on each adapter, 19 daemon numbers, 6 hosts on 5 systems, 120 configurations in 4 environments | a policy's answer fits the adapter's own metadata, cannot be beaten and can be started; what a client was told about its guest is true; every deploy is answered |
| `container_deploy` | 2 jobs or a job and a run (2 services, 2 attempts), both adapters, 1 meddling client | failure leaves nothing behind that was known, success is complete, only own containers are touched, a List misses nothing, calls with a deadline return |
| `environment` | 6 pairs of calls on one store (one of each an Apply) and 16 calls that only read, 6 states of the host, 2 changes | the store holds one contract of one Apply, Verify succeeds only with a contract an Apply returned, toolkits are found by precedence, devices merge by UUID, the driver in a contract could run its toolkit |

Properties that belong together are conjunctions of named parts: `CallsEnd` of
`CallReturns` and `LockFreed`; `RootIsHeld` of `ExclusiveRoot` and `GroundHolds`;
`ResultIsTrue` of `ReleasedIsTrue` and `SuccessIsClean`; `SelectionInv` and `GuestInv`
(tiers), `LifecycleInv` (containers), `StoreInv`, `ToolkitInv` and `DeviceInv`
(environment) of the parts listed at the end of their modules.  Most parts
have a variant of their own in `PROJECT.json` that breaks them.

Why the bounds suffice: every property relates at most two callers and one
shared object, so two of each give every pair; two tokens let one lease expire
and be replaced; the clock's range lets a lease of each length expire while the
other call is at any label; three processes per sandbox let a third run meet the
reaper of the first and the Stop of the second.  Four audit entries wrap a ring
of two twice and rotate a file of two twice, within one second and across
seconds; a third client can report while the first two are a whole trial; with a
single process ID the second VM always gets the ID of the first, so that a stop
of the first sandbox hits it.  `Reserve` in `EvaluationAction` is bounded by
`clock + ttl <= MaxTime` so that each lease has room to end within the model.
The tier daemon keeps nothing that two sandboxes share but the map of names, so
one sandbox per adapter is the whole behaviour; the hosts have everything or
nothing installed, which makes every probe succeed and fail, and the budgets of
0, 1, 100 and 125 ms lie around the start-up times.  Two services make a
rollback that has one to stop and one to excuse; the second attempt meets the
names the first left behind; one stop or delete by others suffices to take away
a container between any two commands.  In `environment` only Apply writes and only Apply and Verify
read what is written, so pairs with an Apply cover every two that can disturb each other,
and Plan and Inspect run beside a call that is refused at once; two changes allow a change and its reversal, so that a
stale read may look current again. Model values that only name callers and
tokens are permuted by `SYMMETRY` in the safety runs, never in the liveness
runs.

`CHECK_DEADLOCK FALSE` appears for the process adapter (its processes are used
up, and a program that has panicked does nothing), for the sandbox and tier
daemons (every request has been answered), for the containers and for the
environment (every call has returned).

## Fairness

* Store: each caller's own steps are weakly fair and a waiting caller's context
  eventually ends.  evaluation.go releases under a five-second context, and the command
  line's contexts are cancelled by signals.  Nobody must call, crash, or let time pass.
* Output root: weak fairness of each execution; strong fairness of getting the mutex,
  which Go's `sync.Mutex` gives by handing itself to a starving waiter.  The command
  ends since the runner kills it at its timeout.  Strong fairness of the flock is not
  assumed: while it is contended the code polls, and a call may end by its context.
* Process adapter: goroutines run; no process has to exit by itself.
* Circuit breaker: time passes, permitted requests end, and refused clients ask again.
* Sandbox daemon: strong fairness of each request's steps, since they wait for a
  `sync.Mutex`; a process whose context ended is killed.  A VM may ignore SIGTERM for ever.

* Tier daemon: handlers and started commands go on, a signalled guest dies, and a client
  does not wait for ever (`internal/sandbox/client.go:52` sets 30 seconds).  Guests need not
  end by themselves, and nobody has to stop or delete.
* Containers: each Deploy and the Execute go on when a command can come back.  A context
  need not end and an engine need not recover; `CallsReturn` says for which calls a
  deadline makes up for it.
* Environment and audit log: safety only.

## What is proved

`ReservationStoreProofs` proves, for any sets of callers, GPUs, owners, tokens and
durations (assumption: `ConstantsAssumption`, durations are positive and the "none"
values are not members of the sets they complete), `TypeOK`, `ExclusiveLease`,
`LeaseOnDisk`, `OnlyOwnerFrees`, `AllOrNothing` and the step-simulation
`Spec => ImplementsLeaseTable`.

`ExclusiveLease` is not inductive: it says nothing of the calls in flight.  The
inductive invariant `StoreInv` adds that the flock is held exactly by the call inside
the critical section (`LockInv`), that what such a call read is still the file
(`SnapshotInv`), that what it is about to write is the file pruned at its own clock
reading plus or minus its own GPUs (`ReserveInv`, `ReleaseInv`), that a Reserve about
to return has its records in the file (`ReturnInv`), and that tokens in the file have
been drawn (`TokenInv`).  Exclusiveness then follows from `LeaseOnDisk`: two holdings
of one GPU are both the one record the file has.  There is one lemma per action; the
action properties and the refinement follow from `StoreInv` and the effect of the two
steps that change the file or the clock.

`AuditAndBreakerProofs` proves `TypeOK`, `DiskInOrder` and `QueryExact` of
`AuditLog` for any requests, providers, capacity, file size, clock, limits and
offsets (assumption: the first two sizes are positive, limits are integers and
offsets natural numbers).  Both properties compare the code's own data with a
list of everything that was appended.

* The ring: `RingInv` says that the `i`-th slot back from `head` holds the `i`-th newest
  entry of the list, which one Append keeps because it moves the head by one, modulo the
  capacity (`Wraps`, `RingAppends`).  The walk of Query and the reference answer then add
  entries at the same steps (`WalkVisits`, `WalkFinds`): the break at the first entry that
  is too old gives the same set of steps as a filter exactly when the entries are in the
  order of their times, which is the condition in `QueryExact`.  The answers are equal
  since both are the same set of steps in increasing order (`NthOfRank`), cut by the same
  page (`PageCuts`).  Writing the filter as a set of steps, and not as a recursion over the
  ring, is what makes the comparison possible without an induction.
* The files: `InOrder` compares positions of entries in the files with their positions in
  the list.  It is inductive together with `FilesInv`: no file of a later second exists yet,
  so a rotation puts the current file behind all others (`RotatesFile`), a new line comes
  behind all lines (`WritesEntry`), and an entry that is lost is an excused one
  (`LosesEntry`).

The same module extends `CircuitBreaker` and proves `BreakerTypeOK`,
`OpensAtThreshold` and `ClosesAfterTrial` for any clients, integer thresholds
and timeout. The two action properties speak of history, so the invariant
`BreakerInv` says where the counters agree with it: `failureCount` with the
streak while the breaker is closed, `successCount` with the trial while it is
half-open.  Elsewhere the counters are stale, and the proof shows that they are
reset before they matter.

`DaemonProofs` proves `GuestInv` and `SelectionInv` of `TierDaemon` for any number of
sandboxes and requests, any hosts, configurations, environments and preferences
(assumption: they have the types that the code gives them, and an embedder registers
tiers that exist).

* Guests: the invariant adds to the three parts of `GuestInv` that a guest is up only on a
  tier whose Start launches one (`UpWasLaunched`), that a request which has not begun has
  nothing (`IdleHasNothing`), and that only clients whose deployment is over have been told
  anything (`ToldIsOver`).  The thirty adapters enter through one lemma, `TierKinds`: a tier
  launches nothing, or leaves its guest to the context of the request, or takes it down in
  Stop and Delete.  An adapter that does none of these would break the proof there.
* Selection: an answer stays the one for the registry as it is (`AnswerKnown`), so the rest
  is about the pure functions.  policy.go's copy of the metadata is the adapters' own, for
  all thirty (`TierCopies`); the sort is by a strict total order, so that candidates have
  exactly one first (`FirstIsFastest`, `FirstIsOnly`); hence a budget removes no candidate
  that could have been first (`BudgetNoRegret`), and a further tier makes the answer no
  slower (`RegistryNoRegret`).  kvm is a candidate nowhere, and where seccomp is, landlock
  is too and comes first (`CandidatesWithoutKvm`, `DefaultStarts`).

The same module extends `SandboxDaemon`, the daemon over the one adapter that is
modelled step by step, and proves `VmTypeOK` and `AliveIsRunning` for any sets
of requests and process IDs (assumption: they are disjoint). The inductive
invariant adds that a sandbox not yet past Start has no VM, which is why the
handler may call it failed, and that a listed sandbox with a VM has its command,
which is why a Stop that finds no command may call it stopped.

`OutputRootProofs` proves `TypeOK`, `RootIsHeld`, `ProvenanceIsTrue` and
`OnlyOwnEmptyRootRemoved` for any executions, processes and roots (assumption: a
root is inside at most one other, and strangers replace only roots with nothing
inside).  That executions exclude each other follows from the coordinator's
flock alone (`CoordinatorInv`); the output lock is not needed for it.  The rest
of the invariant says, label by label, what an execution may conclude from an
identity it has recorded: that the directory is still there (`IdentityInv`),
that the lock file it opened is the one at the path (`LockFileInv`), that it
made the directory it takes for its own or had it replaced before it recorded it
(`CreatedInv`, `MakerInv`), that a directory which passed the clean-up's comparison is that
one, was replaced in a blind moment, or has no lock file and fails the next check
(`CheckedInv`), and what the result says at each label (`StartedInv`, `ReportInv`).

`EvaluationActionProofs` proves `TypeOK`, `ResultIsTrue`,
`LeaseCoversPromptCommand` and `FirstCodeKept` for any limits in `Nat`, a
positive maximal timeout and any skew. `LeaseCoversPromptCommand` needs the
whole chain: the TTL that validation accepted (`LimitsInv`), the lease that is
in the table until its end (`UnexpiredInv`), the command that does not outlive
its timeout (`BoundedInv`), and tokens drawn once, so that no other execution
gives the lease back (`TokenInv`, `LeaseInv`).  `ResultIsTrue` rests on
`GivenBackInv` and `VerdictInv`: what "released" and "success" mean at the
labels before the result is returned.

`ProcessAdapterProofs` proves `TypeOK` and `StoppedIsTrueOfFirstRun` for any
clients, sandboxes and processes.  Stop, Delete and the reaper conclude that a
process has ended from a closed channel; `ProcessInv` says when that conclusion
is right, namely as long as the sandbox has been started once, and `CallInv`
that a call past its receive has such a channel.

`ContainerDeployProofs` proves `LifecycleInv`, `ListSound` and `OnlyOwnTouched`
for any jobs, configurations, plans, attempts and interference (assumption: a
plan is a sequence, and the run is not a job).  The invariant is about who knows
which container: what a Deploy owns is what it knows by id, or by a name that
was free (`OwnInv`), and what it knows by id it owns (`KnownInv`); what a run
owns is in its list but for one container whose id was lost (`RunInv`); the
roll-back has stopped what lies behind it in the list (`RollbackInv`). `PlanInv`
carries the correspondence between the list and the create intents met so far,
which makes `SuccessIsComplete` inductive without an induction over the plan;
`ListInv` says that what a List has not inspected is still on its list.

`EnvironmentProviderProofs` proves `StoreInv`, `ToolkitInv` and `DeviceInv` for
any calls, requests, hosts, configured scopes and number of changes.  Assumptions:
the empty string is no absolute path (`RootsAssumption`), the bound on changes is
a natural number, and a request's scopes are a sequence of names.  Two groups of
lemmas are about the pure functions: what any successful search for a toolkit
says of the host (the version, the configured root, the only match, the places a
WSL inspection may use), and that Reconcile is a function of the set of what two
scopes have seen.  The invariant then says for each call what it knows at its
label and which part still is true of the host if the host has held still: each
kind of call is where its code can be (`PlaceInv`), the inventories are those of
the first scopes in order (`ScopeInv`), the versions passed over could not be
had (`PassedInv`), the toolkit is as it was found (`FoundInv`), the kernel as it
was read (`KnownInv`), the rows are still the host's when the ceiling is read
unless the read is torn (`ReadInv`), and the result is what was learnt
(`ResultInv`).  `StoreIsOneContract` is inductive beside them, since an Apply
returns the contract it writes; that Verify compares its own contract with the
store then gives the Apply behind it.  `ChangeHost` falsifies nothing: what it
could is claimed only of calls it marks as unsteady or torn.

The inductive invariants hold under TLC on the instances of their runs, or on somewhat
larger ones (`TierDaemon` with two sandboxes, `AuditLog` with five requests on a ring of
three); they were checked there before they were proved.

Every invariant and every safety action property of the runs is a theorem.  Only
model-checked is all liveness (`CallsEnd`, `ExecuteReturns`, `StatusCatchesUp`,
`OpenEnds`, `DeletedEnds`, `RequestsReturn`, `DeployAnswered`, `CallsReturn`),
which is out of the prover's reach.

## What the code does not do

Five statements that the code contradicts are kept as definitions, with a
configuration that makes TLC print the behaviour.  They are not among the runs
of `PROJECT.json`, whose runs state what does hold.

* `EvaluationLeaseExpiry.cfg`, `LeaseCoversCommand`: `pkg/orchestrate/evaluation.go:37-38`
  says the skew is there "so the GPU lease cannot expire while the bounded command is still
  running".  Only the command is bounded; the snapshot and the inspection run under the
  lease without a bound tied to it (`evaluation.go:409`), and `minimumTTL` is clamped to 24
  hours.  `LeaseCoversPromptCommand` states what does hold.
* `ProcessAdapterOrphan.cfg`, `StoppedHasNoProcess`:
  `internal/adapters/process/process.go:112`, the reaper closes the channel before it takes
  the mutex and then marks the entry's *current* run as stopped.  A Start in that window
  leaves a live process that Stop and Delete no longer signal; `StoppedIsTrueOfFirstRun`
  states what does hold.
* `SandboxDaemonDeployed.cfg`, `DeployedStaysUp`: `internal/api/router.go:166` starts the
  VM with the request's context, which kills it when the handler returns, while
  `internal/domain/sandbox.go:191` goes on to call it running.  `GuestOutlivesRequest` of
  `TierDaemon` says on which tiers a guest does outlive its request.
* `OutputRootReport.cfg`, `CreatedIsReported`: `pkg/orchestrate/EVALUATION.md:59` says of
  `output_root_created` that "this attempt created the directory (cleared if later
  removed)".  When the Mkdir succeeds and the Lstat or the validation after it fails
  (`evaluation_filesystem.go:149`), Execute returns without a clean-up and without the
  flag (`evaluation.go:205-208`).  `ProvenanceIsTrue` is about roots that were accepted.
* `EnvironmentWSLProbe.cfg`, `EveryProbeInDistribution`:
  `pkg/orchestrate/evaluation_inspector.go:23-24`
  says that for a WSL distribution "every probe is routed through that distribution", but
  a root that is absolute on the host has the host's nvcc run (369-371).  `WSLStaysInWSL`
  says which roots can get there.

Other disagreements met while translating, which the modules follow as the code
has them:

* `internal/api/audit.go:110` ends a query at the first entry that is too old, since
  "entries are monotonic", but they are stamped before the mutex is taken (`QueryExact`
  says what holds); `internal/listen/listen.go:105` closes a channel that Close closes too.
* Tier policy: `policy.go:448-451` says prod-secure rejects every tier below high, yet a
  trusted `cli` or `tool` gets native; `policy.go:92-97` suggests only tiers with an
  implemented lifecycle, yet seccomp is picked from a registry that has little else
  (`DefaultAnswerStarts` is stated for the default registry); `policy.go:112-114` says that
  the order of the candidates matters and `policy.go:149` that the sort is a no-op, yet the
  sort alone decides (high security on Linux gets distroless at 80 ms, listed seventh, and
  not firecracker), so that `TierPolicy` has sets of candidates.
* Tier adapters: `registry.go:33` says Delete releases all resources, and five Deletes do
  nothing (`DeletedIsGone` names them); a pkill-based Delete of a guest that has already
  ended reports an error; the probe of userns looks at the size of a procfs file, which is
  always zero; `newSandbox` calls a descriptor running before anything started; ten names
  of the daemon's numbering have no adapter, and its numbers are not those of the
  adapters' own Info.
* Containers: a podman clean-up has no deadline once the context is taken off, so a hung
  `podman rm` hangs Deploy (`CallsReturn` excuses it); a create whose inspect fails leaves
  its container; rollback stops services and removes none, so a retry under the same run
  id meets its own names; the two `parseBytes`, which are not modelled, disagree: podman's
  wants a space before the unit and takes KB, MB and GB for powers of 1024, the native one
  reads only what stands before the first space.
* Environment: a timeout while the first toolkit version is inspected makes Resolve take
  the transitional one (`SecondChoiceLast` allows it); the ceiling and the driver in a
  contract come from the first scope, also for a WSL request; an upgrade between the two
  commands that read them pairs one driver with the other's ceiling (`ContractCompatible`
  excepts it).

## Not modelled, and why

Byte-level matters: JSON and CSV syntax, path cleaning and symbolic links, file modes,
`fsync` (a rename is taken to be durable), hashing of manifests, the content of
inspection reports, log text.  Windows lock variants differ from Unix in the system
call only.  Token collisions are excluded: a token is 32 random bytes.  Clocks that go
backwards are excluded: `store.now` is the wall clock of one host.

Components left out:

* Rate limiters: token buckets in floating point behind one mutex; a model in fractions
  would check its own rounding.
* Listener and plugin registry: planned, see item 13; the listener's window is among the hazards.
* gVisor adapter (`internal/adapters/gvisor`): like the Firecracker adapter a map of
  sandboxes and commands behind one mutex, but every command is a `runsc` call that
  returns, so Stop never waits for a process under the mutex.  The tier of the same name
  is modelled.
* Engine's Deploy, Stop and Delete (`orchestrate.go`), which choose one of three adapters by
  number, and composition, a pure plan; the Apple and WSL providers of `NewProvider`
  (`internal/adapters/sandbox.go`) are stubs.
* Snapshot store and metrics: maps and counters whose operations are single critical
  sections.
* Native and platform sandboxes: kernel calls around one child process.
* Retry policy: a loop without shared state.  Tokens, configuration, validation, command
  line, clients and Rust crates: no state two steps could disagree about.

The arguments of the tier adapters' commands, authentication and the read-only routes of
the API are abstracted away as well.
