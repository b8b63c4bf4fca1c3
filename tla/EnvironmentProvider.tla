------------------------- MODULE EnvironmentProvider -------------------------
(***************************************************************************)
(* Plan, Apply and Verify of pkg/environment/provider.go over one state     *)
(* store, and Inspect of pkg/orchestrate/evaluation_inspector.go, as calls  *)
(* that run at the same time.  Each reads the host piece by piece while      *)
(* somebody installs toolkits and drivers; the search for one toolkit       *)
(* version is one step.                                                     *)
(*                                                                          *)
(* The digest of a contract is the contract without what CanonicalJSON      *)
(* leaves out; SHA-256 is taken to have no collisions.                      *)
(***************************************************************************)
EXTENDS HostFacts

CONSTANTS
    Call,        \* calls
    Workloads,   \* what the calls ask: call -> request
    Hosts,       \* states the host may be in, by name
    MaxChanges   \* changes to the host

(***************************************************************************)
(* A request is [op, version, profile, distribution, own, root, env,        *)
(* scopes, reuse, compiled]: own is the toolkit root that the inspector is   *)
(* configured with and root the one the request names, scopes the inventory *)
(* adapters in order, reuse says that Inspect is handed the inventory which  *)
(* the action has read.                                                      *)
(***************************************************************************)
Versions == {"13.0", "12.9", "12.4"}

ASSUME BoundAssumption == MaxChanges \in Nat

ASSUME WorkloadsAssumption ==
    \A w \in Workloads, c \in Call : w[c].scopes \in Seq(STRING)

VARIABLES
    state,       \* name of the state the host is in
    changes,
    store,       \* StateStore: profile -> digest, or that it has none, or that there is no store
    req,         \* each call's request
    at,          \* where each call is
    inventories, \* what the scopes have answered
    left,        \* toolkit versions still to try
    known,       \* what has been read or concluded: rows, device, toolkit, kernel
    result,      \* what the call returned
    steady,      \* the host has not changed since the call began
    torn         \* the host has changed between the two commands of an inventory

calls == <<req, at, inventories, left, known, result, steady, torn>>
vars == <<state, changes, store, calls>>

host == Hosts[state]

None == "none"
Nothing == [rows |-> <<>>, device |-> Error("none"), toolkit |-> Error("none"), kernel |-> None]

Init ==
    /\ state \in DOMAIN Hosts
    /\ changes = 0
    /\ \E none \in {"no entry", "no store"} : store = [p \in DOMAIN Profile |-> Error(none)]
    /\ req \in Workloads
    /\ at = [c \in Call |-> "idle"]
    /\ inventories = [c \in Call |-> <<>>]
    /\ left = [c \in Call |-> <<>>]
    /\ known = [c \in Call |-> Nothing]
    /\ result = [c \in Call |-> Error("none")]
    /\ steady = [c \in Call |-> TRUE]
    /\ torn = [c \in Call |-> FALSE]
-----------------------------------------------------------------------------
Op(c) == req[c].op

Goto(c, q) == at' = [at EXCEPT ![c] = q]

Return(c, r) == Goto(c, "done") /\ result' = [result EXCEPT ![c] = r]

Learn(c, field, v) == known' = [known EXCEPT ![c] = [@ EXCEPT ![field] = v]]

Inspecting(c) == Op(c) = "inspect"

\* The scopes a call reads: Inspect only the one it executes in, unless it is
\* handed the inventory that the action has read.
scopes(c) ==
    IF ~Inspecting(c) \/ req[c].reuse THEN req[c].scopes
    ELSE <<ExecutionScope(req[c].distribution)>>

ProviderVersion == "v1"

validateRequest(r) ==
    IF r.version # ProviderVersion \/ r.profile = "" THEN "invalid_request"
    ELSE IF r.profile \notin DOMAIN Profile THEN "invalid_profile" ELSE "nil"

LastFirst(p) == Reverse(Profile[p].toolkits)

ToolkitCandidates(p) == Profile[p].toolkits

\* The request is validated; Inspect takes its toolkit from the manifest.
Begin(c) ==
    /\ at[c] = "idle"
    /\ IF validateRequest(req[c]) # "nil"
       THEN Return(c, Error(validateRequest(req[c]))) /\ UNCHANGED <<left, steady>>
       ELSE /\ Goto(c, IF Inspecting(c) /\ ~req[c].reuse THEN "podman" ELSE "inventory")
            /\ UNCHANGED result
            /\ left' = [left EXCEPT ![c] = ToolkitCandidates(req[c].profile)]
            /\ steady' = [steady EXCEPT ![c] = TRUE]
    /\ UNCHANGED <<req, inventories, known, torn>>

\* podman info must answer before anything else is looked at.
PodmanInfo(c) ==
    /\ at[c] = "podman"
    /\ IF host.podman
       THEN Goto(c, IF req[c].reuse THEN "toolkit" ELSE "inventory") /\ UNCHANGED result
       ELSE Return(c, Error("inspection_failed"))
    /\ UNCHANGED <<req, inventories, left, known, steady, torn>>

\* One inventory adapter: the rows, and with a second command the ceiling.
QueryRows(c) ==
    /\ at[c] = "inventory"
    /\ Len(inventories[c]) < Len(scopes(c))
    /\ Learn(c, "rows", host.rows[scopes(c)[Len(inventories[c]) + 1]])
    /\ Goto(c, "ceiling")
    /\ UNCHANGED <<req, inventories, left, result, steady, torn>>

\* An error of one adapter is an error of all.
runInventory(c) ==
    /\ at[c] = "ceiling"
    /\ LET scope == scopes(c)[Len(inventories[c]) + 1]
           found == parseInventoryCSV(known[c].rows, scope, host.ceiling[scope])
       IN  IF found.err # "nil"
           THEN Return(c, found) /\ UNCHANGED inventories
           ELSE /\ inventories' = [inventories EXCEPT ![c] = Append(@, found)]
                /\ Goto(c, "inventory") /\ UNCHANGED result
    /\ Learn(c, "rows", <<>>)
    /\ UNCHANGED <<req, left, steady, torn>>

\* The adapters' answers together, and the profile's device among them; Inspect
\* needs those of the scope it executes in.
FindDevice(c) ==
    /\ at[c] = "inventory"
    /\ Len(inventories[c]) = Len(scopes(c))
    /\ LET merged == InventoryWithScopes(inventories[c])
           scoped == ExecutionScopedInventory(inventories[c], req[c].distribution)
           failed == merged.err # "nil" \/ (Inspecting(c) /\ scoped.err # "nil")
           mine   == IF failed THEN {}
                     ELSE {d \in merged.devices : d.d.uuid = Profile[req[c].profile].uuid}
       IN  CASE failed -> Return(c, Error("inventory_failed")) /\ UNCHANGED known
             [] ~failed /\ Inspecting(c) ->
                    /\ Goto(c, IF req[c].reuse THEN "podman" ELSE "toolkit")
                    /\ UNCHANGED <<result, known>>
             [] ~failed /\ ~Inspecting(c) /\ mine = {} ->
                    Return(c, Error("gpu_not_found")) /\ UNCHANGED known
             [] ~failed /\ ~Inspecting(c) /\ mine # {} ->
                    /\ Learn(c, "device", CHOOSE d \in mine : TRUE)
                    /\ Goto(c, "toolkit") /\ UNCHANGED result
    /\ UNCHANGED <<req, inventories, left, steady, torn>>

RequestFirst(c, version) ==
    [distribution |-> IF Inspecting(c) THEN req[c].distribution ELSE "",
     root |-> IF req[c].root = "" \/ Inspecting(c) THEN req[c].own ELSE req[c].root,
     env |-> req[c].env, version |-> version]

\* The provider looks on the host, whatever distribution it is asked for, and at
\* the request's root unless its inspector has one; Inspect looks where it executes.
toolkitDiscoveryRequest(c, version) ==
    [distribution |-> IF Inspecting(c) THEN req[c].distribution ELSE "",
     root |-> IF req[c].own # "" \/ Inspecting(c) THEN req[c].own ELSE req[c].root,
     env |-> req[c].env, version |-> version]

\* Inspect looks only if something is to be compiled.
FindToolkit(c) ==
    IF Inspecting(c) /\ req[c].compiled THEN Precompiled(Head(left[c]))
    ELSE resolveToolkit(toolkitDiscoveryRequest(c, Head(left[c])), host)

\* Resolve tries the profile's versions in turn and keeps the last error;
\* Inspect has one version to try.
Resolve(c) ==
    /\ at[c] = "toolkit"
    /\ LET found == FindToolkit(c)
           last  == Len(left[c]) = 1 \/ Inspecting(c)
       IN  CASE found.err = "nil" /\ Inspecting(c) ->
                    Learn(c, "toolkit", found) /\ Goto(c, "cdi") /\ UNCHANGED <<left, result>>
             [] found.err = "nil" /\ ~Inspecting(c) ->
                    IF ValidateCompatibility(known[c].device.d, found.version)
                    THEN /\ Learn(c, "toolkit", found) /\ UNCHANGED <<left, result>>
                         /\ Goto(c, IF req[c].distribution = "" THEN "state" ELSE "wsl")
                    ELSE Return(c, Error("incompatible")) /\ UNCHANGED <<known, left>>
             [] found.err # "nil" /\ last -> Return(c, found) /\ UNCHANGED <<known, left>>
             [] found.err # "nil" /\ ~last ->
                    left' = [left EXCEPT ![c] = Tail(@)] /\ UNCHANGED <<at, known, result>>
    /\ UNCHANGED <<req, inventories, steady, torn>>

InspectWSL(c) ==
    /\ at[c] = "wsl"
    /\ LET kernel == host.kernel[req[c].distribution]
       IN  IF kernel = None
           THEN Return(c, Error("wsl_inspection_failed")) /\ UNCHANGED known
           ELSE Learn(c, "kernel", kernel) /\ Goto(c, "state") /\ UNCHANGED result
    /\ UNCHANGED <<req, inventories, left, steady, torn>>

\* Inspect ends with the CDI devices.
ListCDI(c) ==
    /\ at[c] = "cdi"
    /\ LET inventory == ExecutionScopedInventory(inventories[c], req[c].distribution)
       IN  IF host.ctk
           THEN Return(c, [err |-> "nil", toolkit |-> known[c].toolkit,
                           devices |-> inventory.devices, scope |-> inventory.scope,
                           cdi |-> expandCDIDevices(host.cdi, {d.uuid : d \in inventory.devices})])
           ELSE Return(c, Error("inspection_failed"))
    /\ UNCHANGED <<req, inventories, left, known, steady, torn>>

CanonicalJSON(r, k) ==
    [profile |-> r.profile, device |-> k.device,
     wsl |-> [distribution |-> r.distribution, kernel |-> k.kernel],
     toolkit |-> [version |-> k.toolkit.version, root |-> k.toolkit.root]]

Digest(c) == [err |-> "nil", contract |-> CanonicalJSON(req[c], known[c])]

Success(c, noOp) == Return(c, [err |-> "nil", noOp |-> noOp, contract |-> Digest(c).contract])

PlanRecords(c) ==
    /\ at[c] = "state" /\ Op(c) = "plan"
    /\ Success(c, FALSE)
    /\ store' = [store EXCEPT ![req[c].profile] = Digest(c)]
    /\ UNCHANGED <<req, inventories, left, known, steady, torn>>

Plan(c) ==
    /\ at[c] = "state" /\ Op(c) = "plan"
    /\ Success(c, FALSE)
    /\ UNCHANGED <<store, req, inventories, left, known, steady, torn>>

\* Apply looks at the store, if there is one, and, in a second step, writes to it.
ApplyCheck(c) ==
    /\ at[c] = "state" /\ Op(c) = "apply"
    /\ LET applied == store[req[c].profile]
       IN  IF applied.err = "no store" \/ applied = Digest(c) THEN Success(c, applied.err = "nil")
           ELSE Goto(c, "record") /\ UNCHANGED result
    /\ UNCHANGED <<store, req, inventories, left, known, steady, torn>>

RecordsOutcome(c) ==
    /\ at[c] = "record"
    /\ \E r \in {Digest(c), Error("apply_failed")} :
          /\ store' = [store EXCEPT ![req[c].profile] = r]
          /\ IF r.err = "nil" THEN Success(c, FALSE) ELSE Return(c, r)
    /\ UNCHANGED <<req, inventories, left, known, steady, torn>>

RecordApplied(c) ==
    /\ at[c] = "record"
    /\ \/ /\ store' = [store EXCEPT ![req[c].profile] = Digest(c)]
          /\ Success(c, FALSE)
       \/ /\ Return(c, Error("apply_failed")) /\ UNCHANGED store
    /\ UNCHANGED <<req, inventories, left, known, steady, torn>>

VerifyIsApplied(c) ==
    /\ at[c] = "state" /\ Op(c) = "verify"
    /\ LET applied == store[req[c].profile]
       IN  CASE applied.err = "no store" -> Return(c, Error("environment_not_applied"))
             [] applied.err = "no entry" -> Return(c, Error("environment_drift"))
             [] applied.err = "nil" -> Success(c, FALSE)
    /\ UNCHANGED <<store, req, inventories, left, known, steady, torn>>

Verify(c) ==
    /\ at[c] = "state" /\ Op(c) = "verify"
    /\ LET applied == store[req[c].profile]
       IN  CASE applied.err = "no store" -> Return(c, Error("environment_not_applied"))
             [] applied.err # "no store" /\ applied # Digest(c) -> Return(c, Error("environment_drift"))
             [] applied = Digest(c) -> Success(c, FALSE)
    /\ UNCHANGED <<store, req, inventories, left, known, steady, torn>>

Observe(c) ==
    /\ \/ Begin(c) \/ PodmanInfo(c) \/ QueryRows(c) \/ runInventory(c) \/ FindDevice(c)
       \/ Resolve(c) \/ InspectWSL(c) \/ ListCDI(c)
    /\ UNCHANGED store

Step(c) ==
    /\ Observe(c) \/ Plan(c) \/ ApplyCheck(c) \/ RecordApplied(c) \/ Verify(c)
    /\ UNCHANGED <<state, changes>>

\* Somebody installs or removes something.
ChangeHost ==
    /\ changes < MaxChanges
    /\ changes' = changes + 1
    /\ state' \in DOMAIN Hosts \ {state}
    /\ steady' = [c \in Call |-> FALSE]
    /\ torn' = [c \in Call |-> torn[c] \/ at[c] = "ceiling"]
    /\ UNCHANGED <<store, req, at, inventories, left, known, result>>

Next == ChangeHost \/ \E c \in Call : Step(c)

Spec == Init /\ [][Next]_vars
-----------------------------------------------------------------------------
TypeOK ==
    /\ state \in DOMAIN Hosts /\ changes \in 0 .. MaxChanges
    /\ at \in [Call -> {"idle", "podman", "inventory", "ceiling", "toolkit", "wsl", "cdi",
                       "state", "record", "done"}]
    /\ \A p \in DOMAIN store : store[p].err \in {"no entry", "no store", "nil"}
    /\ \A c \in Call : Len(inventories[c]) <= Len(scopes(c))
    /\ steady \in [Call -> BOOLEAN] /\ torn \in [Call -> BOOLEAN]

Returned(c, op) == at[c] = "done" /\ Op(c) = op
Succeeded(c, op) == Returned(c, op) /\ result[c].err = "nil"
Contracted(c) == at[c] = "done" /\ result[c].err = "nil" /\ Op(c) # "inspect"

\* Verify fails closed, also while other calls apply and the host changes: it
\* succeeds only if there is a store and some Apply for the profile and the
\* distribution has returned the same contract; and if the host has held still
\* since it began, the host is in that state.
VerifyFailsClosed ==
    \A c \in Call : Succeeded(c, "verify") =>
        LET k == result[c].contract
        IN  /\ store[req[c].profile].err = "nil"
            /\ \E d \in Call : /\ Succeeded(d, "apply") /\ result[d].contract = k
                              /\ req[d].profile = req[c].profile
                              /\ req[d].distribution = req[c].distribution
            /\ steady[c] =>
                  /\ host.nvcc[""][k.toolkit.root] = k.toolkit.version
                  /\ req[c].distribution # "" => k.wsl.kernel = host.kernel[req[c].distribution]

\* What is in the store is what an Apply for that profile concluded, however
\* their reads and writes interleave: never a mixture, never another profile's.
StoreIsOneContract ==
    \A p \in DOMAIN store : store[p].err = "nil" =>
        /\ store[p].contract.device.d.uuid = Profile[p].uuid
        /\ \E c \in Call : Succeeded(c, "apply") /\ store[p].contract = result[c].contract

\* The toolkit root that the inspector is configured with, or else the one that
\* the request names, is used: a lower place never stands in for it.
ConfiguredRootUsed ==
    \A c \in Call :
        /\ Contracted(c) /\ req[c].own # "" => result[c].contract.toolkit.root = req[c].own
        /\ Contracted(c) /\ req[c].own = "" /\ req[c].root # ""
              => result[c].contract.toolkit.root = req[c].root
        /\ Succeeded(c, "inspect") /\ ~req[c].compiled /\ req[c].own # ""
              => result[c].toolkit.root = req[c].own

\* An inspection for a WSL distribution takes its devices from the inventory of
\* that distribution and, if something is to be compiled, its toolkit from the
\* inspector's root, from the request's environment or from where the distribution
\* keeps it; the daemon's own environment and program directories have no say.
WSLStaysInWSL ==
    \A c \in Call : Succeeded(c, "inspect") /\ req[c].distribution # "" =>
        /\ result[c].scope = req[c].distribution
        /\ ~req[c].compiled =>
              LET t == result[c].toolkit
              IN  \E h \in Range(Hosts) :
                     /\ steady[c] => h = host
                     /\ t.root \in {req[c].own, req[c].env["root"], req[c].env[t.version],
                                   req[c].env["path"], h.wslRoot[t.version]}

\* Of two installations of one version where installers put them, none is chosen.
NoArbitraryChoice ==
    \A c \in Call : at[c] = "done" /\ steady[c] /\ result[c].err = "nil" =>
        LET t == known[c].toolkit
            q == toolkitDiscoveryRequest(c, t.version)
        IN  t.group = 4 =>
                {r \in standardRoots(q, host) : inspectToolkitCandidate(q, host, r) = t.version} = {t.root}

\* A second choice (pascal's 12.4) is taken only if the search for the first fails:
\* no place has it, or its inspection timed out or was ambiguous.
SecondChoiceLast ==
    \A c \in Call : Contracted(c) /\ steady[c] =>
        LET k == result[c].contract
            best == Profile[k.profile].toolkits[1]
        IN  k.toolkit.version # best => resolveToolkit(toolkitDiscoveryRequest(c, best), host).err # "nil"

\* The reconciled devices are the same set of UUIDs, seen at the same indices,
\* in whatever order the scopes are read; indices never identify a device.
ReconcileByUUID ==
    \A c \in Call : at[c] = "inventory" /\ Len(inventories[c]) = 2 =>
        LET one == Reconcile(inventories[c])
            two == Reconcile(<<inventories[c][2], inventories[c][1]>>)
            ids(r) == {[uuid |-> d.d.uuid, seen |-> d.observations] : d \in r.devices}
        IN  /\ one.err = two.err
            /\ one.err = "nil" =>
                  /\ ids(one) = ids(two)
                  /\ {d.d.uuid : d \in one.devices}
                        = UNION {{d.uuid : d \in inventories[c][i].devices} : i \in 1 .. 2}

\* A contract's toolkit is one the profile accepts, and the driver that the contract
\* names could run it: a host has shown the GPU with that driver in one of the
\* scopes, and its ceiling there was not below the toolkit.  The exception is a
\* driver that was changed between the two commands that read it and its ceiling.
ContractCompatible ==
    \A c \in Call : Contracted(c) =>
        LET k == result[c].contract
        IN  /\ k.toolkit.version \in Range(Profile[k.profile].toolkits)
            /\ ~torn[c] =>
                  \E h \in Range(Hosts), s \in Range(scopes(c)) :
                     /\ ~Below(h.ceiling[s], parseMajorMinor[k.toolkit.version])
                     /\ \E i \in DOMAIN h.rows[s] :
                           /\ h.rows[s][i].uuid = Profile[k.profile].uuid
                           /\ h.rows[s][i].driver = k.device.d.driver

\* The store of applied digests, and Verify that trusts it.
StoreInv == TypeOK /\ StoreIsOneContract /\ VerifyFailsClosed

\* The toolkit is found by precedence: what is configured first, nothing of the
\* daemon's for WSL, nothing by chance, the second choice last.
ToolkitInv == ConfiguredRootUsed /\ WSLStaysInWSL /\ NoArbitraryChoice /\ SecondChoiceLast

\* Devices are merged by identity, and the contracted toolkit runs on the driver.
DeviceInv == ReconcileByUUID /\ ContractCompatible
-----------------------------------------------------------------------------
\* What the comment on HostEvaluationInspector says and the code does not do: for a
\* WSL distribution every probe, nvcc's too, is made in the distribution.
EveryProbeInDistribution ==
    \A c \in Call : Succeeded(c, "inspect") /\ req[c].distribution # "" /\ ~req[c].compiled
        => RunsIn(toolkitDiscoveryRequest(c, result[c].toolkit.version), result[c].toolkit.root)
              = req[c].distribution
=============================================================================
