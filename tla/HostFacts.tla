------------------------------ MODULE HostFacts ------------------------------
(***************************************************************************)
(* What the environment provider and the evaluation inspector conclude from *)
(* what a host answers: the GPU inventory (pkg/gpu/inventory.go and         *)
(* contracts.go), the CUDA toolkit (pkg/environment/inspector.go, of which  *)
(* pkg/orchestrate/evaluation_inspector.go has a copy) and their            *)
(* compatibility.  Pure operators; a result carries err = "nil" or a code.  *)
(*                                                                          *)
(* A host is a record                                                       *)
(*   rows       scope -> the rows nvidia-smi prints there, each a record    *)
(*              [uuid, index, name, cc, driver]; cc is <<major, minor>>     *)
(*   ceiling    scope -> the driver's CUDA ceiling, <<major, minor>>        *)
(*   nvcc       distribution -> root -> the version that the nvcc there     *)
(*              reports, "unknown", "absent" (nothing to run) or "slow"     *)
(*              (times out); the distribution "" is the host itself         *)
(*   env        the daemon's environment: the configured root, "root", the  *)
(*              versioned CUDA_PATHs by version, CUDA_PATH, "path", and the *)
(*              two program directories                                     *)
(*   wslRoot    version -> the root in a WSL distribution                   *)
(*   kernel     distribution -> its kernel, "none" if it does not answer    *)
(*   cdi        the devices nvidia-ctk lists, "all" among them perhaps      *)
(*   podman     podman info answers;  ctk  nvidia-ctk answers               *)
(* In an environment "" is an unset variable and "clash" one that a request *)
(* sets twice, in different case, to different values.  A scope is          *)
(* "windows-host" or the name of a WSL distribution.                        *)
(***************************************************************************)
EXTENDS Integers, Sequences, SequencesExt, FiniteSets, Functions, TLC

CONSTANTS
    HostAbsolute,   \* roots that filepath.IsAbs takes: the host's
    SlashAbsolute,  \* roots that path.IsAbs takes
    InstallRoot,    \* program directory -> version -> the root an installer uses
    DefaultDir      \* C:\Program Files

ASSUME RootsAssumption == "" \notin HostAbsolute \cup SlashAbsolute

Error(code) == [err |-> code]

\* Lexicographic order on <<major, minor>>.
Below(v, w) == v[1] < w[1] \/ (v[1] = w[1] /\ v[2] < w[2])

parseMajorMinor == ("13.0" :> <<13, 0>>) @@ ("12.9" :> <<12, 9>>) @@ ("12.4" :> <<12, 4>>)
-----------------------------------------------------------------------------
(***************************************************************************)
(* Inventory.                                                               *)
(***************************************************************************)
architectureForComputeCapability(cc) ==
    CASE cc[1] = 6 -> "Pascal"
      [] cc[1] = 7 -> IF cc[2] \in {0, 2} THEN "Volta" ELSE "Turing"
      [] cc[1] = 8 -> IF cc[2] = 9 THEN "Ada" ELSE "Ampere"
      [] cc[1] = 9 -> "Hopper"
      [] OTHER     -> ""

\* One scope's inventory: no row twice, one driver, at least one GPU.
parseInventoryCSV(rows, scope, ceiling) ==
    IF \/ rows = <<>>
       \/ \E i, j \in DOMAIN rows : i < j /\ rows[i].uuid = rows[j].uuid
       \/ \E i, j \in DOMAIN rows : rows[i].driver # rows[j].driver
       \/ \E i \in DOMAIN rows : rows[i].index < 0
    THEN Error("inventory_failed")
    ELSE [err |-> "nil", scope |-> scope,
          devices |-> {[uuid |-> rows[i].uuid, name |-> rows[i].name, cc |-> rows[i].cc,
                        architecture |-> architectureForComputeCapability(rows[i].cc),
                        driver |-> rows[i].driver, ceiling |-> ceiling,
                        index |-> rows[i].index] : i \in DOMAIN rows}]

MergedByIndex(inventories) ==
    LET seen == UNION {{[i |-> i, d |-> d] : d \in inventories[i].devices} : i \in DOMAIN inventories}
    IN  [err |-> "nil",
         devices |-> {[d |-> s.d, observations |-> {<<inventories[t.i].scope, t.d.index>> :
                                        t \in {u \in seen : u.d.index = s.d.index}}] :
                         s \in {t \in seen : t.i = 1}}]

\* Devices are merged by UUID; what two scopes say of one must agree, and its
\* driver and ceiling are those of the first scope that shows it.
Reconcile(inventories) ==
    LET seen == UNION {{[i |-> i, d |-> d] : d \in inventories[i].devices} : i \in DOMAIN inventories}
        same(s) == {t \in seen : t.d.uuid = s.d.uuid}
    IN  IF \E s \in seen : \E t \in same(s) :
              <<t.d.name, t.d.cc, t.d.architecture>> # <<s.d.name, s.d.cc, s.d.architecture>>
        THEN Error("inventory_failed")
        ELSE [err |-> "nil",
              devices |-> {[d |-> s.d, observations |-> {<<inventories[t.i].scope, t.d.index>> :
                                                            t \in same(s)}] :
                              s \in {u \in seen : \A t \in same(u) : u.i <= t.i}}]

\* Without an adapter there is nothing to reconcile.
InventoryWithScopes(inventories) ==
    IF inventories = <<>> THEN Error("inventory_failed") ELSE Reconcile(inventories)

ExecutionScope(distribution) == IF distribution = "" THEN "windows-host" ELSE distribution

AnyScope(inventories, distribution) == Head(inventories)

\* The inventory of the scope that an evaluation executes in, if it was read.
ExecutionScopedInventory(inventories, distribution) ==
    LET mine == {i \in DOMAIN inventories : inventories[i].scope = ExecutionScope(distribution)}
    IN  IF mine = {} THEN Error("inventory_failed") ELSE inventories[CHOOSE i \in mine : TRUE]

IgnoresCeiling(d, version) == ~(parseMajorMinor[version][1] >= 13 /\ d.cc[1] = 6)

\* gpu.ValidateCompatibility of a compiled kernel.
ValidateCompatibility(d, version) ==
    LET toolkit == parseMajorMinor[version]
    IN  /\ ~(toolkit[1] >= 13 /\ (d.architecture = "Pascal" \/ d.cc[1] = 6))
        /\ ~Below(d.ceiling, toolkit)
-----------------------------------------------------------------------------
(***************************************************************************)
(* Toolkit.  A request for discovery is [distribution, root, env, version], *)
(* "" being no distribution and no configured root.                         *)
(***************************************************************************)
PrefersHost(q, h, var) == IF h.env[var] # "" THEN h.env[var] ELSE q.env[var]

\* A variable of the request, or of the daemon unless the request is for WSL.
environmentValue(q, h, var) ==
    IF q.env[var] # "" \/ q.distribution # "" THEN q.env[var] ELSE h.env[var]

uniqueNonempty(roots) == roots \ {""}

ProgramDirs == {"ProgramFiles", "ProgramW6432"}

\* A variable that is looked at has contradictory values in the request.
conflicting(q, h) ==
    \E var \in {q.version, "path"} \cup (IF q.root = "" THEN {"root"} ELSE {})
                                  \cup (IF q.distribution = "" THEN ProgramDirs ELSE {}) :
        environmentValue(q, h, var) = "clash"

\* Where a root's nvcc is run: one of the host's roots on the host, also for a
\* distribution.
RunsIn(q, root) == IF root \in HostAbsolute THEN "" ELSE q.distribution

\* What a root's nvcc reports; a root that is not absolute is not tried.
inspectToolkitCandidate(q, h, root) ==
    IF root \in HostAbsolute \/ (q.distribution # "" /\ root \in SlashAbsolute)
    THEN h.nvcc[RunsIn(q, root)][root] ELSE "absent"

programRoots(q, h) ==
    LET set == uniqueNonempty({environmentValue(q, h, var) : var \in ProgramDirs})
    IN  IF set = {} THEN {DefaultDir} ELSE set

\* Where installers put a version: in WSL, or under the program directories.
standardRoots(q, h) ==
    IF q.distribution # "" THEN {h.wslRoot[q.version]}
    ELSE {InstallRoot[dir][q.version] : dir \in programRoots(q, h)}

\* The places to look, in order of precedence.
toolkitCandidateGroups(q, h) ==
    LET configured == IF q.root # "" THEN q.root ELSE environmentValue(q, h, "root")
        group(roots, a) == [roots |-> uniqueNonempty(roots), authoritative |-> a]
    IN  <<group({configured}, TRUE),
          group({environmentValue(q, h, q.version)}, TRUE),
          group({environmentValue(q, h, "path")}, FALSE),
          group(standardRoots(q, h), FALSE)>>

TakesAny(i, matches) == CHOOSE r \in matches : TRUE

\* A group with two matching roots is ambiguous.
OneMatch(i, matches) == IF Cardinality(matches) = 1 THEN CHOOSE r \in matches : TRUE ELSE "ambiguous"

FallsThrough(group, wrong, missing) == FALSE

\* A configured place that does not have the version ends the search.
Settles(group, wrong, missing) == group.authoritative /\ group.roots # {} /\ (wrong \/ missing)

resolveToolkit(q, h) ==
    LET groups   == toolkitCandidateGroups(q, h)
        roots(i) == groups[i].roots
        reports(i) == {inspectToolkitCandidate(q, h, r) : r \in roots(i)}
        matches(i) == {r \in roots(i) : inspectToolkitCandidate(q, h, r) = q.version}
        slow(i)  == "slow" \in reports(i)
        wrong(i) == \E k \in 1 .. i : reports(k) \ {"absent", "slow", q.version} # {}
        missing(i) == "absent" \in reports(i)
        ends == {i \in 1 .. 4 : \/ slow(i) \/ matches(i) # {}
                                \/ Settles(groups[i], wrong(i), missing(i))}
        i    == CHOOSE k \in ends : \A l \in ends : k <= l
    IN  IF conflicting(q, h) THEN Error("toolkit_ambiguous")
        ELSE IF ends = {} THEN Error(IF wrong(4) THEN "toolkit_version_mismatch" ELSE "toolkit_not_found")
        ELSE IF slow(i) THEN Error("toolkit_inspection_timeout")
        ELSE IF matches(i) = {} THEN Error(IF wrong(i) THEN "toolkit_version_mismatch" ELSE "toolkit_not_found")
        ELSE LET root == OneMatch(i, matches(i))
             IN  IF root = "ambiguous" THEN Error("toolkit_ambiguous")
                 ELSE [err |-> "nil", version |-> q.version, root |-> root, group |-> i]

\* What stands for the toolkit if nothing is to be compiled.
Precompiled(version) == [err |-> "nil", version |-> version, root |-> "", group |-> 0]
-----------------------------------------------------------------------------
\* The two profiles that can be locked: the GPU, and the toolkits to try.
Profile == [ampere |-> [uuid |-> "A", toolkits |-> <<"13.0">>],
            pascal |-> [uuid |-> "P", toolkits |-> <<"12.9", "12.4">>]]

\* The devices a container can be given: "all" stands for the inventory's.
expandCDIDevices(cdi, uuids) == (cdi \ {"all"}) \cup (IF "all" \in cdi THEN uuids ELSE {})
=============================================================================
