---------------------- MODULE EnvironmentProviderProofs ----------------------
(***************************************************************************)
(* The environment provider and the inspector, for any calls, hosts and      *)
(* requests, and any number of changes to the host.                          *)
(***************************************************************************)
EXTENDS EnvironmentProvider, FiniteSetTheorems, TLAPS

(***************************************************************************)
(* What the search for a toolkit finds.                                     *)
(***************************************************************************)

\* A root is chosen only if it is the only one that matches.
LEMMA OneMatchIsOnly ==
  ASSUME NEW i, NEW matches, IsFiniteSet(matches), OneMatch(i, matches) # "ambiguous"
  PROVE  matches = {OneMatch(i, matches)}
<1>1. Cardinality(matches) = 1
  BY DEF OneMatch
<1>2. PICK r : matches = {r}
  BY <1>1, FS_Singleton
<1>3. OneMatch(i, matches) = CHOOSE x \in matches : TRUE
  BY <1>1 DEF OneMatch
<1> QED
  BY <1>2, <1>3

\* The first of four places.
LEMMA FirstOfFour ==
  ASSUME NEW S \in SUBSET (1 .. 4), S # {}
  PROVE  \E k \in S : \A l \in S : k <= l
<1>1. \A l \in S : l \in Int /\ (l = 1 \/ l = 2 \/ l = 3 \/ l = 4)
  OBVIOUS
<1>2. CASE 1 \in S
  BY <1>1, <1>2
<1>3. CASE 1 \notin S /\ 2 \in S
  BY <1>1, <1>3
<1>4. CASE 1 \notin S /\ 2 \notin S /\ 3 \in S
  BY <1>1, <1>4
<1>5. CASE 1 \notin S /\ 2 \notin S /\ 3 \notin S /\ 4 \in S
  BY <1>1, <1>5
<1> QED
  BY <1>1, <1>2, <1>3, <1>4, <1>5

\* One place or none.
LEMMA OnePlaceFinite ==
  ASSUME NEW x, NEW S, S \subseteq {x} PROVE IsFiniteSet(S)
<1>1. IsFiniteSet({x}) /\ S \in SUBSET {x}
  BY FS_Singleton
<1> QED
  BY <1>1, FS_Subset

\* The places to look, one by one.
LEMMA CandidateGroups ==
  ASSUME NEW q, NEW h, NEW groups, groups = toolkitCandidateGroups(q, h)
  PROVE  /\ groups[1].roots = {IF q.root # "" THEN q.root ELSE environmentValue(q, h, "root")} \ {""}
         /\ groups[1].authoritative
         /\ groups[2].roots = {environmentValue(q, h, q.version)} \ {""}
         /\ groups[3].roots = {environmentValue(q, h, "path")} \ {""}
         /\ groups[4].roots = standardRoots(q, h) \ {""}
  BY DEF toolkitCandidateGroups, uniqueNonempty

\* Installers use one place in WSL, and one or two on the host.
LEMMA StandardFinite ==
  ASSUME NEW q, NEW h PROVE IsFiniteSet(standardRoots(q, h))
<1> DEFINE one == InstallRoot[environmentValue(q, h, "ProgramFiles")][q.version]
           two == InstallRoot[environmentValue(q, h, "ProgramW6432")][q.version]
           def == InstallRoot[DefaultDir][q.version]
<1>1. IsFiniteSet({h.wslRoot[q.version]}) /\ IsFiniteSet({one}) /\ IsFiniteSet({two}) /\ IsFiniteSet({def})
  BY FS_Singleton
<1>2. IsFiniteSet({one} \cup {two})
  BY <1>1, FS_Union
<1>3. IsFiniteSet(({one} \cup {two}) \cup {def})
  BY <1>1, <1>2, FS_Union
<1>4. CASE q.distribution # ""
  BY <1>1, <1>4 DEF standardRoots
<1>5. CASE q.distribution = ""
  <2>1. standardRoots(q, h) \in SUBSET (({one} \cup {two}) \cup {def})
    BY <1>5 DEF standardRoots, programRoots, uniqueNonempty, ProgramDirs
  <2> QED
    BY <1>3, <2>1, FS_Subset
<1> QED
  BY <1>4, <1>5

\* Of the roots that installers use only one has the version.
OnlyInstalled(q, h, root) ==
    {r \in standardRoots(q, h) : inspectToolkitCandidate(q, h, r) = q.version} = {root}

\* A toolkit that is found reports the version asked for; a configured root is
\* the one; one where installers put it is the only one there; and the search for
\* a WSL distribution takes nothing from the daemon.
LEMMA ResolveFinds ==
  ASSUME NEW q, NEW h, NEW t, t = resolveToolkit(q, h), t.err = "nil", q.version # "absent"
  PROVE  /\ t.version = q.version
         /\ inspectToolkitCandidate(q, h, t.root) = q.version
         /\ q.root # "" => t.root = q.root
         /\ t.group = 4 => OnlyInstalled(q, h, t.root)
         /\ q.distribution # ""
               => t.root \in {q.root, q.env["root"], q.env[q.version], q.env["path"],
                              h.wslRoot[q.version]}
<1> DEFINE groups   == toolkitCandidateGroups(q, h)
           roots(i) == groups[i].roots
           reports(i) == {inspectToolkitCandidate(q, h, r) : r \in roots(i)}
           matches(i) == {r \in roots(i) : inspectToolkitCandidate(q, h, r) = q.version}
           slow(i)  == "slow" \in reports(i)
           wrong(i) == \E k \in 1 .. i : reports(k) \ {"absent", "slow", q.version} # {}
           missing(i) == "absent" \in reports(i)
           ends == {i \in 1 .. 4 : \/ slow(i) \/ matches(i) # {}
                                   \/ Settles(groups[i], wrong(i), missing(i))}
           last == CHOOSE k \in ends : \A l \in ends : k <= l
           one  == OneMatch(last, matches(last))
<1>1. /\ ends # {} /\ matches(last) # {} /\ one # "ambiguous"
      /\ t = [err |-> "nil", version |-> q.version, root |-> one, group |-> last]
  BY DEF resolveToolkit, Error
<1> HIDE DEF one, last
<1>2. t.version = q.version /\ t.root = one /\ t.group = last
  BY <1>1
<1>3. last \in ends /\ \A l \in ends : last <= l
  <2>1. ends # {} /\ ends \subseteq 1 .. 4
    BY <1>1
  <2> HIDE DEF ends
  <2>2. \E k \in ends : \A l \in ends : k <= l
    BY <2>1, FirstOfFour
  <2> QED
    BY <2>2 DEF last
<1>4. last \in 1 .. 4
  BY <1>3
<1>5. /\ roots(1) = {IF q.root # "" THEN q.root ELSE environmentValue(q, h, "root")} \ {""}
      /\ groups[1].authoritative
      /\ roots(2) = {environmentValue(q, h, q.version)} \ {""}
      /\ roots(3) = {environmentValue(q, h, "path")} \ {""}
      /\ roots(4) = standardRoots(q, h) \ {""}
  BY CandidateGroups
<1> HIDE DEF groups
<1>6. matches(last) = {one}
  <2>1. IsFiniteSet(roots(1)) /\ IsFiniteSet(roots(2)) /\ IsFiniteSet(roots(3))
    <3>1. /\ roots(1) \subseteq {IF q.root # "" THEN q.root ELSE environmentValue(q, h, "root")}
          /\ roots(2) \subseteq {environmentValue(q, h, q.version)}
          /\ roots(3) \subseteq {environmentValue(q, h, "path")}
      BY <1>5
    <3> HIDE DEF roots
    <3> QED
      BY <3>1, OnePlaceFinite
  <2>2. IsFiniteSet(roots(4))
    <3>1. roots(4) \in SUBSET standardRoots(q, h)
      BY <1>5
    <3> QED
      BY <3>1, StandardFinite, FS_Subset
  <2>3. IsFiniteSet(roots(last))
    BY <1>4, <2>1, <2>2
  <2>4. matches(last) \in SUBSET roots(last)
    OBVIOUS
  <2>5. IsFiniteSet(matches(last))
    BY <2>3, <2>4, FS_Subset
  <2> QED
    BY <1>1, <2>5, OneMatchIsOnly DEF one
<1>7. one \in roots(last) /\ inspectToolkitCandidate(q, h, one) = q.version
  BY <1>6
<1>8. ASSUME q.root # "" PROVE one = q.root
  <2>1. roots(1) = {q.root}
    BY <1>5, <1>8
  <2>2. slow(1) \/ matches(1) # {} \/ wrong(1) \/ missing(1)
    BY <2>1
  <2>3. slow(1) \/ matches(1) # {} \/ Settles(groups[1], wrong(1), missing(1))
    <3> HIDE DEF slow, matches, wrong, missing
    <3> QED
      BY <1>5, <2>1, <2>2 DEF Settles
  <2>4. 1 \in ends
    <3> HIDE DEF slow, matches, wrong, missing
    <3> QED
      BY <2>3
  <2>5. last = 1
    <3> HIDE DEF ends
    <3> QED
      BY <1>3, <1>4, <2>4
  <2> QED
    BY <1>7, <2>1, <2>5
<1>9. ASSUME last = 4
      PROVE  OnlyInstalled(q, h, one)
  <2>1. inspectToolkitCandidate(q, h, "") # q.version
    BY RootsAssumption DEF inspectToolkitCandidate
  <2>2. matches(4) = {r \in standardRoots(q, h) : inspectToolkitCandidate(q, h, r) = q.version}
    BY <1>5, <2>1
  <2> QED
    BY <1>6, <1>9, <2>2 DEF OnlyInstalled
<1>10. ASSUME q.distribution # ""
       PROVE  one \in {q.root, q.env["root"], q.env[q.version], q.env["path"], h.wslRoot[q.version]}
  <2>1. CASE last = 1
    BY <1>5, <1>7, <1>10, <2>1 DEF environmentValue
  <2>2. CASE last = 2
    BY <1>5, <1>7, <1>10, <2>2 DEF environmentValue
  <2>3. CASE last = 3
    BY <1>5, <1>7, <1>10, <2>3 DEF environmentValue
  <2>4. CASE last = 4
    BY <1>5, <1>7, <1>10, <2>4 DEF standardRoots
  <2> QED
    BY <1>4, <2>1, <2>2, <2>3, <2>4
<1> QED
  BY <1>2, <1>7, <1>8, <1>9, <1>10
-----------------------------------------------------------------------------
(***************************************************************************)
(* What Reconcile makes of two inventories.                                 *)
(***************************************************************************)

\* The devices of all scopes; where one of them has been seen; and whether two
\* scopes contradict each other.
UUIDs(inv) == UNION {{d.uuid : d \in inv[i].devices} : i \in DOMAIN inv}

SeenAt(inv, u) ==
    UNION {{<<inv[i].scope, d.index>> : d \in {e \in inv[i].devices : e.uuid = u}} : i \in DOMAIN inv}

Contradict(inv) ==
    \E i, k \in DOMAIN inv : \E d \in inv[i].devices, e \in inv[k].devices :
        d.uuid = e.uuid /\ <<e.name, e.cc, e.architecture>> # <<d.name, d.cc, d.architecture>>

Identities(r) == {[uuid |-> d.d.uuid, seen |-> d.observations] : d \in r.devices}

\* One entry for each device, with everything that was seen of it.
LEMMA ReconcileMerges ==
  ASSUME NEW inv, DOMAIN inv = 1 .. 2
  PROVE  LET r == Reconcile(inv)
         IN  /\ r.err = IF Contradict(inv) THEN "inventory_failed" ELSE "nil"
             /\ r.err = "nil" =>
                   /\ Identities(r) = {[uuid |-> u, seen |-> SeenAt(inv, u)] : u \in UUIDs(inv)}
                   /\ {d.d.uuid : d \in r.devices} = UUIDs(inv)
<1> DEFINE seen == UNION {{[i |-> i, d |-> d] : d \in inv[i].devices} : i \in DOMAIN inv}
           same(s) == {t \in seen : t.d.uuid = s.d.uuid}
           clash == \E s \in seen : \E t \in same(s) :
                       <<t.d.name, t.d.cc, t.d.architecture>> # <<s.d.name, s.d.cc, s.d.architecture>>
           obs(s) == {<<inv[t.i].scope, t.d.index>> : t \in same(s)}
           first == {u \in seen : \A t \in same(u) : u.i <= t.i}
           merged == {[d |-> s.d, observations |-> obs(s)] : s \in first}
           r == Reconcile(inv)
<1>1. r = IF clash THEN Error("inventory_failed") ELSE [err |-> "nil", devices |-> merged]
  BY DEF Reconcile
<1>2. \A s \in seen : s.i \in 1 .. 2 /\ s.d \in inv[s.i].devices
  OBVIOUS
<1>3. \A i \in 1 .. 2 : \A d \in inv[i].devices : [i |-> i, d |-> d] \in seen
  OBVIOUS
<1> HIDE DEF seen, r
<1>4. clash <=> Contradict(inv)
  <2>1. ASSUME clash PROVE Contradict(inv)
    BY <1>2, <2>1 DEF Contradict
  <2>2. ASSUME Contradict(inv) PROVE clash
    <3>0. PICK i \in 1 .. 2, k \in 1 .. 2 : \E d \in inv[i].devices, e \in inv[k].devices :
             d.uuid = e.uuid /\ <<e.name, e.cc, e.architecture>> # <<d.name, d.cc, d.architecture>>
      BY <2>2 DEF Contradict
    <3>1. PICK d \in inv[i].devices, e \in inv[k].devices :
             d.uuid = e.uuid /\ <<e.name, e.cc, e.architecture>> # <<d.name, d.cc, d.architecture>>
      BY <3>0
    <3> DEFINE s == [i |-> i, d |-> d]
               t == [i |-> k, d |-> e]
    <3>2. s \in seen /\ t \in seen /\ s.d = d /\ t.d = e
      BY <1>3
    <3> HIDE DEF s, t
    <3> QED
      BY <3>1, <3>2
  <2> QED
    BY <2>1, <2>2
<1>5. \A s \in seen : obs(s) = SeenAt(inv, s.d.uuid)
  <2> SUFFICES ASSUME NEW s \in seen PROVE obs(s) = SeenAt(inv, s.d.uuid)
    OBVIOUS
  <2>1. ASSUME NEW x \in obs(s) PROVE x \in SeenAt(inv, s.d.uuid)
    <3>1. PICK t \in seen : t.d.uuid = s.d.uuid /\ x = <<inv[t.i].scope, t.d.index>>
      BY <2>1
    <3> QED
      BY <1>2, <3>1 DEF SeenAt
  <2>2. ASSUME NEW x \in SeenAt(inv, s.d.uuid) PROVE x \in obs(s)
    <3>0. PICK i \in 1 .. 2 : \E d \in inv[i].devices : d.uuid = s.d.uuid /\ x = <<inv[i].scope, d.index>>
      BY <2>2 DEF SeenAt
    <3>1. PICK d \in inv[i].devices : d.uuid = s.d.uuid /\ x = <<inv[i].scope, d.index>>
      BY <3>0
    <3> DEFINE t == [i |-> i, d |-> d]
    <3>2. t \in seen /\ t.d = d /\ t.i = i
      BY <1>3
    <3> HIDE DEF t
    <3>3. t \in same(s)
      BY <3>1, <3>2
    <3> QED
      BY <3>1, <3>2, <3>3
  <2> QED
    BY <2>1, <2>2
<1>6. \A u : u \in UUIDs(inv) <=> \E s \in first : s.d.uuid = u
  <2>1. ASSUME NEW s \in first PROVE s.d.uuid \in UUIDs(inv)
    BY <1>2, <2>1 DEF UUIDs
  <2>2. ASSUME NEW u \in UUIDs(inv) PROVE \E s \in first : s.d.uuid = u
    <3>0. PICK i \in 1 .. 2 : \E d \in inv[i].devices : d.uuid = u
      BY <2>2 DEF UUIDs
    <3>1. PICK d \in inv[i].devices : d.uuid = u
      BY <3>0
    <3> DEFINE s == [i |-> i, d |-> d]
    <3>2. s \in seen /\ s.i = i /\ s.d = d
      BY <1>3
    <3> HIDE DEF s
    <3>3. CASE \A t \in same(s) : s.i <= t.i
      BY <3>1, <3>2, <3>3
    <3>4. ASSUME NEW t \in same(s), ~(s.i <= t.i) PROVE \E f \in first : f.d.uuid = u
      <4>1. t \in seen /\ t.d.uuid = u /\ t.i = 1
        BY <1>2, <3>1, <3>2, <3>4
      <4>2. t \in first
        BY <1>2, <4>1
      <4> QED
        BY <4>1, <4>2
    <3> QED
      BY <3>3, <3>4
  <2> QED
    BY <2>1, <2>2
<1>7. CASE clash
  <2>1. r.err = "inventory_failed" /\ Contradict(inv)
    <3> HIDE DEF clash
    <3> QED
      BY <1>1, <1>4, <1>7 DEF Error
  <2> QED
    BY <2>1 DEF r
<1>8. CASE ~clash
  <2>1. r.err = "nil" /\ r.devices = merged /\ ~Contradict(inv)
    <3> HIDE DEF clash
    <3> QED
      BY <1>1, <1>4, <1>8
  <2>2. \A m \in merged : \E s \in first : m.d = s.d /\ m.observations = SeenAt(inv, s.d.uuid)
    <3> SUFFICES ASSUME NEW m \in merged
                 PROVE  \E s \in first : m.d = s.d /\ m.observations = SeenAt(inv, s.d.uuid)
      OBVIOUS
    <3>1. PICK s \in first : m = [d |-> s.d, observations |-> obs(s)]
      OBVIOUS
    <3>2. m.d = s.d /\ m.observations = obs(s) /\ s \in seen
      BY <3>1
    <3> HIDE DEF first, obs
    <3> QED
      BY <1>5, <3>2
  <2>3. \A s \in first : \E m \in merged : m.d = s.d /\ m.observations = SeenAt(inv, s.d.uuid)
    <3> SUFFICES ASSUME NEW s \in first
                 PROVE  \E m \in merged : m.d = s.d /\ m.observations = SeenAt(inv, s.d.uuid)
      OBVIOUS
    <3> DEFINE m == [d |-> s.d, observations |-> obs(s)]
    <3>1. m \in merged
      OBVIOUS
    <3>2. m.d = s.d /\ m.observations = SeenAt(inv, s.d.uuid)
      BY <1>5
    <3> QED
      BY <3>1, <3>2
  <2> HIDE DEF first, merged
  <2>4. {d.d.uuid : d \in r.devices} = UUIDs(inv)
    BY <1>6, <2>1, <2>2, <2>3
  <2>5. Identities(r) = {[uuid |-> u, seen |-> SeenAt(inv, u)] : u \in UUIDs(inv)}
    BY <1>6, <2>1, <2>2, <2>3 DEF Identities
  <2> QED
    BY <2>1, <2>4, <2>5 DEF r
<1> QED
  BY <1>7, <1>8

\* What is merged has been read in one of the scopes.
LEMMA ReconcileReads ==
  ASSUME NEW inv, Reconcile(inv).err = "nil", NEW m \in Reconcile(inv).devices
  PROVE  \E i \in DOMAIN inv : m.d \in inv[i].devices
<1> DEFINE seen == UNION {{[i |-> i, d |-> d] : d \in inv[i].devices} : i \in DOMAIN inv}
           same(s) == {t \in seen : t.d.uuid = s.d.uuid}
           obs(s) == {<<inv[t.i].scope, t.d.index>> : t \in same(s)}
           first == {u \in seen : \A t \in same(u) : u.i <= t.i}
           clash == \E s \in seen : \E t \in same(s) :
                       <<t.d.name, t.d.cc, t.d.architecture>> # <<s.d.name, s.d.cc, s.d.architecture>>
           merged == {[d |-> s.d, observations |-> obs(s)] : s \in first}
<1>1. Reconcile(inv) = IF clash THEN Error("inventory_failed") ELSE [err |-> "nil", devices |-> merged]
  BY DEF Reconcile
<1>2. \A s \in seen : s.i \in DOMAIN inv /\ s.d \in inv[s.i].devices
  OBVIOUS
<1> HIDE DEF seen, clash
<1>3. m \in merged
  BY <1>1 DEF Error
<1>4. PICK s \in first : m = [d |-> s.d, observations |-> obs(s)]
  BY <1>3
<1>5. m.d = s.d /\ s \in seen
  BY <1>4
<1> QED
  BY <1>2, <1>5

\* The order of the scopes does not matter.
LEMMA ReconcileSwaps ==
  ASSUME NEW inv, DOMAIN inv = 1 .. 2
  PROVE  LET one == Reconcile(inv)
             two == Reconcile(<<inv[2], inv[1]>>)
         IN  /\ one.err = two.err
             /\ one.err = "nil" =>
                   /\ Identities(one) = Identities(two)
                   /\ {d.d.uuid : d \in one.devices} = UNION {{d.uuid : d \in inv[i].devices} : i \in 1 .. 2}
<1> DEFINE swap == <<inv[2], inv[1]>>
           one == Reconcile(inv)
           two == Reconcile(swap)
<1>1. DOMAIN swap = 1 .. 2 /\ swap[1] = inv[2] /\ swap[2] = inv[1]
  OBVIOUS
<1> HIDE DEF swap
<1>2. \A i \in 1 .. 2 : i = 1 \/ i = 2
  OBVIOUS
<1>3. Contradict(swap) <=> Contradict(inv)
  BY <1>1, <1>2 DEF Contradict
<1>4. UUIDs(swap) = UUIDs(inv)
  BY <1>1, <1>2 DEF UUIDs
<1>5. \A u : SeenAt(swap, u) = SeenAt(inv, u)
  BY <1>1, <1>2 DEF SeenAt
<1>6. /\ one.err = IF Contradict(inv) THEN "inventory_failed" ELSE "nil"
      /\ one.err = "nil" =>
            /\ Identities(one) = {[uuid |-> u, seen |-> SeenAt(inv, u)] : u \in UUIDs(inv)}
            /\ {d.d.uuid : d \in one.devices} = UUIDs(inv)
  BY ReconcileMerges
<1>7. /\ two.err = IF Contradict(swap) THEN "inventory_failed" ELSE "nil"
      /\ two.err = "nil" =>
            Identities(two) = {[uuid |-> u, seen |-> SeenAt(swap, u)] : u \in UUIDs(swap)}
  BY <1>1, ReconcileMerges
<1> HIDE DEF one, two
<1>8. one.err = two.err
  BY <1>3, <1>6, <1>7
<1>9. {[uuid |-> u, seen |-> SeenAt(swap, u)] : u \in UUIDs(swap)}
        = {[uuid |-> u, seen |-> SeenAt(inv, u)] : u \in UUIDs(inv)}
  BY <1>4, <1>5
<1>10. UUIDs(inv) = UNION {{d.uuid : d \in inv[i].devices} : i \in 1 .. 2}
  BY DEF UUIDs
<1> QED
  BY <1>6, <1>7, <1>8, <1>9, <1>10 DEF one, two, swap
-----------------------------------------------------------------------------
(***************************************************************************)
(* The inductive invariant: what a call knows at each of its labels, and    *)
(* what of it still is true of the host if the host has held still.         *)
(***************************************************************************)
Label == {"idle", "podman", "inventory", "ceiling", "toolkit", "wsl", "cdi", "state", "record", "done"}

Shape ==
    /\ req \in Workloads /\ at \in [Call -> Label]
    /\ steady \in [Call -> BOOLEAN] /\ torn \in [Call -> BOOLEAN]
    /\ DOMAIN inventories = Call /\ DOMAIN left = Call
    /\ DOMAIN known = Call /\ DOMAIN result = Call
    /\ DOMAIN store = DOMAIN Profile

Ended(c) == at[c] = "done" /\ result[c].err = "nil"
Live(c) == at[c] \notin {"idle", "done"} \/ Ended(c)
HasToolkit(c) == at[c] \in {"wsl", "cdi", "state", "record"} \/ Ended(c)

\* What is left to try of a profile's toolkits.
StillToTry(p) == IF p = "pascal" THEN {<<"12.9", "12.4">>, <<"12.4">>} ELSE {<<"13.0">>}

\* Each kind of call is where its code can be.
PlaceInv(c) ==
    Live(c) =>
        /\ req[c].profile \in DOMAIN Profile
        /\ left[c] \in StillToTry(req[c].profile)
        /\ at[c] \in {"wsl", "state", "record"} => ~Inspecting(c)
        /\ at[c] \in {"podman", "cdi"} => Inspecting(c)
        /\ at[c] = "record" => Op(c) = "apply"

\* The inventories are those of the first scopes, in order.
ScopeInv(c) ==
    /\ \E S : inventories[c] \in Seq(S)
    /\ Len(inventories[c]) <= Len(scopes(c))
    /\ at[c] = "ceiling" => Len(inventories[c]) < Len(scopes(c))
    /\ \A i \in DOMAIN inventories[c] : inventories[c][i].scope = scopes(c)[i]
    /\ Inspecting(c) /\ (at[c] \in {"toolkit", "cdi"} \/ (at[c] = "podman" /\ req[c].reuse))
          => \E i \in DOMAIN inventories[c] :
                inventories[c][i].scope = ExecutionScope(req[c].distribution)

\* What has been passed over could not be had.
PassedInv(c) ==
    Live(c) /\ steady[c] /\ ~Inspecting(c) /\ left[c] # Profile[req[c].profile].toolkits =>
        resolveToolkit(toolkitDiscoveryRequest(c, Profile[req[c].profile].toolkits[1]), host).err # "nil"

\* What has been learnt: the device of the profile, a toolkit as it was found, the
\* kernel as it was read.
KnownInv(c) ==
    /\ known[c] = [rows |-> known[c].rows, device |-> known[c].device,
                   toolkit |-> known[c].toolkit, kernel |-> known[c].kernel]
    /\ ~Inspecting(c) /\ steady[c] /\ req[c].distribution # ""
          /\ (at[c] \in {"state", "record"} \/ Ended(c))
          => known[c].kernel = host.kernel[req[c].distribution]
    /\ ~Inspecting(c) /\ (at[c] = "toolkit" \/ HasToolkit(c))
          => known[c].device.d.uuid = Profile[req[c].profile].uuid

\* A host has shown a device in a scope with this driver and this ceiling.
ShownIn(d, s) ==
    \E h \in Range(Hosts) :
        /\ d.ceiling = h.ceiling[s]
        /\ \E i \in DOMAIN h.rows[s] : h.rows[s][i].uuid = d.uuid /\ h.rows[s][i].driver = d.driver

\* Unless the host has changed between two commands, the rows are still the host's
\* when the ceiling is read, and what has been read of a device is of one host.
ReadInv(c) ==
    ~torn[c] =>
        /\ at[c] = "ceiling" => known[c].rows = host.rows[scopes(c)[Len(inventories[c]) + 1]]
        /\ \A i \in DOMAIN inventories[c] : \A d \in inventories[c][i].devices : ShownIn(d, scopes(c)[i])
        /\ ~Inspecting(c) /\ (at[c] = "toolkit" \/ HasToolkit(c))
              => \E s \in Range(scopes(c)) : ShownIn(known[c].device.d, s)

OnlyChoice(c, t) == OnlyInstalled(toolkitDiscoveryRequest(c, t.version), host, t.root)

\* The root that the search is told to take.
Configured(c) == IF req[c].own # "" \/ Inspecting(c) THEN req[c].own ELSE req[c].root

\* Where a search for a distribution may find a toolkit.
Given(c, h, t) ==
    t.root \in {req[c].own, req[c].env["root"], req[c].env[t.version], req[c].env["path"],
               h.wslRoot[t.version]}

FoundInv(c) ==
    HasToolkit(c) =>
        LET t == known[c].toolkit
        IN  /\ t.version = left[c][1]
            /\ ~Inspecting(c) =>
                  /\ ValidateCompatibility(known[c].device.d, t.version)
                  /\ steady[c] => host.nvcc[""][t.root] = t.version
            /\ Configured(c) # "" /\ ~(Inspecting(c) /\ req[c].compiled) => t.root = Configured(c)
            /\ steady[c] /\ t.group = 4 => OnlyChoice(c, t)
            /\ Inspecting(c) /\ req[c].distribution # "" /\ ~req[c].compiled =>
                  \E h \in Range(Hosts) : (steady[c] => h = host) /\ Given(c, h, t)

\* What has been returned is what has been learnt.
ResultInv(c) ==
    Ended(c) =>
        /\ ~Inspecting(c) => result[c].contract = CanonicalJSON(req[c], known[c])
        /\ Inspecting(c) =>
              /\ result[c].toolkit = known[c].toolkit
              /\ req[c].distribution # "" => result[c].scope = req[c].distribution

\* Verify has succeeded with what an Apply has returned.
Verified(c) ==
    Succeeded(c, "verify") =>
        /\ store[req[c].profile].err = "nil"
        /\ \E d \in Call : Succeeded(d, "apply") /\ result[d].contract = result[c].contract

CallInv(c) ==
    /\ PlaceInv(c) /\ ScopeInv(c) /\ PassedInv(c) /\ KnownInv(c) /\ ReadInv(c)
    /\ FoundInv(c) /\ ResultInv(c)

IInv ==
    /\ TypeOK /\ Shape /\ StoreIsOneContract
    /\ \A c \in Call : CallInv(c) /\ Verified(c)

-----------------------------------------------------------------------------
(***************************************************************************)
(* The profiles, the scopes, and the parts of a step.                      *)
(***************************************************************************)

\* The two profiles.
LEMMA Profiles ==
  /\ DOMAIN Profile = {"ampere", "pascal"}
  /\ Profile["ampere"].toolkits = <<"13.0">>
  /\ Profile["pascal"].toolkits = <<"12.9", "12.4">>
  BY DEF Profile

\* What is left to try begins with a version, and only one list has a second.
LEMMA StillToTryFacts ==
  ASSUME NEW p \in DOMAIN Profile, NEW todo \in StillToTry(p)
  PROVE  /\ Head(todo) = todo[1] /\ todo[1] \in Versions
         /\ todo[1] \in Range(Profile[p].toolkits)
         /\ todo = Profile[p].toolkits => todo[1] = Profile[p].toolkits[1]
         /\ Len(todo) # 1 => todo = Profile[p].toolkits /\ Tail(todo) \in StillToTry(p)
<1>1. CASE p = "ampere"
  BY <1>1, Profiles DEF StillToTry, Versions, Range
<1>2. CASE p = "pascal" /\ todo = <<"12.9", "12.4">>
  BY <1>2, Profiles DEF StillToTry, Versions, Range
<1>3. CASE p = "pascal" /\ todo = <<"12.4">>
  BY <1>3, Profiles DEF StillToTry, Versions, Range
<1> QED
  BY <1>1, <1>2, <1>3, Profiles DEF StillToTry

\* The scopes that a call reads.
LEMMA ScopesFacts ==
  ASSUME Shape, NEW c \in Call
  PROVE  Len(scopes(c)) \in Nat /\ DOMAIN scopes(c) = 1 .. Len(scopes(c))
<1> DEFINE mine == scopes(c)
           scope == ExecutionScope(req[c].distribution)
<1>1. CASE mine = req[c].scopes
  <2>1. mine \in Seq(STRING)
    BY <1>1, WorkloadsAssumption DEF Shape
  <2> HIDE DEF mine
  <2>2. Len(mine) \in Nat /\ DOMAIN mine = 1 .. Len(mine)
    BY <2>1
  <2> QED
    BY <2>2 DEF mine
<1>2. CASE mine = <<scope>>
  <2> HIDE DEF mine, scope
  <2>1. Len(mine) = 1 /\ DOMAIN mine = 1 .. 1
    BY <1>2
  <2> QED
    BY <2>1 DEF mine
<1> QED
  BY <1>1, <1>2 DEF scopes

\* A call goes to a label, returns, or learns something.
LEMMA GotoEffect ==
  ASSUME Shape, NEW c \in Call, NEW q \in Label, Goto(c, q)
  PROVE  at' \in [Call -> Label] /\ at'[c] = q /\ \A d \in Call \ {c} : at'[d] = at[d]
  BY DEF Shape, Goto

LEMMA ReturnEffect ==
  ASSUME Shape, NEW c \in Call, NEW r, Return(c, r)
  PROVE  /\ at' \in [Call -> Label] /\ at'[c] = "done" /\ \A d \in Call \ {c} : at'[d] = at[d]
         /\ DOMAIN result' = Call /\ result'[c] = r /\ \A d \in Call \ {c} : result'[d] = result[d]
<1>1. Goto(c, "done") /\ "done" \in Label
  BY DEF Return, Label
<1>2. at' \in [Call -> Label] /\ at'[c] = "done" /\ \A d \in Call \ {c} : at'[d] = at[d]
  BY <1>1, GotoEffect
<1>3. DOMAIN result' = Call /\ result'[c] = r /\ \A d \in Call \ {c} : result'[d] = result[d]
  BY DEF Shape, Return
<1> QED
  BY <1>2, <1>3

LEMMA LearnEffect ==
  ASSUME Shape, NEW c \in Call, KnownInv(c), NEW v,
         NEW field \in {"rows", "device", "toolkit", "kernel"}, Learn(c, field, v)
  PROVE  /\ DOMAIN known' = Call /\ \A d \in Call \ {c} : known'[d] = known[d]
         /\ known'[c] = [rows    |-> IF field = "rows" THEN v ELSE known[c].rows,
                         device  |-> IF field = "device" THEN v ELSE known[c].device,
                         toolkit |-> IF field = "toolkit" THEN v ELSE known[c].toolkit,
                         kernel  |-> IF field = "kernel" THEN v ELSE known[c].kernel]
<1> DEFINE k == known[c]
<1>1. /\ DOMAIN known' = Call /\ \A d \in Call \ {c} : known'[d] = known[d]
      /\ known'[c] = [k EXCEPT ![field] = v]
  BY DEF Shape, Learn
<1>2. k = [rows |-> k.rows, device |-> k.device, toolkit |-> k.toolkit, kernel |-> k.kernel]
  BY DEF KnownInv
<1>3. known'[c] = [rows    |-> IF field = "rows" THEN v ELSE k.rows,
                   device  |-> IF field = "device" THEN v ELSE k.device,
                   toolkit |-> IF field = "toolkit" THEN v ELSE k.toolkit,
                   kernel  |-> IF field = "kernel" THEN v ELSE k.kernel]
  <2> HIDE DEF k
  <2>1. CASE field = "rows"
    BY <1>1, <1>2, <2>1
  <2>2. CASE field = "device"
    BY <1>1, <1>2, <2>2
  <2>3. CASE field = "toolkit"
    BY <1>1, <1>2, <2>3
  <2>4. CASE field = "kernel"
    BY <1>1, <1>2, <2>4
  <2> QED
    BY <2>1, <2>2, <2>3, <2>4
<1> QED
  BY <1>1, <1>3

\* What one call does, another does not notice.
Same(c) ==
    /\ at'[c] = at[c] /\ inventories'[c] = inventories[c] /\ left'[c] = left[c]
    /\ known'[c] = known[c] /\ result'[c] = result[c] /\ steady'[c] = steady[c]
    /\ torn'[c] = torn[c]

\* What has been found stays found.
LEMMA FoundFrame ==
  ASSUME NEW c \in Call, FoundInv(c), HasToolkit(c)' => HasToolkit(c), UNCHANGED <<req, state>>,
         known'[c].toolkit = known[c].toolkit, known'[c].device = known[c].device,
         left'[c] = left[c], steady'[c] = steady[c]
  PROVE  FoundInv(c)'
<1> DEFINE t == known[c].toolkit
<1>1. Inspecting(c)' = Inspecting(c) /\ host' = host /\ Configured(c)' = Configured(c) /\ t' = t
  BY DEF Inspecting, Op, host, Configured
<1>2. toolkitDiscoveryRequest(c, t.version)' = toolkitDiscoveryRequest(c, t.version)
  BY <1>1 DEF toolkitDiscoveryRequest
<1>3. OnlyChoice(c, t)' = OnlyChoice(c, t)
  BY <1>1, <1>2 DEF OnlyChoice, OnlyInstalled
<1>4. \A h : Given(c, h, t)' = Given(c, h, t)
  BY <1>1 DEF Given
<1>5. SUFFICES ASSUME HasToolkit(c)', HasToolkit(c) PROVE FoundInv(c)'
  BY DEF FoundInv
<1>6. /\ t.version = left[c][1]
      /\ ~Inspecting(c) =>
            /\ ValidateCompatibility(known[c].device.d, t.version)
            /\ steady[c] => host.nvcc[""][t.root] = t.version
      /\ Configured(c) # "" /\ ~(Inspecting(c) /\ req[c].compiled) => t.root = Configured(c)
      /\ steady[c] /\ t.group = 4 => OnlyChoice(c, t)
      /\ Inspecting(c) /\ req[c].distribution # "" /\ ~req[c].compiled =>
            \E h \in Range(Hosts) : (steady[c] => h = host) /\ Given(c, h, t)
  BY <1>5 DEF FoundInv
<1>7. (/\ t.version = left[c][1]
       /\ ~Inspecting(c) =>
             /\ ValidateCompatibility(known[c].device.d, t.version)
             /\ steady[c] => host.nvcc[""][t.root] = t.version
       /\ Configured(c) # "" /\ ~(Inspecting(c) /\ req[c].compiled) => t.root = Configured(c)
       /\ steady[c] /\ t.group = 4 => OnlyChoice(c, t)
       /\ Inspecting(c) /\ req[c].distribution # "" /\ ~req[c].compiled =>
             \E h \in Range(Hosts) : (steady[c] => h = host) /\ Given(c, h, t))'
  <2> HIDE DEF t
  <2> QED
    BY <1>1, <1>3, <1>4, <1>6 DEF t, ValidateCompatibility
<1> QED
  BY <1>5, <1>7 DEF FoundInv

\* What one call does, another does not notice.
LEMMA CallFrame ==
  ASSUME NEW c \in Call, CallInv(c), Same(c), UNCHANGED <<req, state>>
  PROVE  CallInv(c)'
<1> USE DEF Same, Live, Ended, HasToolkit, Op, Inspecting, host
<1>1. PlaceInv(c)'
  BY DEF CallInv, PlaceInv
<1>2. ScopeInv(c)'
  BY DEF CallInv, ScopeInv, scopes
<1>3. PassedInv(c)'
  BY DEF CallInv, PassedInv, toolkitDiscoveryRequest
<1>4. KnownInv(c)'
  BY DEF CallInv, KnownInv
<1>5. FoundInv(c)'
  BY FoundFrame DEF CallInv
<1>6. ResultInv(c)'
  BY DEF CallInv, ResultInv
<1>7. ReadInv(c)'
  BY DEF CallInv, ReadInv, scopes
<1> QED
  BY <1>1, <1>2, <1>3, <1>4, <1>5, <1>6, <1>7 DEF CallInv

\* A call that returns an error claims nothing.
LEMMA ErrorStep ==
  ASSUME NEW c \in Call, CallInv(c), at'[c] = "done", result'[c].err # "nil",
         inventories'[c] = inventories[c], steady'[c] = steady[c], torn'[c] = torn[c],
         UNCHANGED <<req, state>>,
         known'[c] = [rows |-> known'[c].rows, device |-> known'[c].device,
                      toolkit |-> known'[c].toolkit, kernel |-> known'[c].kernel]
  PROVE  CallInv(c)'
<1> USE DEF Live, Ended, HasToolkit, Op, Inspecting, host
<1>1. PlaceInv(c)' /\ PassedInv(c)' /\ FoundInv(c)' /\ ResultInv(c)'
  BY DEF PlaceInv, PassedInv, FoundInv, ResultInv
<1>2. ScopeInv(c)'
  BY DEF CallInv, ScopeInv, scopes
<1>3. KnownInv(c)'
  BY DEF KnownInv
<1>4. ReadInv(c)'
  BY DEF CallInv, ReadInv, scopes
<1> QED
  BY <1>1, <1>2, <1>3, <1>4 DEF CallInv

\* What Verify has relied on stays: entries are not taken out of the store, and
\* calls that have returned do not change.
LEMMA VerifiedStays ==
  ASSUME IInv, NEW c \in Call, at[c] # "done", Verified(c)', UNCHANGED req, Shape',
         \A d \in Call \ {c} : Same(d),
         \A p \in DOMAIN store : store[p].err = "nil" => store'[p].err = "nil"
  PROVE  \A d \in Call : Verified(d)'
<1> SUFFICES ASSUME NEW d \in Call, d # c, Succeeded(d, "verify")'
             PROVE  Verified(d)'
  BY DEF Verified
<1>1. Succeeded(d, "verify") /\ result'[d] = result[d]
  BY DEF Same, Succeeded, Returned, Op
<1>2. Live(d) /\ PlaceInv(d) /\ Verified(d)
  BY <1>1 DEF IInv, CallInv, Live, Ended, Succeeded, Returned
<1>3. req[d].profile \in DOMAIN store /\ store[req[d].profile].err = "nil"
  BY <1>1, <1>2 DEF Verified, PlaceInv, IInv, Shape
<1>4. PICK e \in Call : Succeeded(e, "apply") /\ result[e].contract = result[d].contract
  BY <1>1, <1>2 DEF Verified
<1>5. e # c
  BY <1>4 DEF Succeeded, Returned
<1>6. Succeeded(e, "apply")' /\ result'[e] = result[e]
  BY <1>4, <1>5 DEF Same, Succeeded, Returned, Op
<1> QED
  BY <1>1, <1>3, <1>4, <1>6 DEF Verified

\* A step of one call preserves the invariant if it preserves its own part and the
\* store's.
LEMMA CallStep ==
  ASSUME IInv, NEW c \in Call, at[c] # "done", Shape', CallInv(c)', Verified(c)',
         UNCHANGED <<req, state, changes>>,
         \A d \in Call \ {c} : Same(d), StoreIsOneContract',
         \A p \in DOMAIN store : store[p].err = "nil" => store'[p].err = "nil",
         \A p \in DOMAIN store' : store'[p].err \in {"no entry", "no store", "nil"}
  PROVE  IInv'
<1>1. ASSUME NEW d \in Call PROVE CallInv(d)'
  <2>1. CASE d = c
    BY <2>1
  <2>2. CASE d # c
    BY <2>2, CallFrame DEF IInv
  <2> QED
    BY <2>1, <2>2
<1>2. \A d \in Call : Verified(d)'
  BY VerifiedStays
<1>3. TypeOK'
  BY <1>1 DEF IInv, TypeOK, Shape, Label, CallInv, ScopeInv
<1> QED
  BY <1>1, <1>2, <1>3 DEF IInv

\* A call that leaves the store alone.
LEMMA KeepStoreStep ==
  ASSUME IInv, NEW c \in Call, at[c] # "done", Shape', CallInv(c)', Verified(c)',
         UNCHANGED <<req, state, changes, store>>, \A d \in Call \ {c} : Same(d)
  PROVE  IInv'
<1>1. StoreIsOneContract'
  BY DEF IInv, StoreIsOneContract, Succeeded, Returned, Op, Same
<1>2. \A p \in DOMAIN store' : store'[p].err \in {"no entry", "no store", "nil"}
  BY DEF IInv, TypeOK
<1> QED
  BY <1>1, <1>2, CallStep

\* Neither does it if it does not succeed.
LEMMA ObserveStep ==
  ASSUME IInv, NEW c \in Call, at[c] # "done", Shape', CallInv(c)',
         at'[c] # "done" \/ result'[c].err # "nil" \/ Op(c) # "verify",
         UNCHANGED <<req, state, changes, store>>, \A d \in Call \ {c} : Same(d)
  PROVE  IInv'
<1>1. Verified(c)'
  BY DEF Verified, Succeeded, Returned, Op
<1> QED
  BY <1>1, KeepStoreStep

-----------------------------------------------------------------------------
(***************************************************************************)
(* Observation.                                                            *)
(***************************************************************************)

\* A call that gives up.
LEMMA GiveUpStep ==
  ASSUME IInv, NEW c \in Call, at[c] # "done", NEW r, Return(c, r), r.err # "nil",
         UNCHANGED <<req, inventories, left, known, steady, torn, state, changes, store>>
  PROVE  IInv'
<1>0. Shape /\ CallInv(c)
  BY DEF IInv
<1>1. /\ at' \in [Call -> Label] /\ at'[c] = "done" /\ \A d \in Call \ {c} : at'[d] = at[d]
      /\ DOMAIN result' = Call /\ result'[c] = r /\ \A d \in Call \ {c} : result'[d] = result[d]
  BY <1>0, ReturnEffect
<1>2. CallInv(c)'
  BY <1>0, <1>1, ErrorStep DEF CallInv, KnownInv
<1>3. Shape' /\ \A d \in Call \ {c} : Same(d)
  BY <1>0, <1>1 DEF Shape, Same
<1> QED
  BY <1>1, <1>2, <1>3, ObserveStep

\* validateRequest.
LEMMA BeginStep ==
  ASSUME IInv, NEW c \in Call, Begin(c), UNCHANGED <<state, changes, store>>
  PROVE  IInv'
<1> DEFINE code == validateRequest(req[c])
<1>0. /\ Shape /\ CallInv(c) /\ at[c] = "idle"
      /\ UNCHANGED <<req, inventories, known, torn, state, changes, store>>
  BY DEF IInv, Begin
<1>1. CASE code # "nil"
  <2>1. Return(c, Error(code)) /\ UNCHANGED <<left, steady>> /\ Error(code).err # "nil"
    BY <1>1 DEF Begin, Error
  <2> QED
    BY <1>0, <2>1, GiveUpStep
<1>2. CASE code = "nil"
  <2> DEFINE q == IF Inspecting(c) /\ ~req[c].reuse THEN "podman" ELSE "inventory"
  <2>0. req[c].profile \in DOMAIN Profile
    BY <1>2 DEF validateRequest
  <2>1. /\ Goto(c, q) /\ UNCHANGED result
        /\ left' = [left EXCEPT ![c] = Profile[req[c].profile].toolkits]
        /\ steady' = [steady EXCEPT ![c] = TRUE]
    BY <1>2 DEF Begin, ToolkitCandidates
  <2>2. q \in Label /\ q \in {"podman", "inventory"} /\ (q = "podman" => Inspecting(c) /\ ~req[c].reuse)
    BY DEF Label
  <2> HIDE DEF q
  <2>3. at' \in [Call -> Label] /\ at'[c] = q /\ \A d \in Call \ {c} : at'[d] = at[d]
    BY <1>0, <2>1, <2>2, GotoEffect
  <2>4. /\ DOMAIN left' = Call /\ left'[c] = Profile[req[c].profile].toolkits
        /\ steady' \in [Call -> BOOLEAN] /\ steady'[c]
        /\ \A d \in Call \ {c} : left'[d] = left[d] /\ steady'[d] = steady[d]
    BY <1>0, <2>1 DEF Shape
  <2>5. Shape' /\ \A d \in Call \ {c} : Same(d)
    BY <1>0, <2>1, <2>3, <2>4 DEF Shape, Same
  <2>6. left'[c] \in StillToTry(req[c].profile)
    BY <2>0, <2>4, Profiles DEF StillToTry
  <2> USE DEF Live, Ended, HasToolkit, Op, Inspecting, host
  <2>7. PlaceInv(c)' /\ PassedInv(c)' /\ FoundInv(c)' /\ ResultInv(c)'
    BY <1>0, <2>0, <2>2, <2>3, <2>4, <2>6 DEF PlaceInv, PassedInv, FoundInv, ResultInv
  <2>8. ScopeInv(c)'
    BY <1>0, <2>2, <2>3 DEF CallInv, ScopeInv, scopes
  <2>9. KnownInv(c)'
    BY <1>0, <2>2, <2>3 DEF CallInv, KnownInv
  <2>10. ReadInv(c)'
    BY <1>0, <2>2, <2>3 DEF CallInv, ReadInv, scopes
  <2>11. at'[c] # "done"
    BY <2>2, <2>3
  <2> QED
    BY <1>0, <2>5, <2>7, <2>8, <2>9, <2>10, <2>11, ObserveStep DEF CallInv
<1> QED
  BY <1>1, <1>2

\* podman info.
LEMMA PodmanInfoStep ==
  ASSUME IInv, NEW c \in Call, PodmanInfo(c), UNCHANGED <<state, changes, store>>
  PROVE  IInv'
<1>0. /\ Shape /\ CallInv(c) /\ at[c] = "podman"
      /\ UNCHANGED <<req, inventories, left, known, steady, torn, state, changes, store>>
  BY DEF IInv, PodmanInfo
<1>1. CASE ~host.podman
  <2>1. Return(c, Error("inspection_failed")) /\ Error("inspection_failed").err # "nil"
    BY <1>1 DEF PodmanInfo, Error
  <2> QED
    BY <1>0, <2>1, GiveUpStep
<1>2. CASE host.podman
  <2> DEFINE q == IF req[c].reuse THEN "toolkit" ELSE "inventory"
  <2>1. Goto(c, q) /\ UNCHANGED result
    BY <1>2 DEF PodmanInfo
  <2>2. q \in Label /\ q \in {"toolkit", "inventory"} /\ (q = "toolkit" => req[c].reuse)
    BY DEF Label
  <2> HIDE DEF q
  <2>3. at' \in [Call -> Label] /\ at'[c] = q /\ \A d \in Call \ {c} : at'[d] = at[d]
    BY <1>0, <2>1, <2>2, GotoEffect
  <2>4. Shape' /\ \A d \in Call \ {c} : Same(d)
    BY <1>0, <2>1, <2>3 DEF Shape, Same
  <2> USE DEF Live, Ended, HasToolkit, Op, Inspecting, host
  <2>5. PlaceInv(c)' /\ FoundInv(c)' /\ ResultInv(c)'
    BY <1>0, <2>2, <2>3 DEF CallInv, PlaceInv, FoundInv, ResultInv
  <2>6. PassedInv(c)'
    BY <1>0, <2>2, <2>3 DEF CallInv, PlaceInv, PassedInv
  <2>7. ScopeInv(c)'
    BY <1>0, <2>2, <2>3 DEF CallInv, ScopeInv, scopes
  <2>8. KnownInv(c)'
    BY <1>0, <2>2, <2>3 DEF CallInv, PlaceInv, KnownInv
  <2>9. ReadInv(c)'
    BY <1>0, <2>2, <2>3 DEF CallInv, PlaceInv, ReadInv, scopes
  <2>10. at'[c] # "done"
    BY <2>2, <2>3
  <2> QED
    BY <1>0, <2>4, <2>5, <2>6, <2>7, <2>8, <2>9, <2>10, ObserveStep DEF CallInv
<1> QED
  BY <1>1, <1>2

\* The host is one of the hosts.
LEMMA HostHere ==
  ASSUME IInv PROVE host \in Range(Hosts)
  BY DEF IInv, TypeOK, host, Range

\* The rows of one scope.
LEMMA QueryRowsStep ==
  ASSUME IInv, NEW c \in Call, QueryRows(c), UNCHANGED <<state, changes, store>>
  PROVE  IInv'
<1> DEFINE v == host.rows[scopes(c)[Len(inventories[c]) + 1]]
<1>0. /\ Shape /\ CallInv(c) /\ KnownInv(c) /\ at[c] = "inventory" /\ Learn(c, "rows", v)
      /\ Goto(c, "ceiling") /\ "ceiling" \in Label /\ Len(inventories[c]) < Len(scopes(c))
      /\ UNCHANGED <<req, inventories, left, result, steady, torn, state, changes, store>>
  BY DEF IInv, CallInv, QueryRows, Label
<1> HIDE DEF v
<1>1. at' \in [Call -> Label] /\ at'[c] = "ceiling" /\ \A d \in Call \ {c} : at'[d] = at[d]
  BY <1>0, GotoEffect
<1>2. /\ DOMAIN known' = Call /\ \A d \in Call \ {c} : known'[d] = known[d]
      /\ known'[c] = [rows |-> v, device |-> known[c].device, toolkit |-> known[c].toolkit,
                      kernel |-> known[c].kernel]
  BY <1>0, LearnEffect
<1>3. Shape' /\ \A d \in Call \ {c} : Same(d)
  BY <1>0, <1>1, <1>2 DEF Shape, Same
<1>4. scopes(c)' = scopes(c) /\ host' = host
  BY <1>0 DEF scopes, Inspecting, Op, host
<1>5. ScopeInv(c)'
  BY <1>0, <1>1, <1>4 DEF CallInv, ScopeInv
<1>9. ReadInv(c)'
  <2>1. known'[c].rows = v /\ v = host.rows[scopes(c)[Len(inventories[c]) + 1]]
    BY <1>2 DEF v
  <2> QED
    BY <1>0, <1>1, <1>4, <2>1 DEF CallInv, ReadInv, HasToolkit, Ended
<1> USE DEF Live, Ended, HasToolkit, Op, Inspecting, host
<1>6. PlaceInv(c)' /\ FoundInv(c)' /\ ResultInv(c)'
  BY <1>0, <1>1 DEF CallInv, PlaceInv, FoundInv, ResultInv
<1>7. PassedInv(c)'
  BY <1>0, <1>1 DEF CallInv, PassedInv, toolkitDiscoveryRequest
<1>8. KnownInv(c)'
  BY <1>0, <1>1, <1>2 DEF KnownInv
<1> QED
  BY <1>0, <1>1, <1>3, <1>5, <1>6, <1>7, <1>8, <1>9, ObserveStep DEF CallInv

\* An inventory is of the scope it was asked of, and its devices are the rows, with
\* the ceiling.
LEMMA InventoryScope ==
  ASSUME NEW rows, NEW scope, NEW ceiling, parseInventoryCSV(rows, scope, ceiling).err = "nil"
  PROVE  LET found == parseInventoryCSV(rows, scope, ceiling)
         IN  /\ found.scope = scope
             /\ \A d \in found.devices :
                   /\ d.ceiling = ceiling
                   /\ \E i \in DOMAIN rows : rows[i].uuid = d.uuid /\ rows[i].driver = d.driver
<1> DEFINE devices == {[uuid |-> rows[i].uuid, name |-> rows[i].name, cc |-> rows[i].cc,
                        architecture |-> architectureForComputeCapability(rows[i].cc),
                        driver |-> rows[i].driver, ceiling |-> ceiling,
                        index |-> rows[i].index] : i \in DOMAIN rows}
           found == parseInventoryCSV(rows, scope, ceiling)
<1>1. found = [err |-> "nil", scope |-> scope, devices |-> devices]
  BY DEF parseInventoryCSV, Error
<1>2. found.scope = scope /\ found.devices = devices
  <2> HIDE DEF devices, found
  <2> QED
    BY <1>1
<1>3. \A d \in devices :
         /\ d.ceiling = ceiling
         /\ \E i \in DOMAIN rows : rows[i].uuid = d.uuid /\ rows[i].driver = d.driver
  OBVIOUS
<1> QED
  BY <1>2, <1>3

\* One more inventory.
LEMMA AppendEffect ==
  ASSUME Shape, NEW c \in Call, ScopeInv(c), Len(inventories[c]) < Len(scopes(c)), NEW found,
         inventories'[c] = Append(inventories[c], found),
         found.scope = scopes(c)[Len(inventories[c]) + 1], scopes(c)' = scopes(c), at'[c] = "inventory"
  PROVE  /\ ScopeInv(c)'
         /\ \A i \in DOMAIN inventories'[c] :
               \/ i \in DOMAIN inventories[c] /\ inventories'[c][i] = inventories[c][i]
               \/ i = Len(inventories[c]) + 1 /\ inventories'[c][i] = found
<1> DEFINE one == inventories[c]
           two == inventories'[c]
           n   == Len(one)
           m   == Len(scopes(c))
<1>1. PICK S : one \in Seq(S)
  BY DEF ScopeInv
<1>2. m \in Nat
  BY ScopesFacts
<1>3. /\ n < m /\ two = Append(one, found)
      /\ \A i \in DOMAIN one : one[i].scope = scopes(c)[i]
      /\ found.scope = scopes(c)[n + 1]
  BY DEF ScopeInv
<1> HIDE DEF one, two, m
<1>4. n \in Nat /\ DOMAIN one = 1 .. n
  BY <1>1
<1>5. /\ two \in Seq(S \cup {found}) /\ Len(two) = n + 1 /\ DOMAIN two = 1 .. n + 1
      /\ two[n + 1] = found /\ \A i \in 1 .. n : two[i] = one[i]
  <2>1. one \in Seq(S \cup {found}) /\ found \in S \cup {found}
    BY <1>1
  <2> QED
    BY <1>3, <2>1
<1>6. Len(two) <= m
  BY <1>2, <1>3, <1>4, <1>5
<1>7. \A i \in DOMAIN two : two[i].scope = scopes(c)[i]
  BY <1>3, <1>4, <1>5
<1>8. \E T : two \in Seq(T)
  BY <1>5
<1>9. \A i \in DOMAIN two : \/ i \in DOMAIN one /\ two[i] = one[i]
                            \/ i = n + 1 /\ two[i] = found
  BY <1>4, <1>5
<1> QED
  BY <1>6, <1>7, <1>8, <1>9 DEF ScopeInv, one, two, m

\* The ceiling, and the inventory of one scope.
LEMMA InventoryStep ==
  ASSUME IInv, NEW c \in Call, runInventory(c), UNCHANGED <<state, changes, store>>
  PROVE  IInv'
<1> DEFINE scope == scopes(c)[Len(inventories[c]) + 1]
           found == parseInventoryCSV(known[c].rows, scope, host.ceiling[scope])
<1>0. /\ Shape /\ CallInv(c) /\ KnownInv(c) /\ at[c] = "ceiling" /\ Learn(c, "rows", <<>>)
      /\ "inventory" \in Label
      /\ UNCHANGED <<req, left, steady, torn, state, changes, store>>
  BY DEF IInv, CallInv, runInventory, Label
<1>1. IF found.err # "nil" THEN Return(c, found) /\ UNCHANGED inventories
      ELSE /\ inventories' = [inventories EXCEPT ![c] = Append(@, found)]
           /\ Goto(c, "inventory") /\ UNCHANGED result
  BY DEF runInventory
<1>2. found.err = "nil" => found.scope = scopes(c)[Len(inventories[c]) + 1]
  BY InventoryScope
<1>7. ASSUME found.err = "nil", ~torn[c], NEW d \in found.devices PROVE ShownIn(d, scope)
  <2>1. known[c].rows = host.rows[scope]
    BY <1>0, <1>7 DEF CallInv, ReadInv
  <2>2. /\ d.ceiling = host.ceiling[scope]
        /\ \E i \in DOMAIN known[c].rows : known[c].rows[i].uuid = d.uuid /\ known[c].rows[i].driver = d.driver
    BY <1>7, InventoryScope
  <2>3. host \in Range(Hosts)
    BY HostHere
  <2> QED
    BY <2>1, <2>2, <2>3 DEF ShownIn
<1> HIDE DEF found
<1>3. /\ DOMAIN known' = Call /\ \A d \in Call \ {c} : known'[d] = known[d]
      /\ known'[c] = [rows |-> <<>>, device |-> known[c].device, toolkit |-> known[c].toolkit,
                      kernel |-> known[c].kernel]
  BY <1>0, LearnEffect
<1>4. /\ known'[c] = [rows |-> known'[c].rows, device |-> known'[c].device,
                      toolkit |-> known'[c].toolkit, kernel |-> known'[c].kernel]
      /\ known'[c].device = known[c].device
  BY <1>3
<1>5. CASE found.err # "nil"
  <2>1. /\ at' \in [Call -> Label] /\ at'[c] = "done" /\ \A d \in Call \ {c} : at'[d] = at[d]
        /\ DOMAIN result' = Call /\ result'[c] = found /\ \A d \in Call \ {c} : result'[d] = result[d]
    BY <1>0, <1>1, <1>5, ReturnEffect
  <2>2. CallInv(c)'
    BY <1>0, <1>1, <1>4, <1>5, <2>1, ErrorStep
  <2>3. Shape' /\ \A d \in Call \ {c} : Same(d)
    BY <1>0, <1>1, <1>3, <1>5, <2>1 DEF Shape, Same
  <2> QED
    BY <1>0, <1>5, <2>1, <2>2, <2>3, ObserveStep
<1>6. CASE found.err = "nil"
  <2>1. at' \in [Call -> Label] /\ at'[c] = "inventory" /\ \A d \in Call \ {c} : at'[d] = at[d]
    BY <1>0, <1>1, <1>6, GotoEffect
  <2>2. /\ DOMAIN inventories' = Call /\ inventories'[c] = Append(inventories[c], found)
        /\ \A d \in Call \ {c} : inventories'[d] = inventories[d]
    BY <1>0, <1>1, <1>6 DEF Shape
  <2>3. Shape' /\ \A d \in Call \ {c} : Same(d)
    BY <1>0, <1>1, <1>3, <1>6, <2>1, <2>2 DEF Shape, Same
  <2>4. scopes(c)' = scopes(c)
    BY <1>0 DEF scopes, Inspecting, Op
  <2>0. ScopeInv(c) /\ Len(inventories[c]) < Len(scopes(c))
    BY <1>0 DEF CallInv, ScopeInv
  <2>5. /\ ScopeInv(c)'
        /\ \A i \in DOMAIN inventories'[c] :
              \/ i \in DOMAIN inventories[c] /\ inventories'[c][i] = inventories[c][i]
              \/ i = Len(inventories[c]) + 1 /\ inventories'[c][i] = found
    BY <1>0, <1>2, <1>6, <2>0, <2>1, <2>2, <2>4, AppendEffect
  <2>9. ReadInv(c)'
    <3> SUFFICES ASSUME ~torn[c]
                 PROVE  \A i \in DOMAIN inventories'[c] : \A d \in inventories'[c][i].devices :
                            ShownIn(d, scopes(c)[i])
      BY <1>0, <2>1, <2>4 DEF ReadInv, HasToolkit, Ended
    <3>1. \A i \in DOMAIN inventories[c] : \A d \in inventories[c][i].devices : ShownIn(d, scopes(c)[i])
      BY <1>0 DEF CallInv, ReadInv
    <3> HIDE DEF ShownIn
    <3> QED
      BY <1>6, <1>7, <2>5, <3>1
  <2> USE DEF Live, Ended, HasToolkit, Op, Inspecting, host
  <2>6. PlaceInv(c)' /\ FoundInv(c)' /\ ResultInv(c)'
    BY <1>0, <2>1 DEF CallInv, PlaceInv, FoundInv, ResultInv
  <2>7. PassedInv(c)'
    BY <1>0, <2>1 DEF CallInv, PassedInv, toolkitDiscoveryRequest
  <2>8. KnownInv(c)'
    BY <1>0, <1>4, <2>1 DEF KnownInv
  <2> QED
    BY <1>0, <2>1, <2>3, <2>5, <2>6, <2>7, <2>8, <2>9, ObserveStep DEF CallInv
<1> QED
  BY <1>5, <1>6

\* The positions of a sequence.
LEMMA SequenceDomain ==
  ASSUME NEW S, NEW s \in Seq(S) PROVE DOMAIN s = 1 .. Len(s)
  OBVIOUS

\* Reconcile, and the device of the profile.
LEMMA FindDeviceStep ==
  ASSUME IInv, NEW c \in Call, FindDevice(c), UNCHANGED <<state, changes, store>>
  PROVE  IInv'
<1> DEFINE all    == inventories[c]
           merged == InventoryWithScopes(all)
           scoped == ExecutionScopedInventory(all, req[c].distribution)
           failed == merged.err # "nil" \/ (Inspecting(c) /\ scoped.err # "nil")
           mine   == IF failed THEN {}
                     ELSE {d \in merged.devices : d.d.uuid = Profile[req[c].profile].uuid}
           device == CHOOSE d \in mine : TRUE
<1>0. /\ Shape /\ CallInv(c) /\ KnownInv(c) /\ at[c] = "inventory"
      /\ Len(all) = Len(scopes(c)) /\ "toolkit" \in Label /\ "podman" \in Label
      /\ UNCHANGED <<req, inventories, left, steady, torn, state, changes, store>>
  BY DEF IInv, CallInv, FindDevice, Label
<1>1. \/ Return(c, Error("inventory_failed")) /\ UNCHANGED known
      \/ /\ Inspecting(c) /\ scoped.err = "nil" /\ UNCHANGED <<result, known>>
         /\ Goto(c, IF req[c].reuse THEN "podman" ELSE "toolkit")
      \/ Return(c, Error("gpu_not_found")) /\ UNCHANGED known
      \/ /\ ~Inspecting(c) /\ mine # {} /\ Learn(c, "device", device)
         /\ Goto(c, "toolkit") /\ UNCHANGED result
  BY DEF FindDevice
<1>2. mine # {} => /\ merged.err = "nil" /\ device \in merged.devices
                  /\ device.d.uuid = Profile[req[c].profile].uuid
  OBVIOUS
<1>8. ASSUME scoped.err = "nil"
      PROVE  \E i \in DOMAIN all : all[i].scope = ExecutionScope(req[c].distribution)
  BY <1>8 DEF ExecutionScopedInventory, Error
<1>9. ASSUME mine # {} PROVE \E i \in DOMAIN all : device.d \in all[i].devices
  <2>1. merged = Reconcile(all)
    BY <1>2, <1>9 DEF InventoryWithScopes, Error
  <2> HIDE DEF merged, mine, device, all
  <2> QED
    BY <1>2, <1>9, <2>1, ReconcileReads
<1> HIDE DEF merged, scoped, failed, mine, device
<1>3. CASE Return(c, Error("inventory_failed")) /\ UNCHANGED known
  <2>1. Error("inventory_failed").err # "nil"
    BY DEF Error
  <2> QED
    BY <1>0, <1>3, <2>1, GiveUpStep
<1>4. CASE Return(c, Error("gpu_not_found")) /\ UNCHANGED known
  <2>1. Error("gpu_not_found").err # "nil"
    BY DEF Error
  <2> QED
    BY <1>0, <1>4, <2>1, GiveUpStep
<1>5. scopes(c)' = scopes(c)
  BY <1>0 DEF scopes, Inspecting, Op
<1>6. ASSUME Inspecting(c), scoped.err = "nil", NEW q \in {"podman", "toolkit"}, Goto(c, q),
             UNCHANGED <<result, known>>
      PROVE  IInv'
  <2>1. at' \in [Call -> Label] /\ at'[c] = q /\ \A d \in Call \ {c} : at'[d] = at[d]
    BY <1>0, <1>6, GotoEffect
  <2>2. Shape' /\ \A d \in Call \ {c} : Same(d)
    BY <1>0, <1>6, <2>1 DEF Shape, Same
  <2>3. ScopeInv(c)'
    BY <1>0, <1>5, <1>6, <1>8, <2>1 DEF CallInv, ScopeInv
  <2>6. ReadInv(c)'
    BY <1>0, <1>5, <1>6, <2>1 DEF CallInv, ReadInv, HasToolkit, Ended, Inspecting, Op
  <2> USE DEF Live, Ended, HasToolkit, Op, Inspecting, host
  <2>4. PlaceInv(c)' /\ FoundInv(c)' /\ ResultInv(c)'
    BY <1>0, <1>6, <2>1 DEF CallInv, PlaceInv, FoundInv, ResultInv
  <2>5. PassedInv(c)' /\ KnownInv(c)'
    BY <1>0, <1>6, <2>1 DEF PassedInv, KnownInv
  <2>7. at'[c] # "done"
    BY <2>1
  <2> QED
    BY <1>0, <2>2, <2>3, <2>4, <2>5, <2>6, <2>7, ObserveStep DEF CallInv
<1>7. CASE ~Inspecting(c) /\ mine # {} /\ Learn(c, "device", device) /\ Goto(c, "toolkit")
           /\ UNCHANGED result
  <2>1. at' \in [Call -> Label] /\ at'[c] = "toolkit" /\ \A d \in Call \ {c} : at'[d] = at[d]
    BY <1>0, <1>7, GotoEffect
  <2>2. /\ DOMAIN known' = Call /\ \A d \in Call \ {c} : known'[d] = known[d]
        /\ known'[c] = [rows |-> known[c].rows, device |-> device, toolkit |-> known[c].toolkit,
                        kernel |-> known[c].kernel]
    BY <1>0, <1>7, LearnEffect
  <2>3. /\ known'[c] = [rows |-> known'[c].rows, device |-> known'[c].device,
                        toolkit |-> known'[c].toolkit, kernel |-> known'[c].kernel]
        /\ known'[c].device = device
    BY <2>2
  <2>4. Shape' /\ \A d \in Call \ {c} : Same(d)
    BY <1>0, <1>7, <2>1, <2>2 DEF Shape, Same
  <2>5. ScopeInv(c)'
    BY <1>0, <1>5, <1>7, <2>1 DEF CallInv, ScopeInv, Inspecting, Op
  <2>9. ReadInv(c)'
    <3>1. PICK i \in DOMAIN all : device.d \in all[i].devices
      BY <1>7, <1>9
    <3>2. PICK S : all \in Seq(S)
      BY <1>0 DEF CallInv, ScopeInv
    <3>3. i \in DOMAIN scopes(c)
      BY <1>0, <3>1, <3>2, SequenceDomain, ScopesFacts
    <3>4. ~torn[c] => \A j \in DOMAIN all : \A d \in all[j].devices : ShownIn(d, scopes(c)[j])
      BY <1>0 DEF CallInv, ReadInv
    <3>5. scopes(c)[i] \in Range(scopes(c)) /\ (~torn[c] => ShownIn(device.d, scopes(c)[i]))
      BY <3>1, <3>3, <3>4 DEF Range
    <3> QED
      BY <1>0, <1>5, <2>1, <2>3, <3>4, <3>5 DEF ReadInv
  <2> USE DEF Live, Ended, HasToolkit, Op, Inspecting, host
  <2>6. PlaceInv(c)' /\ FoundInv(c)' /\ ResultInv(c)'
    BY <1>0, <2>1 DEF CallInv, PlaceInv, FoundInv, ResultInv
  <2>7. PassedInv(c)'
    BY <1>0, <2>1 DEF CallInv, PassedInv, toolkitDiscoveryRequest
  <2>8. KnownInv(c)'
    BY <1>0, <1>2, <1>7, <2>1, <2>3 DEF KnownInv
  <2>10. at'[c] # "done"
    BY <2>1
  <2> QED
    BY <1>0, <2>4, <2>5, <2>6, <2>7, <2>8, <2>9, <2>10, ObserveStep DEF CallInv
<1> QED
  BY <1>1, <1>3, <1>4, <1>6, <1>7

\* What the search of a call on this host finds: its nvcc reports the version, for
\* the provider on the host; the configured root if there is one; of those where
\* installers put it the only one; for a distribution nothing of the daemon's.
LEMMA SearchFinds ==
  ASSUME NEW c \in Call, NEW v \in Versions, NEW t,
         t = resolveToolkit(toolkitDiscoveryRequest(c, v), host), t.err = "nil"
  PROVE  /\ t.version = v
         /\ ~Inspecting(c) => host.nvcc[""][t.root] = t.version
         /\ Configured(c) # "" => t.root = Configured(c)
         /\ t.group = 4 => OnlyChoice(c, t)
         /\ Inspecting(c) /\ req[c].distribution # "" => Given(c, host, t)
<1> DEFINE q == toolkitDiscoveryRequest(c, v)
<1>1. /\ q.version = v /\ q.root = Configured(c) /\ q.env = req[c].env
      /\ q.distribution = IF Inspecting(c) THEN req[c].distribution ELSE ""
  BY DEF toolkitDiscoveryRequest, Configured
<1>2. v # "absent"
  BY DEF Versions
<1>3. t = resolveToolkit(q, host)
  OBVIOUS
<1>4. OnlyInstalled(q, host, t.root) /\ t.version = v => OnlyChoice(c, t)
  BY DEF OnlyChoice
<1> HIDE DEF q
<1>5. /\ t.version = v /\ inspectToolkitCandidate(q, host, t.root) = v
      /\ q.root # "" => t.root = q.root
      /\ t.group = 4 => OnlyInstalled(q, host, t.root)
      /\ q.distribution # ""
            => t.root \in {q.root, q.env["root"], q.env[v], q.env["path"], host.wslRoot[v]}
  BY <1>1, <1>2, <1>3, ResolveFinds
<1>6. ~Inspecting(c) => host.nvcc[""][t.root] = t.version
  BY <1>1, <1>2, <1>5 DEF inspectToolkitCandidate, RunsIn
<1>7. Inspecting(c) /\ req[c].distribution # "" => Given(c, host, t)
  BY <1>1, <1>5 DEF Given, Configured
<1> QED
  BY <1>1, <1>4, <1>5, <1>6, <1>7

\* A call learns its toolkit.
LEMMA LearnToolkit ==
  ASSUME Shape, NEW c \in Call, KnownInv(c), NEW t, Learn(c, "toolkit", t)
  PROVE  /\ DOMAIN known' = Call /\ \A d \in Call \ {c} : known'[d] = known[d]
         /\ known'[c] = [rows |-> known'[c].rows, device |-> known'[c].device,
                         toolkit |-> known'[c].toolkit, kernel |-> known'[c].kernel]
         /\ known'[c].device = known[c].device /\ known'[c].toolkit = t
<1>1. /\ DOMAIN known' = Call /\ \A d \in Call \ {c} : known'[d] = known[d]
      /\ known'[c] = [rows |-> known[c].rows, device |-> known[c].device, toolkit |-> t,
                      kernel |-> known[c].kernel]
  BY LearnEffect
<1> QED
  BY <1>1

\* A call learns its toolkit and goes on.
LEMMA ToolkitStep ==
  ASSUME IInv, NEW c \in Call, at[c] = "toolkit", NEW t, Learn(c, "toolkit", t),
         NEW q \in {"cdi", "state", "wsl"}, Goto(c, q), q = "cdi" <=> Inspecting(c),
         q = "state" => req[c].distribution = "",
         UNCHANGED <<req, inventories, left, result, steady, torn, state, changes, store>>,
         t.version = left[c][1],
         ~Inspecting(c) =>
            ValidateCompatibility(known[c].device.d, t.version) /\ host.nvcc[""][t.root] = t.version,
         Configured(c) # "" /\ ~(Inspecting(c) /\ req[c].compiled) => t.root = Configured(c),
         t.group = 4 => OnlyChoice(c, t),
         Inspecting(c) /\ req[c].distribution # "" /\ ~req[c].compiled => Given(c, host, t)
  PROVE  IInv'
<1>0. Shape /\ CallInv(c) /\ KnownInv(c) /\ q \in Label /\ host \in Range(Hosts)
  BY HostHere DEF IInv, CallInv, Label
<1>1. at' \in [Call -> Label] /\ at'[c] = q /\ \A d \in Call \ {c} : at'[d] = at[d]
  BY <1>0, GotoEffect
<1>2. DOMAIN known' = Call /\ \A d \in Call \ {c} : known'[d] = known[d]
  BY <1>0, LearnToolkit
<1>3. /\ known'[c] = [rows |-> known'[c].rows, device |-> known'[c].device,
                      toolkit |-> known'[c].toolkit, kernel |-> known'[c].kernel]
      /\ known'[c].device = known[c].device /\ known'[c].toolkit = t
  BY <1>0, LearnToolkit
<1>4. Shape' /\ \A d \in Call \ {c} : Same(d)
  BY <1>0, <1>1, <1>2 DEF Shape, Same
<1>5. /\ scopes(c)' = scopes(c) /\ Inspecting(c)' = Inspecting(c) /\ host' = host
      /\ Configured(c)' = Configured(c) /\ OnlyChoice(c, t)' = OnlyChoice(c, t)
  BY DEF scopes, Inspecting, Op, host, Configured, OnlyChoice, OnlyInstalled, toolkitDiscoveryRequest
<1>6. ScopeInv(c)'
  BY <1>0, <1>1, <1>5 DEF CallInv, ScopeInv
<1>7. FoundInv(c)'
  BY <1>0, <1>3, <1>5
     DEF FoundInv, OnlyChoice, OnlyInstalled, toolkitDiscoveryRequest, Configured, Given, Inspecting, Op
<1>11. ReadInv(c)'
  BY <1>0, <1>1, <1>3, <1>5 DEF CallInv, ReadInv
<1> USE DEF Live, Ended, HasToolkit, Op, Inspecting, host
<1>8. PlaceInv(c)' /\ ResultInv(c)'
  BY <1>0, <1>1 DEF CallInv, PlaceInv, ResultInv
<1>9. PassedInv(c)'
  BY <1>0, <1>1 DEF CallInv, PassedInv, toolkitDiscoveryRequest
<1>10. KnownInv(c)'
  BY <1>0, <1>1, <1>3 DEF KnownInv
<1>12. at'[c] # "done"
  BY <1>1
<1> QED
  BY <1>4, <1>6, <1>7, <1>8, <1>9, <1>10, <1>11, <1>12, ObserveStep DEF CallInv

\* A version that cannot be had is passed over.
LEMMA NextVersionStep ==
  ASSUME IInv, NEW c \in Call, at[c] = "toolkit", ~Inspecting(c), Len(left[c]) # 1,
         FindToolkit(c).err # "nil", left' = [left EXCEPT ![c] = Tail(@)],
         UNCHANGED <<req, at, inventories, known, result, steady, torn, state, changes, store>>
  PROVE  IInv'
<1> DEFINE p == req[c].profile
<1>0. Shape /\ CallInv(c)
  BY DEF IInv
<1>1. p \in DOMAIN Profile /\ left[c] \in StillToTry(p)
  BY <1>0 DEF CallInv, PlaceInv, Live
<1>2. /\ left[c] = Profile[p].toolkits /\ Tail(left[c]) \in StillToTry(p)
      /\ Head(left[c]) = Profile[p].toolkits[1]
  BY <1>1, StillToTryFacts
<1>3. /\ DOMAIN left' = Call /\ left'[c] = Tail(left[c])
      /\ \A d \in Call \ {c} : left'[d] = left[d]
  BY <1>0 DEF Shape
<1>4. Shape' /\ \A d \in Call \ {c} : Same(d)
  BY <1>0, <1>3 DEF Shape, Same
<1>5. resolveToolkit(toolkitDiscoveryRequest(c, Profile[p].toolkits[1]), host).err # "nil"
  BY <1>2 DEF FindToolkit
<1>6. ScopeInv(c)' /\ ReadInv(c)'
  BY <1>0 DEF CallInv, ScopeInv, ReadInv, scopes, Inspecting, Op, host, HasToolkit, Ended
<1>7. PassedInv(c)'
  BY <1>5 DEF PassedInv, toolkitDiscoveryRequest, host, Inspecting, Op
<1> USE DEF Live, Ended, HasToolkit, Op, Inspecting, host
<1>8. PlaceInv(c)' /\ FoundInv(c)' /\ ResultInv(c)'
  BY <1>0, <1>2, <1>3 DEF CallInv, PlaceInv, FoundInv, ResultInv
<1>9. KnownInv(c)'
  BY <1>0 DEF CallInv, KnownInv
<1> QED
  BY <1>0, <1>4, <1>6, <1>7, <1>8, <1>9, ObserveStep DEF CallInv

\* The search for the toolkit.
LEMMA ResolveStep ==
  ASSUME IInv, NEW c \in Call, Resolve(c), UNCHANGED <<state, changes, store>>
  PROVE  IInv'
<1> DEFINE found == FindToolkit(c)
           q == IF req[c].distribution = "" THEN "state" ELSE "wsl"
<1>0. /\ at[c] = "toolkit" /\ PlaceInv(c)
      /\ UNCHANGED <<req, inventories, steady, torn, state, changes, store>>
  BY DEF IInv, CallInv, Resolve
<1>1. \/ /\ found.err = "nil" /\ Inspecting(c)
         /\ Learn(c, "toolkit", found) /\ Goto(c, "cdi") /\ UNCHANGED <<left, result>>
      \/ /\ found.err = "nil" /\ ~Inspecting(c)
         /\ ValidateCompatibility(known[c].device.d, found.version)
         /\ Learn(c, "toolkit", found) /\ Goto(c, q) /\ UNCHANGED <<left, result>>
      \/ Return(c, Error("incompatible")) /\ UNCHANGED <<known, left>>
      \/ found.err # "nil" /\ Return(c, found) /\ UNCHANGED <<known, left>>
      \/ /\ found.err # "nil" /\ ~Inspecting(c) /\ Len(left[c]) # 1
         /\ left' = [left EXCEPT ![c] = Tail(@)] /\ UNCHANGED <<at, known, result>>
  BY DEF Resolve
<1>2. /\ q \in {"cdi", "state", "wsl"} /\ q # "cdi" /\ (q = "state" => req[c].distribution = "")
      /\ "cdi" \in {"cdi", "state", "wsl"} /\ Error("incompatible").err # "nil"
  BY DEF Error
<1> HIDE DEF q
<1>3. Head(left[c]) = left[c][1] /\ left[c][1] \in Versions
  BY <1>0, StillToTryFacts DEF PlaceInv, Live
<1>4. ASSUME found.err = "nil", ~(Inspecting(c) /\ req[c].compiled)
      PROVE  /\ found.version = left[c][1]
             /\ ~Inspecting(c) => host.nvcc[""][found.root] = found.version
             /\ Configured(c) # "" => found.root = Configured(c)
             /\ found.group = 4 => OnlyChoice(c, found)
             /\ Inspecting(c) /\ req[c].distribution # "" => Given(c, host, found)
  <2>1. found = resolveToolkit(toolkitDiscoveryRequest(c, left[c][1]), host)
    BY <1>3, <1>4 DEF FindToolkit
  <2> HIDE DEF found
  <2> QED
    BY <1>3, <1>4, <2>1, SearchFinds
<1>5. CASE /\ found.err = "nil" /\ Inspecting(c)
           /\ Learn(c, "toolkit", found) /\ Goto(c, "cdi") /\ UNCHANGED <<left, result>>
  <2>1. CASE req[c].compiled
    <3>1. found = Precompiled(Head(left[c]))
      BY <1>5, <2>1 DEF FindToolkit
    <3> HIDE DEF found
    <3>2. found.version = left[c][1] /\ found.group # 4
      <4>1. found.version = left[c][1] /\ found.group = 0
        BY <1>3, <3>1 DEF Precompiled
      <4> QED
        BY <4>1
    <3> QED
      BY <1>0, <1>2, <1>5, <2>1, <3>2, ToolkitStep
  <2>2. CASE ~req[c].compiled
    <3> HIDE DEF found
    <3> QED
      BY <1>0, <1>2, <1>4, <1>5, <2>2, ToolkitStep
  <2> QED
    BY <2>1, <2>2
<1>6. CASE /\ found.err = "nil" /\ ~Inspecting(c)
           /\ ValidateCompatibility(known[c].device.d, found.version)
           /\ Learn(c, "toolkit", found) /\ Goto(c, q) /\ UNCHANGED <<left, result>>
  <2> HIDE DEF found
  <2> QED
    BY <1>0, <1>2, <1>4, <1>6, ToolkitStep
<1>7. CASE Return(c, Error("incompatible")) /\ UNCHANGED <<known, left>>
  BY <1>0, <1>2, <1>7, GiveUpStep
<1>8. CASE found.err # "nil" /\ Return(c, found) /\ UNCHANGED <<known, left>>
  <2> HIDE DEF found
  <2> QED
    BY <1>0, <1>8, GiveUpStep
<1>9. CASE /\ found.err # "nil" /\ ~Inspecting(c) /\ Len(left[c]) # 1
           /\ left' = [left EXCEPT ![c] = Tail(@)] /\ UNCHANGED <<at, known, result>>
  <2> QED
    BY <1>0, <1>9, NextVersionStep
<1> QED
  BY <1>1, <1>5, <1>6, <1>7, <1>8, <1>9

\* The kernel of the distribution.
LEMMA InspectWSLStep ==
  ASSUME IInv, NEW c \in Call, InspectWSL(c), UNCHANGED <<state, changes, store>>
  PROVE  IInv'
<1> DEFINE kernel == host.kernel[req[c].distribution]
<1>0. /\ Shape /\ CallInv(c) /\ KnownInv(c) /\ at[c] = "wsl" /\ "state" \in Label
      /\ UNCHANGED <<req, inventories, left, steady, torn, state, changes, store>>
  BY DEF IInv, CallInv, InspectWSL, Label
<1>1. CASE kernel = None
  <2>1. /\ Return(c, Error("wsl_inspection_failed")) /\ UNCHANGED known
        /\ Error("wsl_inspection_failed").err # "nil"
    BY <1>1 DEF InspectWSL, Error
  <2> QED
    BY <1>0, <2>1, GiveUpStep
<1>2. CASE kernel # None
  <2>1. Learn(c, "kernel", kernel) /\ Goto(c, "state") /\ UNCHANGED result
    BY <1>2 DEF InspectWSL
  <2>2. at' \in [Call -> Label] /\ at'[c] = "state" /\ \A d \in Call \ {c} : at'[d] = at[d]
    BY <1>0, <2>1, GotoEffect
  <2>3. /\ DOMAIN known' = Call /\ \A d \in Call \ {c} : known'[d] = known[d]
        /\ known'[c] = [rows |-> known[c].rows, device |-> known[c].device,
                        toolkit |-> known[c].toolkit, kernel |-> kernel]
    BY <1>0, <2>1, LearnEffect
  <2>4. /\ known'[c] = [rows |-> known'[c].rows, device |-> known'[c].device,
                        toolkit |-> known'[c].toolkit, kernel |-> known'[c].kernel]
        /\ known'[c].kernel = kernel /\ known'[c].device = known[c].device
        /\ known'[c].toolkit = known[c].toolkit
    BY <2>3
  <2>5. Shape' /\ \A d \in Call \ {c} : Same(d)
    BY <1>0, <2>1, <2>2, <2>3 DEF Shape, Same
  <2>6. ScopeInv(c)'
    BY <1>0, <2>2 DEF CallInv, ScopeInv, scopes, Inspecting, Op
  <2>11. ReadInv(c)'
    BY <1>0, <2>2, <2>4 DEF CallInv, ReadInv, scopes, Inspecting, Op, HasToolkit, Ended
  <2> USE DEF Live, Ended, HasToolkit, Op, Inspecting, host
  <2>7. PlaceInv(c)' /\ ResultInv(c)'
    BY <1>0, <2>2 DEF CallInv, PlaceInv, ResultInv
  <2>8. PassedInv(c)'
    BY <1>0, <2>2 DEF CallInv, PassedInv, toolkitDiscoveryRequest
  <2>9. KnownInv(c)'
    BY <1>0, <2>2, <2>4 DEF KnownInv
  <2>10. FoundInv(c)'
    BY <1>0, <2>2, <2>4, FoundFrame DEF CallInv
  <2>12. at'[c] # "done"
    BY <2>2
  <2> QED
    BY <1>0, <2>5, <2>6, <2>7, <2>8, <2>9, <2>10, <2>11, <2>12, ObserveStep DEF CallInv
<1> QED
  BY <1>1, <1>2

-----------------------------------------------------------------------------
(***************************************************************************)
(* Return.                                                                 *)
(***************************************************************************)

\* A call that returns what it has learnt.
LEMMA ReturnLearnt ==
  ASSUME IInv, NEW c \in Call, at[c] \in {"cdi", "state", "record"}, NEW r, Return(c, r), r.err = "nil",
         UNCHANGED <<req, inventories, left, known, steady, torn, state>>, DOMAIN store' = DOMAIN store,
         at[c] = "cdi" => Inspecting(c), ResultInv(c)'
  PROVE  /\ Shape' /\ CallInv(c)' /\ \A d \in Call \ {c} : Same(d)
         /\ at'[c] = "done" /\ result'[c] = r /\ \A d \in Call \ {c} : at'[d] = at[d]
<1>0. Shape /\ CallInv(c)
  BY DEF IInv
<1>1. /\ at' \in [Call -> Label] /\ at'[c] = "done" /\ \A d \in Call \ {c} : at'[d] = at[d]
      /\ DOMAIN result' = Call /\ result'[c] = r /\ \A d \in Call \ {c} : result'[d] = result[d]
  BY <1>0, ReturnEffect
<1>2. Shape' /\ \A d \in Call \ {c} : Same(d)
  BY <1>0, <1>1 DEF Shape, Same
<1>3. ScopeInv(c)'
  BY <1>0, <1>1 DEF CallInv, ScopeInv, scopes, Inspecting, Op
<1>8. ReadInv(c)'
  BY <1>0, <1>1 DEF CallInv, ReadInv, scopes, Inspecting, Op, HasToolkit, Ended
<1> USE DEF Live, Ended, HasToolkit, Op, Inspecting, host
<1>4. PlaceInv(c)'
  BY <1>0, <1>1 DEF CallInv, PlaceInv
<1>5. PassedInv(c)'
  BY <1>0, <1>1 DEF CallInv, PassedInv, toolkitDiscoveryRequest
<1>6. KnownInv(c)'
  BY <1>0, <1>1 DEF CallInv, KnownInv
<1>7. FoundInv(c)'
  BY <1>0, <1>1, FoundFrame DEF CallInv
<1> QED
  BY <1>1, <1>2, <1>3, <1>4, <1>5, <1>6, <1>7, <1>8 DEF CallInv

\* The inventory that Inspect returns is of the scope it executes in.
LEMMA ScopedIsRead ==
  ASSUME IInv, NEW c \in Call, at[c] = "cdi"
  PROVE  ExecutionScopedInventory(inventories[c], req[c].distribution).scope
            = ExecutionScope(req[c].distribution)
<1> DEFINE all == inventories[c]
           scope == ExecutionScope(req[c].distribution)
           mine == {i \in DOMAIN all : all[i].scope = scope}
<1>1. mine # {}
  BY DEF IInv, CallInv, PlaceInv, Live, ScopeInv
<1>2. (CHOOSE i \in mine : TRUE) \in mine
  <2> HIDE DEF mine
  <2> QED
    BY <1>1
<1>3. ExecutionScopedInventory(all, req[c].distribution) = all[CHOOSE i \in mine : TRUE]
  BY <1>1 DEF ExecutionScopedInventory
<1> QED
  BY <1>2, <1>3

\* Inspect ends with the CDI devices.
LEMMA ListCDIStep ==
  ASSUME IInv, NEW c \in Call, ListCDI(c), UNCHANGED <<state, changes, store>>
  PROVE  IInv'
<1> DEFINE inventory == ExecutionScopedInventory(inventories[c], req[c].distribution)
           cdi == expandCDIDevices(host.cdi, {d.uuid : d \in inventory.devices})
           r == [err |-> "nil", toolkit |-> known[c].toolkit,
                 devices |-> inventory.devices, scope |-> inventory.scope, cdi |-> cdi]
<1>0. /\ at[c] = "cdi" /\ Shape
      /\ UNCHANGED <<req, inventories, left, known, steady, torn, state, changes, store>>
  BY DEF IInv, ListCDI
<1>1. CASE ~host.ctk
  <2>1. Return(c, Error("inspection_failed")) /\ Error("inspection_failed").err # "nil"
    BY <1>1 DEF ListCDI, Error
  <2> QED
    BY <1>0, <2>1, GiveUpStep
<1>2. CASE host.ctk
  <2>1. Return(c, r)
    BY <1>2 DEF ListCDI
  <2>2. req[c].distribution # "" => inventory.scope = req[c].distribution
    BY <1>0, ScopedIsRead DEF ExecutionScope
  <2>3. Inspecting(c)
    BY <1>0 DEF IInv, CallInv, PlaceInv, Live
  <2> HIDE DEF inventory, cdi
  <2>4. r.err = "nil" /\ r.toolkit = known[c].toolkit /\ r.scope = inventory.scope
    OBVIOUS
  <2> HIDE DEF r
  <2>5. result'[c] = r
    BY <1>0, <2>1, ReturnEffect
  <2>6. ResultInv(c)'
    BY <1>0, <2>2, <2>3, <2>4, <2>5 DEF ResultInv, Inspecting, Op
  <2>7. Shape' /\ CallInv(c)' /\ \A d \in Call \ {c} : Same(d)
    BY <1>0, <2>1, <2>3, <2>4, <2>6, ReturnLearnt
  <2>8. Op(c) # "verify"
    BY <2>3 DEF Inspecting
  <2> QED
    BY <1>0, <2>7, <2>8, ObserveStep
<1> QED
  BY <1>1, <1>2

-----------------------------------------------------------------------------
(***************************************************************************)
(* The store.                                                              *)
(***************************************************************************)

\* The contract of a call, and its device.
LEMMA ContractOf ==
  ASSUME IInv, NEW c \in Call, at[c] \in {"state", "record"}
  PROVE  /\ ~Inspecting(c) /\ req[c].profile \in DOMAIN store
         /\ Digest(c).err = "nil" /\ Digest(c).contract = CanonicalJSON(req[c], known[c])
         /\ Digest(c).contract.device.d.uuid = Profile[req[c].profile].uuid
<1>1. /\ ~Inspecting(c) /\ req[c].profile \in DOMAIN store
      /\ known[c].device.d.uuid = Profile[req[c].profile].uuid
  BY DEF IInv, Shape, CallInv, PlaceInv, KnownInv, Live, HasToolkit
<1>2. Digest(c).err = "nil" /\ Digest(c).contract = CanonicalJSON(req[c], known[c])
  BY DEF Digest
<1>3. CanonicalJSON(req[c], known[c]).device = known[c].device
  BY DEF CanonicalJSON
<1> QED
  BY <1>1, <1>2, <1>3

\* A call of the provider that succeeds.
LEMMA SuccessEffect ==
  ASSUME IInv, NEW c \in Call, at[c] \in {"state", "record"}, NEW noOp, Success(c, noOp),
         UNCHANGED <<req, inventories, left, known, steady, torn, state>>, DOMAIN store' = DOMAIN store
  PROVE  /\ Shape' /\ CallInv(c)' /\ \A d \in Call \ {c} : Same(d)
         /\ at'[c] = "done" /\ result'[c].err = "nil" /\ result'[c].contract = Digest(c).contract
<1> DEFINE k == Digest(c).contract
           r == [err |-> "nil", noOp |-> noOp, contract |-> k]
<1>1. Return(c, r) /\ Shape
  BY DEF Success, IInv
<1>2. ~Inspecting(c) /\ k = CanonicalJSON(req[c], known[c])
  BY ContractOf
<1> HIDE DEF k
<1>3. r.err = "nil" /\ r.contract = k
  OBVIOUS
<1> HIDE DEF r
<1>4. result'[c] = r
  BY <1>1, ReturnEffect
<1>5. ResultInv(c)'
  BY <1>2, <1>3, <1>4 DEF ResultInv, Inspecting, Op
<1>6. Shape' /\ CallInv(c)' /\ at'[c] = "done" /\ \A d \in Call \ {c} : Same(d)
  BY <1>1, <1>3, <1>5, ReturnLearnt
<1> QED
  BY <1>3, <1>4, <1>6 DEF k

\* A success of Plan or Apply that writes nothing.
LEMMA SuccessStep ==
  ASSUME IInv, NEW c \in Call, at[c] \in {"state", "record"}, NEW noOp, Success(c, noOp),
         Op(c) # "verify",
         UNCHANGED <<req, inventories, left, known, steady, torn, state, changes, store>>
  PROVE  IInv'
<1>1. Shape' /\ CallInv(c)' /\ \A d \in Call \ {c} : Same(d)
  BY SuccessEffect
<1> QED
  BY <1>1, ObserveStep

\* Plan.
LEMMA PlanStep ==
  ASSUME IInv, NEW c \in Call, Plan(c), UNCHANGED <<state, changes>>
  PROVE  IInv'
<1>1. /\ at[c] \in {"state", "record"} /\ Op(c) # "verify" /\ Success(c, FALSE)
      /\ UNCHANGED <<req, inventories, left, known, steady, torn, state, changes, store>>
  BY DEF Plan
<1> QED
  BY <1>1, SuccessStep

\* Apply looks at the store.
LEMMA ApplyCheckStep ==
  ASSUME IInv, NEW c \in Call, ApplyCheck(c), UNCHANGED <<state, changes>>
  PROVE  IInv'
<1> DEFINE noOp == store[req[c].profile].err = "nil"
<1>0. /\ Shape /\ CallInv(c) /\ at[c] = "state" /\ Op(c) = "apply" /\ "record" \in Label
      /\ UNCHANGED <<req, inventories, left, known, steady, torn, state, changes, store>>
  BY DEF IInv, ApplyCheck, Label
<1>1. CASE Success(c, noOp)
  <2>1. Op(c) # "verify"
    BY <1>0
  <2> HIDE DEF noOp
  <2> QED
    BY <1>0, <1>1, <2>1, SuccessStep
<1>2. CASE Goto(c, "record") /\ UNCHANGED result
  <2>1. at' \in [Call -> Label] /\ at'[c] = "record" /\ \A d \in Call \ {c} : at'[d] = at[d]
    BY <1>0, <1>2, GotoEffect
  <2>2. Shape' /\ \A d \in Call \ {c} : Same(d)
    BY <1>0, <1>2, <2>1 DEF Shape, Same
  <2>3. ScopeInv(c)'
    BY <1>0, <2>1 DEF CallInv, ScopeInv, scopes, Inspecting, Op
  <2>8. ReadInv(c)'
    BY <1>0, <2>1 DEF CallInv, ReadInv, scopes, Inspecting, Op, HasToolkit, Ended
  <2> USE DEF Live, Ended, HasToolkit, Op, Inspecting, host
  <2>4. PlaceInv(c)' /\ ResultInv(c)'
    BY <1>0, <2>1 DEF CallInv, PlaceInv, ResultInv
  <2>5. PassedInv(c)'
    BY <1>0, <2>1 DEF CallInv, PassedInv, toolkitDiscoveryRequest
  <2>6. KnownInv(c)'
    BY <1>0, <2>1 DEF CallInv, KnownInv
  <2>7. FoundInv(c)'
    BY <1>0, <2>1, FoundFrame DEF CallInv
  <2>9. at'[c] # "done"
    BY <2>1
  <2> QED
    BY <1>0, <2>2, <2>3, <2>4, <2>5, <2>6, <2>7, <2>8, <2>9, ObserveStep DEF CallInv
<1> QED
  BY <1>1, <1>2 DEF ApplyCheck

\* Apply writes to the store.
LEMMA RecordAppliedStep ==
  ASSUME IInv, NEW c \in Call, RecordApplied(c), UNCHANGED <<state, changes>>
  PROVE  IInv'
<1> DEFINE p == req[c].profile
<1>0. /\ Shape /\ CallInv(c) /\ at[c] = "record" /\ Op(c) = "apply"
      /\ UNCHANGED <<req, inventories, left, known, steady, torn, state, changes>>
  BY DEF IInv, CallInv, PlaceInv, Live, RecordApplied
<1>1. CASE Return(c, Error("apply_failed")) /\ UNCHANGED store
  <2>1. Error("apply_failed").err # "nil"
    BY DEF Error
  <2> QED
    BY <1>0, <1>1, <2>1, GiveUpStep
<1>2. CASE store' = [store EXCEPT ![p] = Digest(c)] /\ Success(c, FALSE)
  <2>1. /\ p \in DOMAIN store /\ Digest(c).err = "nil"
        /\ Digest(c).contract.device.d.uuid = Profile[p].uuid
    BY <1>0, ContractOf
  <2>2. /\ DOMAIN store' = DOMAIN store /\ store'[p] = Digest(c)
        /\ \A x \in DOMAIN store \ {p} : store'[x] = store[x]
    BY <1>2, <2>1
  <2>3. /\ Shape' /\ CallInv(c)' /\ \A d \in Call \ {c} : Same(d)
        /\ at'[c] = "done" /\ result'[c].err = "nil" /\ result'[c].contract = Digest(c).contract
    BY <1>0, <1>2, <2>2, SuccessEffect
  <2>4. ASSUME NEW x \in DOMAIN store'
        PROVE  /\ store'[x].err \in {"no entry", "no store", "nil"}
               /\ store[x].err = "nil" => store'[x].err = "nil"
    BY <2>1, <2>2 DEF IInv, TypeOK
  <2>5. ASSUME NEW x \in DOMAIN store', store'[x].err = "nil"
        PROVE  /\ store'[x].contract.device.d.uuid = Profile[x].uuid
               /\ \E d \in Call : Succeeded(d, "apply")' /\ store'[x].contract = result'[d].contract
    <3>1. CASE x = p
      BY <1>0, <2>1, <2>2, <2>3, <3>1 DEF Succeeded, Returned, Op
    <3>2. CASE x # p
      <4>1. /\ store'[x] = store[x] /\ store[x].contract.device.d.uuid = Profile[x].uuid
            /\ \E d \in Call : Succeeded(d, "apply") /\ store[x].contract = result[d].contract
        BY <2>2, <2>5, <3>2 DEF IInv, StoreIsOneContract
      <4>2. PICK d \in Call : Succeeded(d, "apply") /\ store[x].contract = result[d].contract
        BY <4>1
      <4>3. d # c
        BY <1>0, <4>2 DEF Succeeded, Returned
      <4>4. Succeeded(d, "apply")' /\ result'[d] = result[d]
        BY <1>0, <2>3, <4>2, <4>3 DEF Succeeded, Returned, Same, Op
      <4> QED
        BY <4>1, <4>2, <4>4
    <3> QED
      BY <3>1, <3>2
  <2>6. StoreIsOneContract'
    BY <2>5 DEF StoreIsOneContract
  <2>7. Verified(c)'
    BY <1>0 DEF Verified, Succeeded, Returned, Op
  <2> QED
    BY <1>0, <2>2, <2>3, <2>4, <2>6, <2>7, CallStep
<1> QED
  BY <1>1, <1>2 DEF RecordApplied

\* Verify: what it finds in the store some Apply has put there.
LEMMA VerifyStep ==
  ASSUME IInv, NEW c \in Call, Verify(c), UNCHANGED <<state, changes>>
  PROVE  IInv'
<1> DEFINE p == req[c].profile
<1>0. /\ at[c] = "state"
      /\ UNCHANGED <<req, inventories, left, known, steady, torn, state, changes, store>>
  BY DEF Verify
<1>1. \/ \E code \in {"environment_not_applied", "environment_drift"} : Return(c, Error(code))
      \/ store[p] = Digest(c) /\ Success(c, FALSE)
  BY DEF Verify
<1>2. ASSUME NEW code \in {"environment_not_applied", "environment_drift"}, Return(c, Error(code))
      PROVE  IInv'
  <2>1. Error(code).err # "nil"
    BY DEF Error
  <2> QED
    BY <1>0, <1>2, <2>1, GiveUpStep
<1>3. CASE store[p] = Digest(c) /\ Success(c, FALSE)
  <2>1. p \in DOMAIN store /\ Digest(c).err = "nil"
    BY <1>0, ContractOf
  <2>2. /\ Shape' /\ CallInv(c)' /\ \A d \in Call \ {c} : Same(d)
        /\ result'[c].contract = Digest(c).contract
    BY <1>0, <1>3, SuccessEffect
  <2>3. PICK d \in Call : Succeeded(d, "apply") /\ store[p].contract = result[d].contract
    BY <1>3, <2>1 DEF IInv, StoreIsOneContract
  <2>4. Succeeded(d, "apply")' /\ result'[d].contract = result'[c].contract
    <3>1. d # c
      BY <1>0, <2>3 DEF Succeeded, Returned
    <3> QED
      BY <1>0, <1>3, <2>2, <2>3, <3>1 DEF Succeeded, Returned, Same, Op
  <2>5. Verified(c)'
    BY <1>0, <1>3, <2>1, <2>4 DEF Verified
  <2> QED
    BY <1>0, <2>2, <2>5, KeepStoreStep
<1> QED
  BY <1>1, <1>2, <1>3

-----------------------------------------------------------------------------
(***************************************************************************)
(* Every step.                                                             *)
(***************************************************************************)

\* Somebody changes the host: nothing that is claimed of a host that held still is
\* claimed any more, nor of an inventory between its two commands.
LEMMA ChangeHostStep ==
  ASSUME IInv, ChangeHost
  PROVE  IInv'
<1>0. /\ TypeOK /\ Shape /\ StoreIsOneContract /\ \A c \in Call : CallInv(c) /\ Verified(c)
      /\ UNCHANGED <<store, req, at, inventories, left, known, result>>
      /\ steady' = [c \in Call |-> FALSE]
      /\ torn' = [c \in Call |-> torn[c] \/ at[c] = "ceiling"]
  BY DEF IInv, ChangeHost
<1>1. state' \in DOMAIN Hosts /\ changes' \in 0 .. MaxChanges
  <2>1. /\ state' \in DOMAIN Hosts /\ changes \in 0 .. MaxChanges
        /\ changes < MaxChanges /\ changes' = changes + 1
    BY <1>0 DEF ChangeHost, TypeOK
  <2>2. changes + 1 \in 0 .. MaxChanges
    BY <2>1, BoundAssumption
  <2> QED
    BY <2>1, <2>2
<1>2. steady' \in [Call -> BOOLEAN] /\ \A c \in Call : steady'[c] = FALSE
  BY <1>0
<1>5. torn' \in [Call -> BOOLEAN] /\ \A c \in Call : ~torn'[c] => ~torn[c] /\ at[c] # "ceiling"
  BY <1>0 DEF Shape
<1>3. TypeOK' /\ Shape' /\ StoreIsOneContract'
  BY <1>0, <1>1, <1>2, <1>5
     DEF TypeOK, Shape, StoreIsOneContract, Succeeded, Returned, Op, scopes, Inspecting
<1>4. ASSUME NEW c \in Call PROVE CallInv(c)' /\ Verified(c)'
  <2>0. CallInv(c) /\ ~steady'[c]
    BY <1>0, <1>2
  <2> USE DEF Live, Ended, HasToolkit, Op, Inspecting
  <2>1. PlaceInv(c)'
    BY <1>0, <2>0 DEF CallInv, PlaceInv
  <2>2. ScopeInv(c)'
    BY <1>0, <2>0 DEF CallInv, ScopeInv, scopes
  <2>3. PassedInv(c)' /\ KnownInv(c)'
    BY <1>0, <2>0 DEF CallInv, PassedInv, KnownInv
  <2>4. FoundInv(c)'
    <3>1. FoundInv(c)
      BY <2>0 DEF CallInv
    <3> QED
      BY <1>0, <2>0, <3>1 DEF FoundInv, Configured, Given
  <2>5. ResultInv(c)'
    BY <1>0, <2>0 DEF CallInv, ResultInv
  <2>6. ReadInv(c)'
    BY <1>0, <1>5, <2>0 DEF CallInv, ReadInv, scopes
  <2>7. Verified(c)'
    BY <1>0 DEF Verified, Succeeded, Returned
  <2> QED
    BY <2>1, <2>2, <2>3, <2>4, <2>5, <2>6, <2>7 DEF CallInv
<1> QED
  BY <1>3, <1>4 DEF IInv

\* A call makes a step.
LEMMA StepInv ==
  ASSUME IInv, NEW c \in Call, Step(c)
  PROVE  IInv'
<1>0. UNCHANGED <<state, changes>>
  BY DEF Step
<1>1. CASE Observe(c)
  <2>0. UNCHANGED <<state, changes, store>>
    BY <1>0, <1>1 DEF Observe
  <2>1. CASE Begin(c)
    BY <2>0, <2>1, BeginStep
  <2>2. CASE PodmanInfo(c)
    BY <2>0, <2>2, PodmanInfoStep
  <2>3. CASE QueryRows(c)
    BY <2>0, <2>3, QueryRowsStep
  <2>4. CASE runInventory(c)
    BY <2>0, <2>4, InventoryStep
  <2>5. CASE FindDevice(c)
    BY <2>0, <2>5, FindDeviceStep
  <2>6. CASE Resolve(c)
    BY <2>0, <2>6, ResolveStep
  <2>7. CASE InspectWSL(c)
    BY <2>0, <2>7, InspectWSLStep
  <2>8. CASE ListCDI(c)
    BY <2>0, <2>8, ListCDIStep
  <2> QED
    BY <1>1, <2>1, <2>2, <2>3, <2>4, <2>5, <2>6, <2>7, <2>8 DEF Observe
<1>2. CASE Plan(c)
  BY <1>0, <1>2, PlanStep
<1>3. CASE ApplyCheck(c)
  BY <1>0, <1>3, ApplyCheckStep
<1>4. CASE RecordApplied(c)
  BY <1>0, <1>4, RecordAppliedStep
<1>5. CASE Verify(c)
  BY <1>0, <1>5, VerifyStep
<1> QED
  BY <1>1, <1>2, <1>3, <1>4, <1>5 DEF Step

\* Nobody has called.
LEMMA InitInv ==
  ASSUME Init PROVE IInv
<1>0. DOMAIN store = DOMAIN Profile /\ \A p \in DOMAIN store : store[p].err \in {"no entry", "no store"}
  <2>1. PICK blank \in {"no entry", "no store"} : store = [p \in DOMAIN Profile |-> Error(blank)]
    BY DEF Init
  <2> QED
    BY <2>1 DEF Error
<1>1. Shape
  BY <1>0 DEF Init, Shape, Label
<1>2. ASSUME NEW c \in Call PROVE CallInv(c) /\ Verified(c) /\ Len(inventories[c]) <= Len(scopes(c))
  <2>1. at[c] = "idle" /\ inventories[c] = <<>> /\ known[c] = Nothing
    BY DEF Init
  <2>2. ScopeInv(c)
    <3>1. <<>> \in Seq({}) /\ Len(<<>>) = 0 /\ DOMAIN <<>> = {}
      OBVIOUS
    <3>2. Len(scopes(c)) \in Nat
      BY <1>1, ScopesFacts
    <3>3. inventories[c] \in Seq({}) /\ Len(inventories[c]) = 0 /\ DOMAIN inventories[c] = {}
      BY <2>1, <3>1
    <3>4. Len(inventories[c]) <= Len(scopes(c))
      BY <3>2, <3>3
    <3> QED
      BY <2>1, <3>3, <3>4 DEF ScopeInv
  <2>3. KnownInv(c)
    BY <2>1 DEF KnownInv, Nothing, HasToolkit, Ended
  <2>4. ReadInv(c)
    <3>1. DOMAIN inventories[c] = {}
      BY <2>1
    <3> QED
      BY <2>1, <3>1 DEF ReadInv, HasToolkit, Ended
  <2>5. Verified(c)
    BY <2>1 DEF Verified, Succeeded, Returned
  <2> QED
    BY <2>1, <2>2, <2>3, <2>4, <2>5
       DEF CallInv, ScopeInv, PlaceInv, PassedInv, FoundInv, ResultInv, Live, HasToolkit, Ended
<1>5. TypeOK
  <2>1. 0 \in 0 .. MaxChanges
    BY BoundAssumption
  <2>2. state \in DOMAIN Hosts /\ changes \in 0 .. MaxChanges
    BY <2>1 DEF Init
  <2> QED
    BY <1>0, <1>1, <1>2, <2>2 DEF TypeOK, Shape, Label
<1>6. StoreIsOneContract
  BY <1>0 DEF StoreIsOneContract
<1> QED
  BY <1>1, <1>2, <1>5, <1>6 DEF IInv

\* What each label promises holds throughout.
THEOREM EnvironmentInvariant == Spec => []IInv
<1>1. Init => IInv
  BY InitInv
<1>2. IInv /\ [Next]_vars => IInv'
  <2> SUFFICES ASSUME IInv, [Next]_vars PROVE IInv'
    OBVIOUS
  <2>1. CASE ChangeHost
    BY <2>1, ChangeHostStep
  <2>2. CASE \E c \in Call : Step(c)
    BY <2>2, StepInv
  <2>3. CASE UNCHANGED vars
    <3>1. /\ UNCHANGED <<state, changes, store, req>> /\ Shape'
          /\ \A d \in Call : Same(d)
      BY <2>3 DEF vars, calls, Same, Shape, IInv
    <3>2. \A d \in Call : CallInv(d)'
      BY <3>1, CallFrame DEF IInv
    <3>3. TypeOK' /\ StoreIsOneContract'
      BY <2>3 DEF vars, calls, IInv, TypeOK, StoreIsOneContract, Succeeded, Returned, Op,
                  scopes, Inspecting
    <3>4. \A d \in Call : Verified(d)'
      BY <2>3 DEF vars, calls, IInv, Verified, Succeeded, Returned, Op
    <3> QED
      BY <3>1, <3>2, <3>3, <3>4 DEF IInv
  <2> QED
    BY <2>1, <2>2, <2>3 DEF Next
<1> QED
  BY <1>1, <1>2, PTL DEF Spec

\* What a contract says is what the call was asked and has learnt.
LEMMA ContractParts ==
  ASSUME NEW r, NEW k
  PROVE  LET j == CanonicalJSON(r, k)
         IN  /\ j.profile = r.profile /\ j.device = k.device
             /\ j.wsl.distribution = r.distribution /\ j.wsl.kernel = k.kernel
             /\ j.toolkit.version = k.toolkit.version /\ j.toolkit.root = k.toolkit.root
  BY DEF CanonicalJSON

\* What is known of a call of the provider that has succeeded.
LEMMA ContractedKnown ==
  ASSUME IInv, NEW c \in Call, Contracted(c)
  PROVE  /\ PlaceInv(c) /\ PassedInv(c) /\ KnownInv(c) /\ ReadInv(c) /\ FoundInv(c) /\ ResultInv(c)
         /\ Live(c) /\ Ended(c) /\ HasToolkit(c) /\ ~Inspecting(c)
         /\ result[c].contract.profile = req[c].profile
         /\ result[c].contract.device = known[c].device
         /\ result[c].contract.wsl.distribution = req[c].distribution
         /\ result[c].contract.wsl.kernel = known[c].kernel
         /\ result[c].contract.toolkit.version = known[c].toolkit.version
         /\ result[c].contract.toolkit.root = known[c].toolkit.root
<1>1. PlaceInv(c) /\ PassedInv(c) /\ KnownInv(c) /\ ReadInv(c) /\ FoundInv(c) /\ ResultInv(c)
  BY DEF IInv, CallInv
<1>2. Live(c) /\ Ended(c) /\ HasToolkit(c) /\ ~Inspecting(c)
  BY DEF Contracted, Live, Ended, HasToolkit, Inspecting, Op
<1>3. result[c].contract = CanonicalJSON(req[c], known[c])
  BY <1>1, <1>2 DEF ResultInv
<1> QED
  BY <1>1, <1>2, <1>3, ContractParts

\* StoreInv: however Applies, Verifies and changes to the host interleave, the store
\* holds for each profile one contract that an Apply for it has returned, and Verify
\* succeeds only if an Apply for the same profile and distribution has returned the
\* same contract and, if the host has held still, the host is in that state.
THEOREM StoreCorrect == Spec => []StoreInv
<1>1. IInv => StoreInv
  <2> SUFFICES ASSUME IInv PROVE StoreInv
    OBVIOUS
  <2>1. ASSUME NEW c \in Call, Succeeded(c, "verify")
        PROVE  LET k == result[c].contract
               IN  /\ store[req[c].profile].err = "nil"
                   /\ \E d \in Call : /\ Succeeded(d, "apply") /\ result[d].contract = k
                                     /\ req[d].profile = req[c].profile
                                     /\ req[d].distribution = req[c].distribution
                   /\ steady[c] =>
                         /\ host.nvcc[""][k.toolkit.root] = k.toolkit.version
                         /\ req[c].distribution # "" => k.wsl.kernel = host.kernel[req[c].distribution]
    <3>1. Contracted(c)
      BY <2>1 DEF Succeeded, Returned, Contracted
    <3>2. /\ store[req[c].profile].err = "nil"
          /\ \E d \in Call : Succeeded(d, "apply") /\ result[d].contract = result[c].contract
      BY <2>1 DEF IInv, Verified
    <3>3. PICK d \in Call : Succeeded(d, "apply") /\ result[d].contract = result[c].contract
      BY <3>2
    <3>4. Contracted(d)
      BY <3>3 DEF Succeeded, Returned, Contracted
    <3>5. req[d].profile = req[c].profile /\ req[d].distribution = req[c].distribution
      BY <3>1, <3>3, <3>4, ContractedKnown
    <3>6. ASSUME steady[c]
          PROVE  /\ host.nvcc[""][result[c].contract.toolkit.root] = result[c].contract.toolkit.version
                 /\ req[c].distribution # ""
                       => result[c].contract.wsl.kernel = host.kernel[req[c].distribution]
      BY <3>1, <3>6, ContractedKnown DEF FoundInv, KnownInv
    <3> QED
      BY <3>2, <3>3, <3>5, <3>6
  <2>2. VerifyFailsClosed
    BY <2>1 DEF VerifyFailsClosed
  <2> QED
    BY <2>2 DEF IInv, StoreInv
<1> QED
  BY <1>1, EnvironmentInvariant, PTL

\* ToolkitInv: the inspector's root, or else the request's, is used or nothing is; an
\* inspection for a WSL distribution takes its devices from that distribution and its
\* toolkit from no place that the daemon's environment names; of two installations
\* none is chosen; and a second choice is made only if the search for the first fails.
THEOREM ToolkitCorrect == Spec => []ToolkitInv
<1>1. IInv => ToolkitInv
  <2> SUFFICES ASSUME IInv PROVE ToolkitInv
    OBVIOUS
  <2>0. ASSUME NEW c \in Call, Succeeded(c, "inspect")
        PROVE  /\ Ended(c) /\ HasToolkit(c) /\ Inspecting(c) /\ FoundInv(c) /\ ResultInv(c)
               /\ result[c].toolkit = known[c].toolkit
    <3>1. Ended(c) /\ HasToolkit(c) /\ Inspecting(c) /\ FoundInv(c) /\ ResultInv(c)
      BY <2>0 DEF Succeeded, Returned, Ended, HasToolkit, Inspecting, Op, IInv, CallInv
    <3> QED
      BY <3>1 DEF ResultInv
  <2>1. ConfiguredRootUsed
    <3>1. ASSUME NEW c \in Call, Contracted(c), Configured(c) # ""
          PROVE  result[c].contract.toolkit.root = Configured(c)
      BY <3>1, ContractedKnown DEF FoundInv
    <3>2. ASSUME NEW c \in Call, Succeeded(c, "inspect"), ~req[c].compiled, req[c].own # ""
          PROVE  result[c].toolkit.root = req[c].own
      BY <2>0, <3>2 DEF FoundInv, Configured
    <3> QED
      BY <3>1, <3>2 DEF ConfiguredRootUsed, Configured, Contracted, Inspecting
  <2>2. WSLStaysInWSL
    <3>1. ASSUME NEW c \in Call, Succeeded(c, "inspect"), req[c].distribution # ""
          PROVE  /\ result[c].scope = req[c].distribution
                 /\ ~req[c].compiled =>
                       \E h \in Range(Hosts) :
                          (steady[c] => h = host) /\ Given(c, h, result[c].toolkit)
      BY <2>0, <3>1 DEF FoundInv, ResultInv
    <3> QED
      BY <3>1 DEF WSLStaysInWSL, Given
  <2>3. NoArbitraryChoice
    <3>1. ASSUME NEW c \in Call, at[c] = "done", steady[c], result[c].err = "nil",
                 known[c].toolkit.group = 4
          PROVE  OnlyChoice(c, known[c].toolkit)
      <4>1. FoundInv(c) /\ HasToolkit(c)
        BY <3>1 DEF IInv, CallInv, HasToolkit, Ended
      <4> QED
        BY <3>1, <4>1 DEF FoundInv
    <3>2. ASSUME NEW c \in Call, OnlyChoice(c, known[c].toolkit)
          PROVE  LET t == known[c].toolkit
                     q == toolkitDiscoveryRequest(c, t.version)
                 IN  {r \in standardRoots(q, host) : inspectToolkitCandidate(q, host, r) = t.version} = {t.root}
      <4> DEFINE t == known[c].toolkit
                 q == toolkitDiscoveryRequest(c, t.version)
      <4>1. q.version = t.version
        BY DEF toolkitDiscoveryRequest
      <4>2. OnlyInstalled(q, host, t.root)
        BY <3>2 DEF OnlyChoice
      <4> HIDE DEF t, q
      <4>3. {r \in standardRoots(q, host) : inspectToolkitCandidate(q, host, r) = t.version} = {t.root}
        BY <4>1, <4>2 DEF OnlyInstalled
      <4> QED
        BY <4>3 DEF t, q
    <3> QED
      BY <3>1, <3>2 DEF NoArbitraryChoice
  <2>4. SecondChoiceLast
    <3>1. ASSUME NEW c \in Call, Contracted(c), steady[c],
                 result[c].contract.toolkit.version # Profile[result[c].contract.profile].toolkits[1]
          PROVE  resolveToolkit(toolkitDiscoveryRequest(c, Profile[result[c].contract.profile].toolkits[1]), host).err # "nil"
      <4> DEFINE p == req[c].profile
      <4>1. /\ PlaceInv(c) /\ PassedInv(c) /\ FoundInv(c) /\ Live(c) /\ HasToolkit(c) /\ ~Inspecting(c)
            /\ result[c].contract.profile = p
            /\ result[c].contract.toolkit.version = known[c].toolkit.version
        BY <3>1, ContractedKnown
      <4>2. p \in DOMAIN Profile /\ left[c] \in StillToTry(p) /\ known[c].toolkit.version = left[c][1]
        BY <4>1 DEF PlaceInv, FoundInv
      <4>3. left[c] = Profile[p].toolkits => left[c][1] = Profile[p].toolkits[1]
        OBVIOUS
      <4>4. left[c] # Profile[p].toolkits
        BY <3>1, <4>1, <4>2, <4>3
      <4>5. resolveToolkit(toolkitDiscoveryRequest(c, Profile[p].toolkits[1]), host).err # "nil"
        BY <3>1, <4>1, <4>4 DEF PassedInv
      <4> QED
        BY <4>1, <4>5
    <3> QED
      BY <3>1 DEF SecondChoiceLast
  <2> QED
    BY <2>1, <2>2, <2>3, <2>4 DEF ToolkitInv
<1> QED
  BY <1>1, EnvironmentInvariant, PTL

\* DeviceInv: devices are merged by UUID whatever the order of the scopes; and unless
\* the driver was changed between the two commands that read it and its ceiling, a host
\* has shown the profile's GPU with the driver that the contract names and with a
\* ceiling that is not below the contract's toolkit.
THEOREM DeviceCorrect == Spec => []DeviceInv
<1>1. IInv => DeviceInv
  <2> SUFFICES ASSUME IInv PROVE DeviceInv
    OBVIOUS
  <2>1. ReconcileByUUID
    <3>1. ASSUME NEW c \in Call, Len(inventories[c]) = 2
          PROVE  DOMAIN inventories[c] = 1 .. 2
      <4>1. PICK S : inventories[c] \in Seq(S)
        BY DEF IInv, CallInv, ScopeInv
      <4>2. DOMAIN inventories[c] = 1 .. Len(inventories[c])
        BY <4>1, SequenceDomain
      <4> QED
        BY <3>1, <4>2
    <3>2. ASSUME NEW c \in Call, Len(inventories[c]) = 2
          PROVE  LET one == Reconcile(inventories[c])
                     two == Reconcile(<<inventories[c][2], inventories[c][1]>>)
                 IN  /\ one.err = two.err
                     /\ one.err = "nil" =>
                           /\ Identities(one) = Identities(two)
                           /\ {d.d.uuid : d \in one.devices}
                                 = UNION {{d.uuid : d \in inventories[c][i].devices} : i \in 1 .. 2}
      <4>1. DOMAIN inventories[c] = 1 .. 2
        BY <3>1, <3>2
      <4> QED
        BY <4>1, ReconcileSwaps
    <3> QED
      BY <3>2 DEF ReconcileByUUID, Identities
  <2>2. ContractCompatible
    <3>1. ASSUME NEW c \in Call, Contracted(c)
          PROVE  LET k == result[c].contract
                 IN  /\ k.toolkit.version \in Range(Profile[k.profile].toolkits)
                     /\ ~torn[c] =>
                           \E h \in Range(Hosts), s \in Range(scopes(c)) :
                              /\ ~Below(h.ceiling[s], parseMajorMinor[k.toolkit.version])
                              /\ \E i \in DOMAIN h.rows[s] :
                                    /\ h.rows[s][i].uuid = Profile[k.profile].uuid
                                    /\ h.rows[s][i].driver = k.device.d.driver
      <4> DEFINE p == req[c].profile
                 d == known[c].device.d
                 v == known[c].toolkit.version
      <4>1. /\ PlaceInv(c) /\ KnownInv(c) /\ ReadInv(c) /\ FoundInv(c)
            /\ Live(c) /\ HasToolkit(c) /\ ~Inspecting(c)
            /\ result[c].contract.profile = p
            /\ result[c].contract.device = known[c].device
            /\ result[c].contract.toolkit.version = v
        BY <3>1, ContractedKnown
      <4>2. /\ p \in DOMAIN Profile /\ left[c] \in StillToTry(p) /\ v = left[c][1]
            /\ ValidateCompatibility(d, v) /\ d.uuid = Profile[p].uuid
        BY <4>1 DEF PlaceInv, FoundInv, KnownInv
      <4>3. left[c][1] \in Range(Profile[p].toolkits)
        BY <4>2, StillToTryFacts
      <4>4. ~Below(d.ceiling, parseMajorMinor[v])
        BY <4>2 DEF ValidateCompatibility
      <4>5. ASSUME ~torn[c]
            PROVE  \E h \in Range(Hosts), s \in Range(scopes(c)) :
                      /\ ~Below(h.ceiling[s], parseMajorMinor[v])
                      /\ \E i \in DOMAIN h.rows[s] :
                            h.rows[s][i].uuid = Profile[p].uuid /\ h.rows[s][i].driver = d.driver
        <5>1. PICK s \in Range(scopes(c)) : ShownIn(d, s)
          BY <4>1, <4>5 DEF ReadInv
        <5>2. PICK h \in Range(Hosts) :
                 /\ d.ceiling = h.ceiling[s]
                 /\ \E i \in DOMAIN h.rows[s] :
                       h.rows[s][i].uuid = d.uuid /\ h.rows[s][i].driver = d.driver
          BY <5>1 DEF ShownIn
        <5>3. ~Below(h.ceiling[s], parseMajorMinor[v])
          BY <4>4, <5>2
        <5> QED
          BY <4>2, <5>1, <5>2, <5>3
      <4> QED
        BY <4>1, <4>2, <4>3, <4>5
    <3> QED
      BY <3>1 DEF ContractCompatible
  <2> QED
    BY <2>1, <2>2 DEF DeviceInv
<1> QED
  BY <1>1, EnvironmentInvariant, PTL
=============================================================================
