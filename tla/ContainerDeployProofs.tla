------------------------ MODULE ContainerDeployProofs ------------------------
(***************************************************************************)
(* Deployments, the run's roll-back and List, for any jobs, configurations   *)
(* and plans, and any number of attempts and meddlers.                       *)
(***************************************************************************)
EXTENDS ContainerDeploy, FiniteSetTheorems, TLAPS

(***************************************************************************)
(* The inductive invariant.  A container carries its owner, which nobody can *)
(* ask for: a Deploy knows its container by id, or by a name that was free   *)
(* when the container was made, and Execute by its list.                    *)
(***************************************************************************)

\* Containers are records; no two have one name; some request is the first.
BoxInv ==
    /\ next \in Nat /\ next >= 1
    /\ attempt \in Nat /\ attempt >= 1
    /\ \A b \in DOMAIN boxes :
          boxes[b] = [name |-> boxes[b].name, owner |-> boxes[b].owner, state |-> boxes[b].state]
    /\ \A b, c \in DOMAIN boxes : boxes[b].name = boxes[c].name => b = c

\* A run is only made with podman, whose create command prints the id or fails.
CastInv ==
    /\ "run" \in cast => kind = "podman"
    /\ phase # "idle" => "run" \in cast
    /\ shape \in {"status", "state", "object"}
    /\ plan \in Seq(Range(plan))

\* The labels at which Create has succeeded.
Known == {"check", "start", "verify", "cleanup", "refresh", "done"}

\* What a Deploy owns is what it knows.
OwnInv(j) ==
    \A b \in DOMAIN boxes : boxes[b].owner = <<j, 1>> =>
        /\ boxes[b].name = cfg[j].name
        /\ pc[j] # "idle"
        /\ pc[j] = "inspect" /\ ref[j] # 0 => b = ref[j]
        /\ pc[j] \in Known /\ mine[j] # 0 => b = mine[j]
        /\ pc[j] = "failed" => fault[j] # {}

\* What a Deploy owns, and what it knows by id, has been started.
Started(j) ==
    \A b \in DOMAIN boxes : boxes[b].owner = <<j, 1>> \/ b = mine[j] => boxes[b].state # "created"

\* What a Deploy knows by id it owns.
KnownInv(j) ==
    /\ pc[j] = "idle" => fault[j] = {}
    /\ pc[j] = "inspect" /\ ref[j] # 0 /\ ref[j] \in DOMAIN boxes => boxes[ref[j]].owner = <<j, 1>>
    /\ pc[j] \in Known /\ ref[j] # 0 /\ mine[j] \in DOMAIN boxes => boxes[mine[j]].owner = <<j, 1>>
    /\ kind = "podman" /\ (pc[j] = "inspect" \/ pc[j] \in Known) => ref[j] # 0
    /\ kind = "podman" /\ pc[j] \in Known => mine[j] # 0
    /\ pc[j] \in {"verify", "refresh", "done"} => Started(j)

\* What the run owns is in its list, but for one whose id it never learnt.
RunInv ==
    /\ created \in Seq(1 .. next - 1)
    /\ \A i \in DOMAIN created : created[i] \in DOMAIN boxes => boxes[created[i]].owner = Self
    /\ \A b, c \in DOMAIN boxes :
          /\ boxes[b].owner = Self /\ b \notin Range(created)
          /\ boxes[c].owner = Self /\ c \notin Range(created)
          => b = c /\ "blind" \in fault["run"]
    /\ phase = "idle" => created = <<>> /\ \A b \in DOMAIN boxes : boxes[b].owner # Self
    /\ phase \in {"idle", "spawn", "ok"} => fault["run"] = {}

\* The roll-back goes through the list from its end.
RollbackInv ==
    /\ phase = "rollback" => at \in 0 .. Len(created)
    /\ phase \in {"rollback", "failed"} /\ "refused" \notin fault["run"] =>
          \A i \in DOMAIN created :
             (phase = "failed" \/ at < i) /\ created[i] \in DOMAIN boxes
                => boxes[created[i]].state # "running"

\* The list goes with the create intents of the plan so far.
PlanInv ==
    phase \in {"spawn", "ok"} =>
        /\ at \in 1 .. Len(plan) + 1
        /\ phase = "ok" => at = Len(plan) + 1
        /\ \E turn \in [DOMAIN created -> 1 .. at - 1] :
              /\ \A i, k \in DOMAIN created : i < k => turn[i] < turn[k]
              /\ Range(turn) = {k \in 1 .. at - 1 : plan[k].phase = "create"}
              /\ \A i \in DOMAIN created : created[i] \in DOMAIN boxes =>
                    boxes[created[i]].name = plan[turn[i]].service

\* What a List has not inspected yet it still has to.
ListInv ==
    /\ listing = [at |-> listing.at, todo |-> listing.todo, got |-> listing.got, since |-> listing.since]
    /\ listing.at \in {"getting", "done"} =>
          /\ listing.since \in 1 .. next
          /\ \A b \in DOMAIN boxes : b < listing.since => b \in listing.todo \/ b \in listing.got
    /\ listing.at = "done" => listing.todo = {}

IInv ==
    /\ TypeOK /\ BoxInv /\ CastInv
    /\ \A j \in Job : OwnInv(j) /\ KnownInv(j)
    /\ RunInv /\ RollbackInv /\ PlanInv
    /\ ListInv

-----------------------------------------------------------------------------
(***************************************************************************)
(* What the engine's commands do to the containers.                        *)
(***************************************************************************)

\* A container that is still there is the one it was; only a start command makes
\* it run, and nothing makes it unstarted.
Survives(b) ==
    /\ b \in DOMAIN boxes
    /\ boxes'[b].name = boxes[b].name
    /\ boxes'[b].owner = boxes[b].owner
    /\ boxes'[b].state = "created" => boxes[b].state = "created"

\* The types of the containers, as a part of TypeOK.
BoxType ==
    /\ DOMAIN boxes \subseteq 1 .. next - 1
    /\ \A b \in DOMAIN boxes : /\ boxes[b].owner \in Actor \X (1 .. attempt)
                               /\ boxes[b].state \in {"created", "running", "exited"}

\* The types of what the Deploys know, as another.
Label == {"idle", "inspect", "check", "start", "verify", "cleanup", "refresh", "done", "failed"}

JobType ==
    /\ pc \in [Job -> Label]
    /\ ref \in [Job -> 0 .. next - 1] /\ mine \in [Job -> 0 .. next - 1]
    /\ reported \in [Job -> {"none", "pending", "running", "stopped"}]
    /\ fault \in [Actor -> SUBSET {"blind", "refused"}]

\* A new container has an id that none had before.
LEMMA AddBoxEffect ==
  ASSUME BoxType, BoxInv, attempt' = attempt, NEW name, NEW owner \in Actor \X (1 .. attempt),
         NEW state \in {"created", "running"}, Free(name), AddBox(name, owner, state)
  PROVE  /\ BoxType' /\ BoxInv'
         /\ next \notin DOMAIN boxes /\ next' = next + 1
         /\ DOMAIN boxes' = DOMAIN boxes \cup {next}
         /\ boxes'[next] = [name |-> name, owner |-> owner, state |-> state]
         /\ \A b \in DOMAIN boxes : boxes'[b] = boxes[b]
<1>1. next \notin DOMAIN boxes
  BY DEF BoxType, BoxInv
<1>2. /\ next' = next + 1
      /\ DOMAIN boxes' = DOMAIN boxes \cup {next}
      /\ boxes'[next] = [name |-> name, owner |-> owner, state |-> state]
      /\ \A b \in DOMAIN boxes : boxes'[b] = boxes[b]
  BY <1>1 DEF AddBox
<1>3. BoxType'
  BY <1>2 DEF BoxType, BoxInv, Actor
<1>4. BoxInv'
  BY <1>1, <1>2 DEF BoxInv, Free
<1> QED
  BY <1>1, <1>2, <1>3, <1>4

\* A stop or start command changes the state of one container.
LEMMA SetStateEffect ==
  ASSUME BoxType, BoxInv, UNCHANGED <<attempt, next>>, NEW b \in DOMAIN boxes,
         NEW state \in {"running", "exited"}, SetState(b, state)
  PROVE  /\ BoxType' /\ BoxInv'
         /\ DOMAIN boxes' = DOMAIN boxes
         /\ boxes'[b].state = state
         /\ \A c \in DOMAIN boxes : Survives(c) /\ (c # b => boxes'[c] = boxes[c])
<1>1. /\ DOMAIN boxes' = DOMAIN boxes
      /\ \A c \in DOMAIN boxes : c # b => boxes'[c] = boxes[c]
      /\ boxes'[b] = [boxes[b] EXCEPT !.state = state]
  BY DEF SetState
<1>2. boxes'[b] = [name |-> boxes[b].name, owner |-> boxes[b].owner, state |-> state]
  BY <1>1 DEF BoxInv
<1>3. BoxType'
  <2>1. boxes'[b].owner = boxes[b].owner /\ boxes'[b].state = state
    BY <1>2
  <2> QED
    BY <1>1, <2>1 DEF BoxType
<1>4. BoxInv'
  BY <1>1, <1>2 DEF BoxInv
<1>5. \A c \in DOMAIN boxes : Survives(c)
  BY <1>1, <1>2 DEF Survives
<1> QED
  BY <1>1, <1>2, <1>3, <1>4, <1>5

\* A delete command takes away what it is given, if it is there.
LEMMA RemoveEffect ==
  ASSUME BoxType, BoxInv, UNCHANGED <<attempt, next>>, NEW gone, Remove(gone)
  PROVE  /\ BoxType' /\ BoxInv'
         /\ DOMAIN boxes' = DOMAIN boxes \ gone
         /\ \A c \in DOMAIN boxes' : Survives(c) /\ boxes'[c] = boxes[c]
<1>1. DOMAIN boxes' = DOMAIN boxes \ gone /\ \A c \in DOMAIN boxes' : boxes'[c] = boxes[c]
  BY DEF Remove, Restrict
<1>2. BoxType'
  BY <1>1 DEF BoxType, Actor
<1>3. BoxInv'
  BY <1>1 DEF BoxInv
<1>4. \A c \in DOMAIN boxes' : Survives(c)
  BY <1>1 DEF Survives
<1> QED
  BY <1>1, <1>2, <1>3, <1>4

(***************************************************************************)
(* What the steps of others leave alone.                                   *)
(***************************************************************************)

\* A Deploy that does not move, beside containers that survive or are new.
LEMMA JobFrame ==
  ASSUME NEW j \in Job, OwnInv(j), KnownInv(j), next \in Nat, next' \in Nat, next' >= next,
         ref[j] \in 0 .. next - 1, mine[j] \in 0 .. next - 1, UNCHANGED <<cfg, kind>>,
         pc'[j] = pc[j], ref'[j] = ref[j], mine'[j] = mine[j], fault'[j] = fault[j],
         \A b \in DOMAIN boxes' : Survives(b) \/ (b = next /\ boxes'[b].owner # <<j, 1>>)
  PROVE  OwnInv(j)' /\ KnownInv(j)'
<1>1. OwnInv(j)'
  BY DEF OwnInv, Survives
<1>2. KnownInv(j)'
  BY DEF KnownInv, Started, Known, Survives
<1> QED
  BY <1>1, <1>2

\* The run, when it does not move and none of its own is started.
LEMMA RunFrame ==
  ASSUME RunInv, RollbackInv, PlanInv, next \in Nat, next' \in Nat, next' >= next,
         UNCHANGED <<run, plan>>, fault'["run"] = fault["run"],
         \A b \in DOMAIN boxes' :
            \/ /\ Survives(b)
               /\ boxes'[b].state = "running" => boxes[b].state = "running" \/ boxes[b].owner # Self
            \/ b = next /\ boxes'[b].owner # Self
  PROVE  RunInv' /\ RollbackInv' /\ PlanInv'
<1> USE DEF run, Self
<1>1. RunInv'
  <2>1. created \in Seq(1 .. next' - 1)
    BY DEF RunInv
  <2>2. \A i \in DOMAIN created : created[i] \in 1 .. next - 1
    BY DEF RunInv
  <2> QED
    BY <2>1, <2>2 DEF RunInv, Survives
<1>2. RollbackInv'
  <2>1. phase' = "rollback" => at' \in 0 .. Len(created')
    BY DEF RollbackInv
  <2>2. ASSUME phase \in {"rollback", "failed"}, "refused" \notin fault["run"], NEW i \in DOMAIN created,
               phase = "failed" \/ at < i, created[i] \in DOMAIN boxes'
        PROVE  boxes'[created[i]].state # "running"
    <3>1. created[i] \in 1 .. next - 1
      BY DEF RunInv
    <3>2. created[i] # next
      BY <3>1
    <3>3. Survives(created[i])
      BY <2>2, <3>2
    <3>4. boxes[created[i]].owner = Self /\ boxes[created[i]].state # "running"
      BY <2>2, <3>3 DEF RunInv, RollbackInv, Survives
    <3> QED
      BY <2>2, <3>2, <3>4
  <2> QED
    BY <2>1, <2>2 DEF RollbackInv
<1>3. PlanInv'
  <2>1. \A i \in DOMAIN created : created[i] \in 1 .. next - 1
    BY DEF RunInv
  <2> QED
    BY <2>1 DEF PlanInv, Survives
<1> QED
  BY <1>1, <1>2, <1>3

\* A List in progress.
LEMMA ListFrame ==
  ASSUME ListInv, next \in Nat, next' \in Nat, next' >= next, UNCHANGED listing,
         \A b \in DOMAIN boxes' : b \in DOMAIN boxes \/ b = next
  PROVE  ListInv'
  BY DEF ListInv

\* A step of Deploy preserves the invariant if it preserves its own part and
\* starts no container of the run.
LEMMA JobStep ==
  ASSUME IInv, NEW j \in Job, BoxType', BoxInv', next' >= next,
         JobType', OwnInv(j)', KnownInv(j)', Keep, UNCHANGED run,
         \A k \in Job \ {j} :
            pc'[k] = pc[k] /\ ref'[k] = ref[k] /\ mine'[k] = mine[k] /\ fault'[k] = fault[k],
         fault'["run"] = fault["run"],
         \A b \in DOMAIN boxes' :
            \/ /\ Survives(b)
               /\ boxes'[b].state = "running" => boxes[b].state = "running" \/ boxes[b].owner # Self
            \/ b = next /\ boxes'[b].owner = <<j, 1>>
  PROVE  IInv'
<1> USE ConstantsAssumption DEF IInv, Keep, fixed
<1>1. next \in Nat /\ next' \in Nat
  BY DEF BoxInv
<1>2. TypeOK'
  BY <1>1 DEF TypeOK, BoxType, JobType, Label, run
<1>3. CastInv'
  BY DEF CastInv, run
<1>4. ASSUME NEW k \in Job PROVE OwnInv(k)' /\ KnownInv(k)'
  <2>1. CASE k = j
    BY <2>1
  <2>2. CASE k # j
    <3>1. \A b \in DOMAIN boxes' : Survives(b) \/ (b = next /\ boxes'[b].owner # <<k, 1>>)
      BY <2>2
    <3> QED
      BY <1>1, <2>2, <3>1, JobFrame DEF TypeOK
  <2> QED
    BY <2>1, <2>2
<1>5. RunInv' /\ RollbackInv' /\ PlanInv'
  <2>1. <<j, 1>> # Self
    BY DEF Self
  <2> QED
    BY <1>1, <2>1, RunFrame
<1>6. ListInv'
  BY <1>1, ListFrame DEF Survives
<1> QED
  BY <1>2, <1>3, <1>4, <1>5, <1>6

\* The same for a step of Execute.
LEMMA RunStep ==
  ASSUME IInv, BoxType', BoxInv', next' >= next, CastInv', RunInv', RollbackInv', PlanInv', Keep,
         phase' \in {"idle", "spawn", "rollback", "ok", "failed"},
         fault' \in [Actor -> SUBSET {"blind", "refused"}],
         UNCHANGED deploys,
         \A j \in Job : fault'[j] = fault[j],
         \A b \in DOMAIN boxes' : Survives(b) \/ (b = next /\ boxes'[b].owner = Self)
  PROVE  IInv'
<1> USE ConstantsAssumption DEF IInv, Keep, fixed
<1>1. next \in Nat /\ next' \in Nat
  BY DEF BoxInv
<1>2. TypeOK'
  BY <1>1 DEF TypeOK, BoxType, RunInv, deploys, Range
<1>3. ASSUME NEW j \in Job PROVE OwnInv(j)' /\ KnownInv(j)'
  <2>1. \A b \in DOMAIN boxes' : Survives(b) \/ (b = next /\ boxes'[b].owner # <<j, 1>>)
    BY DEF Self
  <2> QED
    BY <1>1, <2>1, JobFrame DEF TypeOK, deploys
<1>4. ListInv'
  BY <1>1, ListFrame DEF Survives
<1> QED
  BY <1>2, <1>3, <1>4

-----------------------------------------------------------------------------
(***************************************************************************)
(* Deploy.                                                                 *)
(***************************************************************************)

\* A label of Deploy, and a fault added to what it could not know or undo.
LEMMA ToEffect ==
  ASSUME TypeOK, NEW j \in Job, NEW q, To(j, q),
         q \in {"inspect", "check", "start", "verify", "cleanup", "refresh", "done", "failed"}
  PROVE  /\ pc' \in [Job -> Label]
         /\ pc'[j] = q
         /\ \A k \in Job \ {j} : pc'[k] = pc[k]
  BY DEF TypeOK, To, Label

LEMMA FailEffect ==
  ASSUME TypeOK, NEW j \in Job, NEW what \in SUBSET {"blind", "refused"}, Fail(j, what)
  PROVE  /\ pc' \in [Job -> Label]
         /\ pc'[j] = "failed"
         /\ \A k \in Job \ {j} : pc'[k] = pc[k]
         /\ fault' \in [Actor -> SUBSET {"blind", "refused"}]
         /\ fault'[j] = fault[j] \cup what
         /\ \A k \in Actor \ {j} : fault'[k] = fault[k]
<1>1. j \in Actor /\ fault[j] \cup what \in SUBSET {"blind", "refused"}
  BY DEF Actor, TypeOK
<1>2. /\ fault' \in [Actor -> SUBSET {"blind", "refused"}]
      /\ fault'[j] = fault[j] \cup what
      /\ \A k \in Actor \ {j} : fault'[k] = fault[k]
  BY <1>1 DEF Fail, TypeOK
<1> QED
  BY <1>2, ToEffect DEF Fail

\* Adapter.Create: the container is made, and its id learnt or not; or nothing is.
LEMMA CreateStep ==
  ASSUME IInv, NEW j \in Job, Create(j), Keep, UNCHANGED run
  PROVE  IInv'
<1> USE ConstantsAssumption
<1>0. /\ TypeOK /\ BoxInv /\ BoxType /\ next \in Nat /\ next >= 1 /\ pc[j] = "idle"
      /\ UNCHANGED <<ctx, mine, reported, attempt, cfg, kind>>
      /\ OwnInv(j) /\ KnownInv(j)
  BY DEF IInv, TypeOK, BoxType, BoxInv, Create, run, Keep, fixed
<1>1. ASSUME Free(cfg[j].name), AddBox(cfg[j].name, <<j, 1>>, "created"), NEW out \in {"id", "nothing", "lost"},
             IF Identified(out)
             THEN /\ To(j, "inspect") /\ UNCHANGED fault
                  /\ ref' = [ref EXCEPT ![j] = IF out = "id" THEN next ELSE 0]
             ELSE Fail(j, {"blind"}) /\ UNCHANGED ref
      PROVE  IInv'
  <2>1. <<j, 1>> \in Actor \X (1 .. attempt)
    BY <1>0 DEF Actor, BoxInv
  <2>2. /\ BoxType' /\ BoxInv'
        /\ next \notin DOMAIN boxes /\ next' = next + 1
        /\ DOMAIN boxes' = DOMAIN boxes \cup {next}
        /\ boxes'[next] = [name |-> cfg[j].name, owner |-> <<j, 1>>, state |-> "created"]
        /\ \A b \in DOMAIN boxes : boxes'[b] = boxes[b]
    BY <1>0, <1>1, <2>1, AddBoxEffect
  <2>4. \A b \in DOMAIN boxes : boxes[b].owner # <<j, 1>>
    BY <1>0 DEF OwnInv
  <2>5. /\ boxes'[next].name = cfg[j].name /\ boxes'[next].owner = <<j, 1>> /\ boxes'[next].state = "created"
    BY <2>2
  <2>6. \A b \in DOMAIN boxes' :
            \/ /\ Survives(b)
               /\ boxes'[b].state = "running" => boxes[b].state = "running" \/ boxes[b].owner # Self
            \/ b = next /\ boxes'[b].owner = <<j, 1>>
    BY <2>2, <2>5 DEF Survives
  <2>7. CASE Identified(out)
    <3>1. /\ pc' \in [Job -> Label]
          /\ pc'[j] = "inspect"
          /\ \A k \in Job \ {j} : pc'[k] = pc[k]
      BY <1>0, <1>1, <2>7, ToEffect
    <3>2. /\ fault' = fault
          /\ ref' \in [Job -> 0 .. next' - 1]
          /\ ref'[j] \in {0, next} /\ (kind = "podman" => ref'[j] = next)
          /\ \A k \in Job \ {j} : ref'[k] = ref[k]
      <4> DEFINE v == IF out = "id" THEN next ELSE 0
      <4>1. /\ v \in {0, next} /\ v \in 0 .. next' - 1 /\ (kind = "podman" => v = next)
            /\ next - 1 <= next' - 1
        BY <1>0, <2>2, <2>7 DEF Identified
      <4>2. fault' = fault /\ ref' = [ref EXCEPT ![j] = v] /\ ref \in [Job -> 0 .. next' - 1]
        BY <1>0, <1>1, <2>2, <2>7, <4>1 DEF TypeOK
      <4> HIDE DEF v
      <4> QED
        BY <4>1, <4>2
    <3>3. JobType'
      BY <1>0, <2>2, <3>1, <3>2 DEF JobType, TypeOK
    <3>4. OwnInv(j)'
      BY <1>0, <2>2, <2>4, <2>5, <3>1, <3>2 DEF OwnInv, Known
    <3>5. KnownInv(j)'
      BY <1>0, <2>2, <2>5, <3>1, <3>2 DEF KnownInv, Known
    <3> QED
      BY <1>0, <2>2, <2>6, <3>1, <3>2, <3>3, <3>4, <3>5, JobStep
  <2>8. CASE ~Identified(out)
    <3>1. /\ pc' \in [Job -> Label]
          /\ pc'[j] = "failed"
          /\ \A k \in Job \ {j} : pc'[k] = pc[k]
          /\ fault' \in [Actor -> SUBSET {"blind", "refused"}]
          /\ fault'[j] = fault[j] \cup {"blind"}
          /\ \A k \in Actor \ {j} : fault'[k] = fault[k]
          /\ ref' = ref
      BY <1>0, <1>1, <2>8, FailEffect
    <3>2. OwnInv(j)'
      BY <1>0, <2>2, <2>4, <2>5, <3>1 DEF OwnInv, Known
    <3>3. KnownInv(j)'
      BY <1>0, <2>2, <3>1 DEF KnownInv, Known
    <3>4. JobType'
      BY <1>0, <2>2, <3>1 DEF JobType, TypeOK
    <3> QED
      BY <1>0, <2>2, <2>6, <3>1, <3>2, <3>3, <3>4, JobStep DEF Actor
  <2> QED
    BY <2>7, <2>8
<1>2. ASSUME Fail(j, {}), UNCHANGED <<boxes, next, ref>> PROVE IInv'
  <2>1. /\ pc' \in [Job -> Label]
        /\ pc'[j] = "failed"
        /\ \A k \in Job \ {j} : pc'[k] = pc[k]
        /\ fault' \in [Actor -> SUBSET {"blind", "refused"}]
        /\ fault'[j] = fault[j] \cup {}
        /\ \A k \in Actor \ {j} : fault'[k] = fault[k]
    BY <1>0, <1>2, FailEffect
  <2>2. BoxType' /\ BoxInv'
    BY <1>0, <1>2 DEF BoxType, BoxInv
  <2>3. OwnInv(j)' /\ KnownInv(j)'
    BY <1>0, <1>2, <2>1 DEF OwnInv, KnownInv, Known
  <2>4. \A b \in DOMAIN boxes' : Survives(b) /\ boxes'[b] = boxes[b]
    BY <1>2 DEF Survives
  <2>5. JobType'
    BY <1>0, <1>2, <2>1 DEF JobType, TypeOK
  <2> QED
    BY <1>0, <1>2, <2>1, <2>2, <2>3, <2>4, <2>5, JobStep DEF Actor
<1> QED
  BY <1>1, <1>2 DEF Create

\* A step of Deploy that leaves the engine as it is and learns nothing new.
LEMMA QuietJobStep ==
  ASSUME IInv, NEW j \in Job, Keep, UNCHANGED <<run, boxes, next>>, JobType', KnownInv(j)', OwnInv(j)',
         \A k \in Job \ {j} :
            pc'[k] = pc[k] /\ ref'[k] = ref[k] /\ mine'[k] = mine[k] /\ fault'[k] = fault[k],
         fault'["run"] = fault["run"]
  PROVE  IInv'
<1>1. BoxType' /\ BoxInv' /\ next' >= next
  BY DEF IInv, TypeOK, BoxType, BoxInv, run
<1>2. \A b \in DOMAIN boxes' : Survives(b) /\ boxes'[b] = boxes[b]
  BY DEF Survives
<1> QED
  BY <1>1, <1>2, JobStep

\* Create's inspect finds the container by id, or by the name that it alone has,
\* and may leave Deploy with the name.
LEMMA CreateGetStep ==
  ASSUME IInv, NEW j \in Job, CreateGet(j), Keep, UNCHANGED run
  PROVE  IInv'
<1> USE ConstantsAssumption
<1>0. /\ TypeOK /\ BoxInv /\ pc[j] = "inspect"
      /\ UNCHANGED <<boxes, next, ctx, ref, reported, attempt, cfg, kind>>
      /\ OwnInv(j) /\ KnownInv(j)
  BY DEF IInv, CreateGet, run, Keep, fixed
<1>1. ASSUME NEW b \in DOMAIN boxes,
             IF ref[j] = 0 THEN boxes[b].name = cfg[j].name ELSE b = ref[j],
             NEW id \in IF kind = "native" THEN {b, 0} ELSE {b},
             mine' = [mine EXCEPT ![j] = id],
             To(j, IF kind = "native" THEN "check" ELSE "start"), UNCHANGED fault
      PROVE  IInv'
  <2>1. /\ pc' \in [Job -> Label]
        /\ pc'[j] \in {"check", "start"}
        /\ \A k \in Job \ {j} : pc'[k] = pc[k]
    BY <1>0, <1>1, ToEffect
  <2>2. b \in 1 .. next - 1 /\ id \in 0 .. next - 1
    BY <1>0 DEF TypeOK, BoxInv
  <2>3. mine' \in [Job -> 0 .. next - 1] /\ mine'[j] = id /\ \A k \in Job \ {j} : mine'[k] = mine[k]
    BY <1>0, <1>1, <2>2 DEF TypeOK
  <2>4. JobType'
    BY <1>0, <1>1, <2>1, <2>3 DEF JobType, TypeOK
  <2>5. OwnInv(j)'
    BY <1>0, <1>1, <2>1, <2>2, <2>3 DEF OwnInv, BoxInv, Known
  <2>6. KnownInv(j)'
    <3>1. 0 \notin DOMAIN boxes /\ b # 0
      BY <1>0, <2>2 DEF TypeOK, BoxInv
    <3>2. id = b \/ (id = 0 /\ kind = "native")
      BY <1>1
    <3> QED
      BY <1>0, <1>1, <2>1, <2>3, <3>1, <3>2 DEF KnownInv, Known
  <2> QED
    BY <1>0, <1>1, <2>1, <2>3, <2>4, <2>5, <2>6, QuietJobStep
<1>2. ASSUME Fail(j, {"blind"}), UNCHANGED mine PROVE IInv'
  <2>1. /\ pc' \in [Job -> Label]
        /\ pc'[j] = "failed"
        /\ \A k \in Job \ {j} : pc'[k] = pc[k]
        /\ fault' \in [Actor -> SUBSET {"blind", "refused"}]
        /\ fault'[j] = fault[j] \cup {"blind"}
        /\ \A k \in Actor \ {j} : fault'[k] = fault[k]
    BY <1>0, <1>2, FailEffect
  <2>2. OwnInv(j)' /\ KnownInv(j)'
    BY <1>0, <1>2, <2>1 DEF OwnInv, KnownInv, Known
  <2>3. JobType'
    BY <1>0, <1>2, <2>1 DEF JobType, TypeOK
  <2> QED
    BY <1>0, <1>2, <2>1, <2>2, <2>3, QuietJobStep DEF Actor
<1> QED
  BY <1>1, <1>2 DEF CreateGet

\* A container whose status reads as running has been started, whatever the shape
\* of what inspect prints.
LEMMA StatusRunning ==
  ASSUME IInv, NEW b \in DOMAIN boxes, Status(b) = "running"
  PROVE  boxes[b].state = "running"
<1>1. shape \in {"status", "state", "object"} /\ boxes[b].state \in {"created", "running", "exited"}
  BY DEF IInv, CastInv, TypeOK
<1>2. decodeSandbox(Inspect(boxes[b].state)) = sandboxStatus(boxes[b].state)
  BY <1>1 DEF decodeSandbox, Inspect
<1> QED
  BY <1>1, <1>2 DEF Status, sandboxStatus

\* What a command on sandbox.ID means: at most one container, and the Deploy's own
\* if that is still there.
LEMMA TargetEffect ==
  ASSUME IInv, NEW j \in Job, pc[j] \in Known
  PROVE  /\ Target(j) \subseteq DOMAIN boxes
         /\ \A b, c \in Target(j) : b = c
         /\ \A b \in DOMAIN boxes : boxes[b].owner = <<j, 1>> \/ b = mine[j] => b \in Target(j)
         /\ mine[j] # 0 => Target(j) \subseteq {mine[j]}
<1>1. \A b \in DOMAIN boxes : b # 0
  BY DEF IInv, TypeOK, BoxInv
<1>2. \A b, c \in DOMAIN boxes : boxes[b].name = boxes[c].name => b = c
  BY DEF IInv, BoxInv
<1>3. \A b \in DOMAIN boxes : boxes[b].owner = <<j, 1>> =>
         boxes[b].name = cfg[j].name /\ (mine[j] # 0 => b = mine[j])
  BY DEF IInv, OwnInv
<1> QED
  BY <1>1, <1>2, <1>3 DEF Target

\* Start's looks before and after, and the clean-up they may lead to.
LEMMA StartLookStep ==
  ASSUME IInv, NEW j \in Job, StartGet(j) \/ StartInspect(j), Keep, UNCHANGED run
  PROVE  IInv'
<1> USE ConstantsAssumption
<1>0. /\ TypeOK /\ BoxInv /\ pc[j] \in {"check", "verify"}
      /\ UNCHANGED <<boxes, next, ctx, ref, mine, reported, fault, attempt, cfg, kind>>
      /\ OwnInv(j) /\ KnownInv(j)
  BY DEF IInv, StartGet, StartInspect, run, Keep, fixed
<1>1. ASSUME NEW q \in {"start", "cleanup", "refresh"}, To(j, q),
             q = "refresh" => Started(j)
      PROVE  IInv'
  <2>1. /\ pc' \in [Job -> Label]
        /\ pc'[j] = q
        /\ \A k \in Job \ {j} : pc'[k] = pc[k]
    BY <1>0, <1>1, ToEffect
  <2>2. JobType'
    BY <1>0, <2>1 DEF JobType, TypeOK
  <2>3. OwnInv(j)'
    BY <1>0, <1>1, <2>1 DEF OwnInv, Known
  <2>4. KnownInv(j)'
    BY <1>0, <1>1, <2>1 DEF KnownInv, Known, Started
  <2> QED
    BY <1>0, <2>1, <2>2, <2>3, <2>4, QuietJobStep
<1>2. CASE StartGet(j)
  <2>1. ASSUME NEW b \in Target(j), Status(b) = "running" PROVE Started(j)
    <3>1. b \in DOMAIN boxes /\ \A c \in DOMAIN boxes : boxes[c].owner = <<j, 1>> \/ c = mine[j] => c = b
      BY <1>0, <2>1, TargetEffect DEF Known
    <3>2. boxes[b].state = "running"
      BY <2>1, <3>1, StatusRunning
    <3> QED
      BY <3>1, <3>2 DEF Started
  <2> QED
    BY <1>1, <1>2, <2>1 DEF StartGet
<1>3. CASE StartInspect(j)
  <2>1. Started(j)
    BY <1>0, <1>3 DEF StartInspect, KnownInv
  <2> QED
    BY <1>1, <1>3, <2>1 DEF StartInspect
<1> QED
  BY <1>2, <1>3

\* Deploy returns with the status it last saw.
LEMMA RefreshStep ==
  ASSUME IInv, NEW j \in Job, Refresh(j), Keep, UNCHANGED run
  PROVE  IInv'
<1> USE ConstantsAssumption
<1>0. /\ TypeOK /\ BoxInv /\ pc[j] = "refresh" /\ To(j, "done")
      /\ UNCHANGED <<boxes, next, ctx, ref, mine, fault, attempt, cfg, kind>>
      /\ OwnInv(j) /\ KnownInv(j)
  BY DEF IInv, Refresh, run, Keep, fixed
<1>1. /\ pc' \in [Job -> Label]
      /\ pc'[j] = "done"
      /\ \A k \in Job \ {j} : pc'[k] = pc[k]
  BY <1>0, ToEffect
<1>2. reported' \in [Job -> {"none", "pending", "running", "stopped"}]
  <2>1. \A b : Status(b) \in {"pending", "running", "stopped"}
    BY DEF Status, decodeSandbox, sandboxStatus
  <2> QED
    BY <1>0, <2>1 DEF Refresh, TypeOK
<1>3. JobType'
  BY <1>0, <1>1, <1>2 DEF JobType, TypeOK
<1>4. OwnInv(j)' /\ KnownInv(j)'
  BY <1>0, <1>1 DEF OwnInv, KnownInv, Known, Started
<1> QED
  BY <1>0, <1>1, <1>3, <1>4, QuietJobStep

\* The start command starts the Deploy's container, which is none of the run's.
LEMMA StartRunStep ==
  ASSUME IInv, NEW j \in Job, StartRun(j), Keep, UNCHANGED run
  PROVE  IInv'
<1> USE ConstantsAssumption
<1>0. /\ TypeOK /\ BoxInv /\ BoxType /\ pc[j] = "start" /\ next' >= next
      /\ UNCHANGED <<next, ctx, ref, mine, reported, fault, attempt, cfg, kind>>
      /\ OwnInv(j) /\ KnownInv(j)
  BY DEF IInv, TypeOK, BoxType, BoxInv, StartRun, run, Keep, fixed
<1>1. ASSUME NEW q \in {"cleanup", "refresh", "verify"}, To(j, q), NEW b \in Target(j),
             SetState(b, "running")
      PROVE  IInv'
  <2>1. /\ pc' \in [Job -> Label]
        /\ pc'[j] = q
        /\ \A k \in Job \ {j} : pc'[k] = pc[k]
    BY <1>0, <1>1, ToEffect
  <2>0. /\ b \in DOMAIN boxes /\ (mine[j] # 0 => b = mine[j])
        /\ \A c \in DOMAIN boxes : boxes[c].owner = <<j, 1>> \/ c = mine[j] => c = b
    BY <1>0, <1>1, TargetEffect DEF Known
  <2>2. /\ BoxType' /\ BoxInv'
        /\ DOMAIN boxes' = DOMAIN boxes
        /\ boxes'[b].state = "running"
        /\ \A c \in DOMAIN boxes : Survives(c) /\ (c # b => boxes'[c] = boxes[c])
    BY <1>0, <1>1, <2>0, SetStateEffect
  <2>3. boxes[b].owner # Self
    <3>1. CASE phase = "idle"
      BY <2>0, <3>1 DEF IInv, RunInv
    <3>2. CASE phase # "idle"
      <4>1. ref[j] # 0 /\ mine[j] # 0
        BY <1>0, <3>2 DEF IInv, CastInv, KnownInv, Known
      <4>2. boxes[b].owner = <<j, 1>>
        BY <1>0, <2>0, <4>1 DEF KnownInv, Known
      <4> QED
        BY <4>2 DEF Self
    <3> QED
      BY <3>1, <3>2
  <2>4. JobType'
    BY <1>0, <2>1 DEF JobType, TypeOK
  <2>5. OwnInv(j)'
    BY <1>0, <2>1, <2>2 DEF OwnInv, Known, Survives
  <2>6. KnownInv(j)'
    <3>1. Started(j)'
      BY <1>0, <2>0, <2>2 DEF Started, Survives
    <3> QED
      BY <1>0, <2>1, <2>2, <3>1 DEF KnownInv, Known, Survives
  <2>7. \A c \in DOMAIN boxes' :
            /\ Survives(c)
            /\ boxes'[c].state = "running" => boxes[c].state = "running" \/ boxes[c].owner # Self
    BY <2>2, <2>3
  <2> QED
    BY <1>0, <2>1, <2>2, <2>4, <2>5, <2>6, <2>7, JobStep
<1>2. ASSUME To(j, "cleanup"), UNCHANGED boxes PROVE IInv'
  <2>1. /\ pc' \in [Job -> Label]
        /\ pc'[j] = "cleanup"
        /\ \A k \in Job \ {j} : pc'[k] = pc[k]
    BY <1>0, <1>2, ToEffect
  <2>2. JobType'
    BY <1>0, <2>1 DEF JobType, TypeOK
  <2>3. OwnInv(j)' /\ KnownInv(j)'
    BY <1>0, <1>2, <2>1 DEF OwnInv, KnownInv, Known
  <2> QED
    BY <1>0, <1>2, <2>1, <2>2, <2>3, QuietJobStep
<1> QED
  BY <1>1, <1>2 DEF StartRun

\* The clean-up removes what the Deploy knows, or is refused.
LEMMA CleanupStep ==
  ASSUME IInv, NEW j \in Job, Cleanup(j), Keep, UNCHANGED run
  PROVE  IInv'
<1> USE ConstantsAssumption
<1>0. /\ TypeOK /\ BoxInv /\ BoxType /\ pc[j] = "cleanup" /\ next' >= next
      /\ UNCHANGED <<next, ctx, ref, mine, reported, attempt, cfg, kind>>
      /\ OwnInv(j) /\ KnownInv(j)
  BY DEF IInv, TypeOK, BoxType, BoxInv, Cleanup, run, Keep, fixed
<1>1. ASSUME Remove(Target(j)), Fail(j, {}) PROVE IInv'
  <2>1. /\ pc' \in [Job -> Label]
        /\ pc'[j] = "failed"
        /\ \A k \in Job \ {j} : pc'[k] = pc[k]
        /\ fault' \in [Actor -> SUBSET {"blind", "refused"}]
        /\ fault'[j] = fault[j] \cup {}
        /\ \A k \in Actor \ {j} : fault'[k] = fault[k]
    BY <1>0, <1>1, FailEffect
  <2>2. /\ BoxType' /\ BoxInv'
        /\ DOMAIN boxes' = DOMAIN boxes \ Target(j)
        /\ \A c \in DOMAIN boxes' : Survives(c) /\ boxes'[c] = boxes[c]
    BY <1>0, <1>1, RemoveEffect
  <2>3. OwnInv(j)'
    <3>1. \A b \in DOMAIN boxes' : boxes'[b].owner # <<j, 1>>
      BY <1>0, <2>2, TargetEffect DEF Known
    <3> QED
      BY <3>1 DEF OwnInv
  <2>4. KnownInv(j)'
    BY <1>0, <2>1 DEF KnownInv, Known
  <2>5. JobType'
    BY <1>0, <2>1 DEF JobType, TypeOK
  <2> QED
    BY <1>0, <2>1, <2>2, <2>3, <2>4, <2>5, JobStep DEF Actor
<1>2. ASSUME UNCHANGED boxes, Fail(j, {"refused"}) PROVE IInv'
  <2>1. /\ pc' \in [Job -> Label]
        /\ pc'[j] = "failed"
        /\ \A k \in Job \ {j} : pc'[k] = pc[k]
        /\ fault' \in [Actor -> SUBSET {"blind", "refused"}]
        /\ fault'[j] = fault[j] \cup {"refused"}
        /\ \A k \in Actor \ {j} : fault'[k] = fault[k]
    BY <1>0, <1>2, FailEffect
  <2>2. OwnInv(j)' /\ KnownInv(j)'
    BY <1>0, <1>2, <2>1 DEF OwnInv, KnownInv, Known
  <2>3. JobType'
    BY <1>0, <2>1 DEF JobType, TypeOK
  <2> QED
    BY <1>0, <1>2, <2>1, <2>2, <2>3, QuietJobStep DEF Actor
<1> QED
  BY <1>1, <1>2 DEF Cleanup

-----------------------------------------------------------------------------
(***************************************************************************)
(* Execute.                                                                *)
(***************************************************************************)

\* The run's fault gets one more, nobody else's changes.
LEMMA RunFaultEffect ==
  ASSUME TypeOK, NEW what \in SUBSET {"blind", "refused"},
         fault' = [fault EXCEPT !["run"] = @ \cup what]
  PROVE  /\ fault' \in [Actor -> SUBSET {"blind", "refused"}]
         /\ fault'["run"] = fault["run"] \cup what
         /\ \A j \in Job : fault'[j] = fault[j]
<1>1. "run" \in Actor /\ fault["run"] \cup what \in SUBSET {"blind", "refused"}
  BY DEF Actor, TypeOK
<1> QED
  BY <1>1, ConstantsAssumption DEF TypeOK, Actor

\* The request is accepted or refused; nothing is started yet.
LEMMA BeginStep ==
  ASSUME IInv, "run" \in cast, Begin, Keep, UNCHANGED <<ctx, deploys, attempt>>
  PROVE  IInv'
<1> USE ConstantsAssumption
<1>0. /\ TypeOK /\ BoxInv /\ RunInv /\ CastInv /\ phase = "idle"
      /\ UNCHANGED <<boxes, next, created, fault, plan, cast, kind, shape, attempt>>
      /\ (phase' = "spawn" /\ at' = 1) \/ phase' = "failed"
  BY DEF IInv, Begin, Keep, fixed
<1>1. BoxType' /\ BoxInv' /\ next' >= next
  BY <1>0 DEF TypeOK, BoxType, BoxInv
<1>2. CastInv'
  BY <1>0 DEF CastInv
<1>3. created = <<>>
  BY <1>0 DEF RunInv
<1>4. RunInv'
  BY <1>0 DEF RunInv, Self
<1>5. RollbackInv'
  BY <1>0, <1>3 DEF RollbackInv
<1>6. PlanInv'
  <2>1. CASE phase' = "failed"
    BY <2>1 DEF PlanInv
  <2>2. CASE phase' = "spawn" /\ at' = 1
    <3>1. Len(plan) \in Nat
      BY <1>0 DEF CastInv
    <3>2. DOMAIN created' = {}
      BY <1>0, <1>3
    <3> DEFINE turn == [i \in DOMAIN created' |-> 1]
               turns == [DOMAIN created' -> 1 .. at' - 1]
               first == {k \in 1 .. at' - 1 : plan'[k].phase = "create"}
    <3>3. turn \in turns /\ Range(turn) = {}
      BY <3>2 DEF Range
    <3>4. first = {}
      BY <2>2
    <3> HIDE DEF turn, first
    <3>5. \E t \in turns :
              /\ \A i, k \in DOMAIN created' : i < k => t[i] < t[k]
              /\ Range(t) = first
              /\ \A i \in DOMAIN created' : created'[i] \in DOMAIN boxes' =>
                    boxes'[created'[i]].name = plan'[t[i]].service
      <4> turn \in turns
        BY <3>3
      <4> WITNESS turn \in turns
      <4> QED
        BY <3>2, <3>3, <3>4
    <3>6. at' \in 1 .. Len(plan') + 1 /\ phase' # "ok"
      BY <1>0, <2>2, <3>1
    <3> QED
      BY <3>5, <3>6 DEF PlanInv, first
  <2> QED
    BY <1>0, <2>1, <2>2
<1>7. \A b \in DOMAIN boxes' : Survives(b)
  BY <1>0 DEF Survives
<1> QED
  BY <1>0, <1>1, <1>2, <1>4, <1>5, <1>6, <1>7, RunStep DEF TypeOK

\* The turn to the roll-back, with at most one container more than the list has.
LEMMA RollBackStep ==
  ASSUME IInv, phase = "spawn", NEW what \in SUBSET {"blind"}, RollBack(what), BoxType', BoxInv',
         next' >= next, Keep, UNCHANGED <<deploys, attempt>>,
         \/ UNCHANGED boxes
         \/ /\ what = {"blind"} /\ next \notin DOMAIN boxes
            /\ DOMAIN boxes' = DOMAIN boxes \cup {next} /\ boxes'[next].owner = Self
            /\ \A b \in DOMAIN boxes : boxes'[b] = boxes[b]
  PROVE  IInv'
<1> USE ConstantsAssumption
<1>0. /\ TypeOK /\ BoxInv /\ RunInv /\ CastInv
      /\ UNCHANGED <<created, plan, cast, kind, shape, attempt>>
      /\ phase' = "rollback" /\ at' = Len(created)
  BY DEF IInv, RollBack, Keep, fixed
<1>1. /\ fault' \in [Actor -> SUBSET {"blind", "refused"}]
      /\ fault'["run"] = fault["run"] \cup what
      /\ \A j \in Job : fault'[j] = fault[j]
  BY <1>0, RunFaultEffect DEF RollBack
<1>2. CastInv'
  BY <1>0 DEF IInv, CastInv
<1>3. created \in Seq(1 .. next' - 1) /\ \A i \in DOMAIN created : created[i] \in 1 .. next - 1
  BY <1>0 DEF RunInv, BoxInv
<1>4. \A b \in DOMAIN boxes : boxes[b].owner = Self => b \in Range(created)
  BY <1>0 DEF RunInv
<1>5. RunInv'
  <2>1. \A i \in DOMAIN created : created[i] \in DOMAIN boxes' => boxes'[created[i]].owner = Self
    BY <1>0, <1>3 DEF RunInv, BoxInv
  <2>2. \A b \in DOMAIN boxes' : boxes'[b].owner = Self /\ b \notin Range(created) => b = next /\ what = {"blind"}
    BY <1>4
  <2> QED
    BY <1>0, <1>1, <1>3, <2>1, <2>2 DEF RunInv, Self
<1>6. RollbackInv'
  <2>1. Len(created) \in Nat /\ DOMAIN created = 1 .. Len(created)
    BY <1>3
  <2> QED
    BY <1>0, <2>1 DEF RollbackInv
<1>7. PlanInv'
  BY <1>0 DEF PlanInv
<1>8. \A b \in DOMAIN boxes' : Survives(b) \/ (b = next /\ boxes'[b].owner = Self)
  BY DEF Survives
<1> QED
  BY <1>0, <1>1, <1>2, <1>5, <1>6, <1>7, <1>8, RunStep

\* A container of the plan is up and in the list.
LEMMA SpawnedStep ==
  ASSUME IInv, phase = "spawn", at <= Len(plan), plan[at].phase = "create", Free(plan[at].service),
         AddBox(plan[at].service, Self, "running"), created' = Append(created, next), at' = at + 1,
         UNCHANGED <<phase, fault>>, Keep, UNCHANGED <<deploys, attempt>>
  PROVE  IInv'
<1> USE ConstantsAssumption
<1>0. /\ TypeOK /\ BoxInv /\ BoxType /\ RunInv /\ CastInv /\ PlanInv
      /\ UNCHANGED <<plan, cast, kind, shape, attempt>>
  BY DEF IInv, TypeOK, BoxType, Keep, fixed
<1>1. Self \in Actor \X (1 .. attempt)
  BY <1>0 DEF Self, Actor, BoxInv
<1>2. /\ BoxType' /\ BoxInv'
      /\ next \notin DOMAIN boxes /\ next' = next + 1
      /\ DOMAIN boxes' = DOMAIN boxes \cup {next}
      /\ boxes'[next] = [name |-> plan[at].service, owner |-> Self, state |-> "running"]
      /\ \A b \in DOMAIN boxes : boxes'[b] = boxes[b]
  BY <1>0, <1>1, AddBoxEffect
<1>3. boxes'[next].name = plan[at].service /\ boxes'[next].owner = Self /\ next \in Nat
  BY <1>0, <1>2 DEF BoxInv
<1>4. CastInv'
  BY <1>0 DEF CastInv
<1>5. created \in Seq(1 .. next - 1) /\ \A i \in DOMAIN created : created[i] \in 1 .. next - 1
  <2>1. created \in Seq(1 .. next - 1)
    BY <1>0 DEF RunInv
  <2>2. \A i \in DOMAIN created : created[i] \in 1 .. next - 1
    BY <1>3, <2>1 DEF BoxInv
  <2> QED
    BY <2>1, <2>2
<1>6. /\ created' \in Seq(1 .. next' - 1) /\ Len(created) \in Nat
      /\ DOMAIN created = 1 .. Len(created) /\ DOMAIN created' = 1 .. Len(created) + 1
      /\ created'[Len(created) + 1] = next
      /\ \A i \in 1 .. Len(created) : created'[i] = created[i]
  <2>1. created \in Seq(1 .. next) /\ next \in 1 .. next /\ next' - 1 = next
    BY <1>0, <1>2, <1>5 DEF BoxInv
  <2> QED
    BY <2>1
<1>7. RunInv'
  <2>1. \A i \in DOMAIN created' : created'[i] \in DOMAIN boxes' => boxes'[created'[i]].owner = Self
    BY <1>0, <1>2, <1>3, <1>5, <1>6 DEF RunInv
  <2>2. \A b \in DOMAIN boxes : boxes[b].owner = Self => b \in Range(created)
    BY <1>0 DEF RunInv
  <2>3. Range(created) \subseteq Range(created') /\ next \in Range(created')
    BY <1>6 DEF Range
  <2>4. \A b \in DOMAIN boxes' : boxes'[b].owner = Self => b \in Range(created')
    BY <1>2, <2>2, <2>3
  <2> QED
    BY <1>0, <1>6, <2>1, <2>4 DEF RunInv, Self
<1>8. RollbackInv'
  BY DEF RollbackInv
<1>9. PlanInv'
  <2>1. Len(plan) \in Nat /\ at \in 1 .. Len(plan)
    BY <1>0 DEF PlanInv, CastInv
  <2>2. PICK turn \in [DOMAIN created -> 1 .. at - 1] :
              /\ \A i, k \in DOMAIN created : i < k => turn[i] < turn[k]
              /\ Range(turn) = {k \in 1 .. at - 1 : plan[k].phase = "create"}
              /\ \A i \in DOMAIN created : created[i] \in DOMAIN boxes =>
                    boxes[created[i]].name = plan[turn[i]].service
    BY <1>0 DEF PlanInv
  <2> DEFINE n == Len(created)
             more == [i \in 1 .. n + 1 |-> IF i = n + 1 THEN at ELSE turn[i]]
  <2>3. /\ more \in [DOMAIN created' -> 1 .. at]
        /\ more[n + 1] = at
        /\ \A i \in DOMAIN created : more[i] = turn[i] /\ turn[i] \in 1 .. at - 1
    BY <1>6, <2>1
  <2>4. DOMAIN more = DOMAIN created \cup {n + 1} /\ DOMAIN turn = DOMAIN created
    BY <1>6
  <2> HIDE DEF more
  <2>5. \A i, k \in DOMAIN created' : i < k => more[i] < more[k]
    BY <1>6, <2>1, <2>2, <2>3
  <2>6. Range(more) = {k \in 1 .. at : plan[k].phase = "create"}
    <3>1. Range(more) = Range(turn) \cup {at}
      BY <2>3, <2>4 DEF Range
    <3> QED
      BY <2>1, <2>2, <3>1
  <2>7. \A i \in DOMAIN created' : created'[i] \in DOMAIN boxes' =>
            boxes'[created'[i]].name = plan[more[i]].service
    BY <1>2, <1>3, <1>5, <1>6, <2>2, <2>3
  <2>8. at' - 1 = at /\ at' \in 1 .. Len(plan') + 1 /\ phase' # "ok"
    BY <1>0, <2>1
  <2> DEFINE turns == [DOMAIN created' -> 1 .. at' - 1]
             done == {k \in 1 .. at' - 1 : plan'[k].phase = "create"}
  <2>9. more \in turns /\ Range(more) = done
    BY <1>0, <2>3, <2>6, <2>8
  <2> HIDE DEF done
  <2>10. \E t \in turns :
            /\ \A i, k \in DOMAIN created' : i < k => t[i] < t[k]
            /\ Range(t) = done
            /\ \A i \in DOMAIN created' : created'[i] \in DOMAIN boxes' =>
                  boxes'[created'[i]].name = plan'[t[i]].service
    <3> more \in turns
      BY <2>9
    <3> WITNESS more \in turns
    <3> QED
      BY <1>0, <2>5, <2>7, <2>9
  <2> QED
    BY <2>8, <2>10 DEF PlanInv, done
<1>10. \A b \in DOMAIN boxes' : Survives(b) \/ (b = next /\ boxes'[b].owner = Self)
  BY <1>2, <1>3 DEF Survives
<1>11. next' >= next
  BY <1>2, <1>3
<1> QED
  BY <1>0, <1>2, <1>4, <1>7, <1>8, <1>9, <1>10, <1>11, RunStep DEF TypeOK

\* An intent of another phase is passed over.
LEMMA PassOverStep ==
  ASSUME IInv, phase = "spawn", at <= Len(plan), plan[at].phase # "create", at' = at + 1,
         UNCHANGED <<boxes, next, phase, created, fault>>, Keep, UNCHANGED <<deploys, attempt>>
  PROVE  IInv'
<1> USE ConstantsAssumption
<1>0. /\ TypeOK /\ BoxInv /\ RunInv /\ CastInv /\ PlanInv
      /\ UNCHANGED <<plan, cast, kind, shape, attempt>>
  BY DEF IInv, Keep, fixed
<1>1. BoxType' /\ BoxInv' /\ next' >= next
  BY <1>0 DEF TypeOK, BoxType, BoxInv
<1>2. CastInv' /\ RunInv' /\ RollbackInv'
  BY <1>0 DEF CastInv, RunInv, RollbackInv, Self
<1>3. PlanInv'
  <2>1. Len(plan) \in Nat /\ at \in 1 .. Len(plan) /\ at' - 1 = at
    BY <1>0 DEF PlanInv, CastInv
  <2>2. PICK turn \in [DOMAIN created -> 1 .. at - 1] :
              /\ \A i, k \in DOMAIN created : i < k => turn[i] < turn[k]
              /\ Range(turn) = {k \in 1 .. at - 1 : plan[k].phase = "create"}
              /\ \A i \in DOMAIN created : created[i] \in DOMAIN boxes =>
                    boxes[created[i]].name = plan[turn[i]].service
    BY <1>0 DEF PlanInv
  <2>3. turn \in [DOMAIN created -> 1 .. at]
    BY <2>1
  <2>4. {k \in 1 .. at - 1 : plan[k].phase = "create"} = {k \in 1 .. at : plan[k].phase = "create"}
    BY <2>1
  <2> QED
    BY <1>0, <2>1, <2>2, <2>3, <2>4 DEF PlanInv
<1>4. \A b \in DOMAIN boxes' : Survives(b)
  BY DEF Survives
<1> QED
  BY <1>0, <1>1, <1>2, <1>3, <1>4, RunStep DEF TypeOK

\* All intents are done.
LEMMA CompleteStep ==
  ASSUME IInv, phase = "spawn", ~(at <= Len(plan)), phase' = "ok",
         UNCHANGED <<boxes, next, at, created, fault>>, Keep, UNCHANGED <<deploys, attempt>>
  PROVE  IInv'
<1> USE ConstantsAssumption
<1>0. /\ TypeOK /\ BoxInv /\ RunInv /\ CastInv /\ PlanInv
      /\ UNCHANGED <<plan, cast, kind, shape, attempt>>
  BY DEF IInv, Keep, fixed
<1>1. BoxType' /\ BoxInv' /\ next' >= next
  BY <1>0 DEF TypeOK, BoxType, BoxInv
<1>2. CastInv' /\ RunInv' /\ RollbackInv'
  BY <1>0 DEF CastInv, RunInv, RollbackInv, Self
<1>3. at = Len(plan) + 1
  <2>1. Len(plan) \in Nat
    BY <1>0 DEF CastInv
  <2> QED
    BY <1>0, <2>1 DEF PlanInv
<1>4. PlanInv'
  BY <1>0, <1>3 DEF PlanInv
<1>5. \A b \in DOMAIN boxes' : Survives(b)
  BY DEF Survives
<1> QED
  BY <1>0, <1>1, <1>2, <1>4, <1>5, RunStep DEF TypeOK

\* One turn of the roll-back: the run's container is stopped, or was not running,
\* or the stop is refused.
LEMMA RollbackTurn ==
  ASSUME IInv, rollback, Keep, UNCHANGED <<deploys, attempt>>
  PROVE  IInv'
<1> USE ConstantsAssumption
<1>0. /\ TypeOK /\ BoxInv /\ BoxType /\ RunInv /\ CastInv /\ RollbackInv
      /\ phase = "rollback" /\ next' >= next /\ next \in Nat
      /\ UNCHANGED <<next, created, plan, cast, kind, shape, attempt>>
  BY DEF IInv, TypeOK, BoxType, BoxInv, rollback, Keep, fixed
<1>1. /\ created \in Seq(1 .. next - 1) /\ Len(created) \in Nat
      /\ DOMAIN created = 1 .. Len(created) /\ at \in 0 .. Len(created)
  BY <1>0 DEF RunInv, RollbackInv
<1>2. CASE at = 0 /\ phase' = "failed" /\ UNCHANGED <<boxes, at, fault>>
  <2>1. BoxType' /\ BoxInv' /\ CastInv' /\ PlanInv'
    BY <1>0, <1>2 DEF BoxType, BoxInv, CastInv, PlanInv
  <2>2. RunInv'
    BY <1>0, <1>2 DEF RunInv, Self
  <2>3. RollbackInv'
    BY <1>0, <1>1, <1>2 DEF RollbackInv
  <2>4. \A b \in DOMAIN boxes' : Survives(b)
    BY <1>2 DEF Survives
  <2> QED
    BY <1>0, <1>2, <2>1, <2>2, <2>3, <2>4, RunStep DEF TypeOK
<1>3. ASSUME at # 0, at' = at - 1, UNCHANGED <<phase, fault>>, created[at] \in DOMAIN boxes,
             \/ boxes[created[at]].state = "running" /\ SetState(created[at], "exited")
             \/ boxes[created[at]].state # "running" /\ UNCHANGED boxes
      PROVE  IInv'
  <2>1. /\ BoxType' /\ BoxInv'
        /\ DOMAIN boxes' = DOMAIN boxes
        /\ boxes'[created[at]].state # "running"
        /\ \A c \in DOMAIN boxes : Survives(c) /\ (c # created[at] => boxes'[c] = boxes[c])
    <3>1. CASE SetState(created[at], "exited")
      BY <1>0, <1>3, <3>1, SetStateEffect
    <3>2. CASE boxes[created[at]].state # "running" /\ UNCHANGED boxes
      BY <1>0, <3>2 DEF BoxType, BoxInv, Survives
    <3> QED
      BY <1>3, <3>1, <3>2
  <2>2. CastInv' /\ PlanInv'
    BY <1>0, <1>3 DEF CastInv, PlanInv
  <2>3. RunInv'
    BY <1>0, <1>3, <2>1 DEF RunInv, Self, Survives
  <2>4. RollbackInv'
    <3>1. at' \in 0 .. Len(created')
      BY <1>0, <1>1, <1>3
    <3>2. ASSUME "refused" \notin fault["run"], NEW i \in DOMAIN created, at - 1 < i,
                 created[i] \in DOMAIN boxes
          PROVE  boxes'[created[i]].state # "running"
      <4>1. CASE created[i] = created[at]
        BY <2>1, <4>1
      <4>2. CASE created[i] # created[at]
        <5>1. at < i
          BY <1>1, <3>2, <4>2
        <5>2. boxes[created[i]].state # "running"
          BY <1>0, <3>2, <5>1 DEF RollbackInv
        <5> QED
          BY <2>1, <3>2, <4>2, <5>2
      <4> QED
        BY <4>1, <4>2
    <3> QED
      BY <1>0, <1>3, <2>1, <3>1, <3>2 DEF RollbackInv
  <2> QED
    BY <1>0, <1>3, <2>1, <2>2, <2>3, <2>4, RunStep DEF TypeOK
<1>4. ASSUME at # 0, at' = at - 1, UNCHANGED <<phase, boxes>>,
             fault' = [fault EXCEPT !["run"] = @ \cup {"refused"}]
      PROVE  IInv'
  <2>1. /\ fault' \in [Actor -> SUBSET {"blind", "refused"}]
        /\ fault'["run"] = fault["run"] \cup {"refused"}
        /\ \A j \in Job : fault'[j] = fault[j]
    BY <1>0, <1>4, RunFaultEffect
  <2>2. BoxType' /\ BoxInv' /\ CastInv' /\ PlanInv'
    BY <1>0, <1>4 DEF BoxType, BoxInv, CastInv, PlanInv
  <2>3. RunInv'
    BY <1>0, <1>4, <2>1 DEF RunInv, Self
  <2>4. RollbackInv'
    BY <1>0, <1>1, <1>4, <2>1 DEF RollbackInv
  <2>5. \A b \in DOMAIN boxes' : Survives(b)
    BY <1>4 DEF Survives
  <2> QED
    BY <1>0, <1>4, <2>1, <2>2, <2>3, <2>4, <2>5, RunStep
<1> QED
  BY <1>2, <1>3, <1>4 DEF rollback

\* Any step of Execute.
LEMMA ExecuteStep ==
  ASSUME IInv, Execute
  PROVE  IInv'
<1> USE ConstantsAssumption
<1>0. /\ "run" \in cast /\ Keep /\ UNCHANGED <<ctx, deploys, attempt>>
      /\ TypeOK /\ BoxInv /\ BoxType
  BY DEF Execute, IInv, TypeOK, BoxType
<1>1. CASE Begin
  BY <1>0, <1>1, BeginStep
<1>2. CASE rollback
  BY <1>0, <1>2, RollbackTurn
<1>3. CASE phase = "spawn" /\ ~(at <= Len(plan)) /\ phase' = "ok"
           /\ UNCHANGED <<boxes, next, at, created, fault>>
  BY <1>0, <1>3, CompleteStep
<1>4. ASSUME phase = "spawn", at <= Len(plan), Intent(plan[at]) PROVE IInv'
  <2>1. CASE plan[at].phase = "create" /\ RollBack({}) /\ UNCHANGED <<boxes, next>>
    <3>1. BoxType' /\ BoxInv' /\ next' >= next
      BY <1>0, <2>1 DEF BoxType, BoxInv
    <3> QED
      BY <1>0, <1>4, <2>1, <3>1, RollBackStep
  <2>2. CASE plan[at].phase # "create" /\ at' = at + 1
             /\ UNCHANGED <<boxes, next, phase, created, fault>>
    BY <1>0, <1>4, <2>2, PassOverStep
  <2>3. ASSUME plan[at].phase = "create", Free(plan[at].service),
               NEW out \in {"id", "nothing", "lost", "unstarted"},
               AddBox(plan[at].service, Self, IF out = "unstarted" THEN "created" ELSE "running"),
               IF out = "id"
               THEN /\ created' = Append(created, next)
                    /\ at' = at + 1 /\ UNCHANGED <<phase, fault>>
               ELSE RollBack({"blind"})
        PROVE  IInv'
    <3>1. CASE out = "id"
      BY <1>0, <1>4, <2>3, <3>1, SpawnedStep
    <3>2. CASE out # "id"
      <4> DEFINE state == IF out = "unstarted" THEN "created" ELSE "running"
      <4>1. state \in {"created", "running"} /\ AddBox(plan[at].service, Self, state)
        BY <2>3
      <4>2. Self \in Actor \X (1 .. attempt) /\ attempt' = attempt
        BY <1>0 DEF Self, Actor, BoxInv
      <4> HIDE DEF state
      <4>3. /\ BoxType' /\ BoxInv'
            /\ next \notin DOMAIN boxes /\ next' = next + 1
            /\ DOMAIN boxes' = DOMAIN boxes \cup {next}
            /\ boxes'[next] = [name |-> plan[at].service, owner |-> Self, state |-> state]
            /\ \A b \in DOMAIN boxes : boxes'[b] = boxes[b]
        BY <1>0, <2>3, <4>1, <4>2, AddBoxEffect
      <4>4. boxes'[next].owner = Self /\ next' >= next
        BY <1>0, <4>3 DEF BoxInv
      <4> QED
        BY <1>0, <1>4, <2>3, <3>2, <4>3, <4>4, RollBackStep
    <3> QED
      BY <3>1, <3>2
  <2> QED
    BY <1>4, <2>1, <2>2, <2>3 DEF Intent, Spawn
<1> QED
  BY <1>1, <1>2, <1>3, <1>4 DEF Execute, Step

\* The next attempt owns nothing yet: what is left belongs to earlier ones.
LEMMA RetryStep ==
  ASSUME IInv, Retry
  PROVE  IInv'
<1> USE ConstantsAssumption
<1>0. /\ TypeOK /\ BoxInv /\ CastInv /\ Keep
      /\ UNCHANGED <<boxes, next, deploys, cast, kind, shape, plan>>
      /\ attempt' = attempt + 1 /\ phase' = "idle" /\ created' = <<>>
      /\ attempt \in Nat /\ next' >= next
  BY DEF IInv, Retry, Keep, fixed, BoxInv
<1>1. /\ fault' \in [Actor -> SUBSET {"blind", "refused"}]
      /\ fault'["run"] = {}
      /\ \A j \in Job : fault'[j] = fault[j]
  BY <1>0 DEF Retry, TypeOK, Actor
<1>2. \A b \in DOMAIN boxes : boxes[b].owner # Self'
  BY <1>0 DEF TypeOK, Self
<1>3. BoxType'
  <2>1. \A b \in DOMAIN boxes : boxes[b].owner \in Actor \X (1 .. attempt + 1)
    BY <1>0 DEF TypeOK
  <2> QED
    BY <1>0, <2>1 DEF TypeOK, BoxType, Actor
<1>4. BoxInv'
  BY <1>0 DEF BoxInv
<1>5. CastInv' /\ RollbackInv' /\ PlanInv'
  BY <1>0 DEF CastInv, RollbackInv, PlanInv
<1>6. RunInv'
  BY <1>0, <1>1, <1>2 DEF RunInv
<1>7. \A b \in DOMAIN boxes' : Survives(b)
  BY <1>0 DEF Survives
<1> QED
  BY <1>0, <1>1, <1>3, <1>4, <1>5, <1>6, <1>7, RunStep

-----------------------------------------------------------------------------
(***************************************************************************)
(* Everybody else.                                                         *)
(***************************************************************************)

\* A step that moves no Deploy and no run, starts nothing and makes nothing.
LEMMA OthersStep ==
  ASSUME IInv, BoxType', BoxInv', UNCHANGED <<fixed, next, deploys, fault, run>>,
         listing'.todo \cup listing'.got \subseteq 1 .. next - 1, ListInv',
         \A b \in DOMAIN boxes' :
            Survives(b) /\ (boxes'[b].state = "running" => boxes[b].state = "running")
  PROVE  IInv'
<1> USE DEF IInv, fixed
<1>1. next \in Nat /\ next' = next
  BY DEF BoxInv
<1>2. TypeOK'
  BY <1>1 DEF TypeOK, BoxType, deploys, run
<1>3. CastInv'
  BY DEF CastInv, run
<1>4. ASSUME NEW j \in Job PROVE OwnInv(j)' /\ KnownInv(j)'
  BY <1>1, JobFrame DEF TypeOK, deploys
<1>5. RunInv' /\ RollbackInv' /\ PlanInv'
  BY <1>1, RunFrame
<1> QED
  BY <1>2, <1>3, <1>4, <1>5

\* A container ends, is stopped or is deleted by somebody.
LEMMA MeddleStep ==
  ASSUME IInv, NEW b \in DOMAIN boxes, Meddle(b) \/ BoxEnds(b)
  PROVE  IInv'
<1>0. /\ TypeOK /\ BoxInv /\ BoxType /\ UNCHANGED <<fixed, next, deploys, fault, run>>
      /\ UNCHANGED <<attempt, listing>> /\ next \in Nat
      /\ ListInv
      /\ SetState(b, "exited") \/ Remove({b})
  BY DEF IInv, TypeOK, BoxType, BoxInv, Meddle, BoxEnds, Others, run
<1>1. /\ BoxType' /\ BoxInv' /\ DOMAIN boxes' \subseteq DOMAIN boxes
      /\ \A c \in DOMAIN boxes' :
            Survives(c) /\ (boxes'[c].state = "running" => boxes[c].state = "running")
  <2>1. CASE SetState(b, "exited")
    BY <1>0, <2>1, SetStateEffect
  <2>2. CASE Remove({b})
    BY <1>0, <2>2, RemoveEffect
  <2> QED
    BY <1>0, <2>1, <2>2
<1>2. ListInv'
  BY <1>0, <1>1, ListFrame
<1>3. listing'.todo \cup listing'.got \subseteq 1 .. next - 1
  BY <1>0 DEF TypeOK
<1> QED
  BY <1>0, <1>1, <1>2, <1>3, OthersStep

\* Steps that leave the containers alone as well: a context ends, the engine
\* hangs, List.
LEMMA ReadStep ==
  ASSUME IInv, UNCHANGED <<fixed, boxes, next, deploys, fault, run>>,
         listing'.todo \cup listing'.got \subseteq 1 .. next - 1, ListInv'
  PROVE  IInv'
<1>1. BoxType' /\ BoxInv'
  BY DEF IInv, TypeOK, BoxType, BoxInv, run
<1>2. \A b \in DOMAIN boxes' :
            Survives(b) /\ (boxes'[b].state = "running" => boxes[b].state = "running")
  BY DEF Survives
<1> QED
  BY <1>1, <1>2, OthersStep

\* List knows of every container that was there when it asked.
LEMMA ListStep ==
  ASSUME IInv, List
  PROVE  IInv'
<1>0. /\ TypeOK /\ BoxInv /\ ListInv
      /\ UNCHANGED <<fixed, boxes, next, deploys, fault, run>>
      /\ next \in Nat /\ next >= 1 /\ DOMAIN boxes \subseteq 1 .. next - 1
      /\ listing.todo \subseteq 1 .. next - 1 /\ listing.got \subseteq 1 .. next - 1
  BY DEF IInv, List, Others, BoxInv, TypeOK
<1>1. CASE listing' = [at |-> "getting", todo |-> listIDs, got |-> {}, since |-> next]
  <2>1. /\ listing'.at = "getting" /\ listing'.todo = DOMAIN boxes
        /\ listing'.got = {} /\ listing'.since = next
    BY <1>1 DEF listIDs
  <2>2. ListInv'
    BY <1>0, <1>1, <2>1 DEF ListInv, listIDs
  <2> QED
    BY <1>0, <2>1, <2>2, ReadStep
<1>2. CASE listing.at = "getting" /\ listing.todo = {} /\ listing' = [listing EXCEPT !.at = "done"]
  <2>1. listing' = [at |-> "done", todo |-> listing.todo, got |-> listing.got, since |-> listing.since]
    BY <1>0, <1>2 DEF ListInv
  <2>2. /\ listing'.at = "done" /\ listing'.todo = listing.todo
        /\ listing'.got = listing.got /\ listing'.since = listing.since
    BY <2>1
  <2>3. ListInv'
    BY <1>0, <1>2, <2>1, <2>2 DEF ListInv
  <2> QED
    BY <1>0, <2>2, <2>3, ReadStep
<1>3. ASSUME listing.at = "getting", NEW b \in listing.todo,
             listing' = IF b \in DOMAIN boxes
                        THEN [listing EXCEPT !.todo = @ \ {b}, !.got = @ \cup {b}]
                        ELSE [listing EXCEPT !.at = "error"]
      PROVE  IInv'
  <2>1. CASE b \in DOMAIN boxes
    <3>1. listing' = [at |-> "getting", todo |-> listing.todo \ {b}, got |-> listing.got \cup {b},
                      since |-> listing.since]
      BY <1>0, <1>3, <2>1 DEF ListInv
    <3>2. /\ listing'.at = "getting" /\ listing'.todo = listing.todo \ {b}
          /\ listing'.got = listing.got \cup {b} /\ listing'.since = listing.since
      BY <3>1
    <3>3. ListInv'
      BY <1>0, <1>3, <3>1, <3>2 DEF ListInv
    <3>4. listing'.todo \cup listing'.got \subseteq 1 .. next - 1
      BY <1>0, <1>3, <3>2
    <3> QED
      BY <1>0, <3>3, <3>4, ReadStep
  <2>2. CASE b \notin DOMAIN boxes
    <3>1. listing' = [at |-> "error", todo |-> listing.todo, got |-> listing.got, since |-> listing.since]
      BY <1>0, <1>3, <2>2 DEF ListInv
    <3>2. /\ listing'.at = "error" /\ listing'.todo = listing.todo
          /\ listing'.got = listing.got /\ listing'.since = listing.since
      BY <3>1
    <3>3. ListInv'
      BY <3>1, <3>2 DEF ListInv
    <3> QED
      BY <1>0, <3>2, <3>3, ReadStep
  <2> QED
    BY <2>1, <2>2
<1> QED
  BY <1>1, <1>2, <1>3 DEF List

\* A context that ends, and an engine that hangs.
LEMMA QuietStep ==
  ASSUME IInv, (\E c \in Actor : CtxEnds(c)) \/ Hang \/ UNCHANGED vars
  PROVE  IInv'
<1>0. /\ TypeOK /\ BoxInv /\ ListInv /\ next \in Nat
      /\ UNCHANGED <<fixed, boxes, next, deploys, fault, run>> /\ UNCHANGED listing
  BY DEF IInv, BoxInv, CtxEnds, Hang, Others, vars, engine
<1>1. ListInv'
  BY <1>0, ListFrame
<1>2. listing'.todo \cup listing'.got \subseteq 1 .. next - 1
  BY <1>0 DEF TypeOK
<1> QED
  BY <1>0, <1>1, <1>2, ReadStep

-----------------------------------------------------------------------------
(***************************************************************************)
(* The theorems.                                                           *)
(***************************************************************************)

\* Nothing has happened yet.
LEMMA InitInv == Init => IInv
<1> SUFFICES ASSUME Init PROVE IInv
  OBVIOUS
<1> USE ConstantsAssumption
<1>1. DOMAIN boxes = {} /\ next = 1 /\ attempt = 1 /\ DOMAIN created = {} /\ created = <<>>
  <2>1. boxes = <<>> /\ created = <<>> /\ next = 1 /\ attempt = 1
    BY DEF Init
  <2>2. DOMAIN << >> = {}
    OBVIOUS
  <2> QED
    BY <2>1, <2>2
<1>2. TypeOK
  <2>1. /\ pc = [j \in Job |-> "idle"] /\ ref = [j \in Job |-> 0] /\ mine = [j \in Job |-> 0]
        /\ reported = [j \in Job |-> "none"] /\ fault = [c \in Actor |-> {}] /\ phase = "idle"
        /\ listing = [at |-> "idle", todo |-> {}, got |-> {}, since |-> 0]
    BY DEF Init
  <2>2. /\ listing.todo = {} /\ listing.got = {} /\ Range(created) = {}
        /\ fault \in [Actor -> SUBSET {"blind", "refused"}]
    BY <1>1, <2>1 DEF Range
  <2>3. /\ ref \in [Job -> 0 .. next - 1] /\ mine \in [Job -> 0 .. next - 1]
    BY <1>1, <2>1
  <2> QED
    BY <1>1, <2>1, <2>2, <2>3 DEF TypeOK
<1>3. BoxInv
  BY <1>1 DEF BoxInv
<1>4. CastInv
  <2>1. plan \in Seq(Range(plan))
    <3>1. plan \in Plans \/ plan = << >>
      BY DEF Init
    <3>2. << >> \in Seq(Range(<< >>))
      OBVIOUS
    <3> QED
      BY <3>1, <3>2
  <2>2. "run" \in cast => kind = "podman"
    BY DEF Init
  <2> QED
    BY <2>1, <2>2 DEF Init, CastInv
<1>5. ASSUME NEW j \in Job PROVE OwnInv(j) /\ KnownInv(j)
  BY <1>1 DEF Init, OwnInv, KnownInv, Known, Actor
<1>6. RunInv
  <2>1. fault["run"] = {}
    BY DEF Init, Actor
  <2> QED
    BY <1>1, <2>1 DEF RunInv
<1>7. RollbackInv /\ PlanInv
  BY DEF Init, RollbackInv, PlanInv
<1>8. ListInv
  BY DEF Init, ListInv
<1> QED
  BY <1>2, <1>3, <1>4, <1>5, <1>6, <1>7, <1>8 DEF IInv

\* Every step preserves it.
LEMMA NextInv == IInv /\ [Next]_vars => IInv'
<1> SUFFICES ASSUME IInv, [Next]_vars PROVE IInv'
  OBVIOUS
<1>1. ASSUME NEW j \in Job, Deploy(j) PROVE IInv'
  <2>1. Keep /\ UNCHANGED run
    BY <1>1 DEF Deploy
  <2>2. CASE Create(j)
    BY <2>1, <2>2, CreateStep
  <2>3. CASE CreateGet(j)
    BY <2>1, <2>3, CreateGetStep
  <2>4. CASE StartGet(j) \/ StartInspect(j)
    BY <2>1, <2>4, StartLookStep
  <2>5. CASE StartRun(j)
    BY <2>1, <2>5, StartRunStep
  <2>6. CASE Cleanup(j)
    BY <2>1, <2>6, CleanupStep
  <2>7. CASE Refresh(j)
    BY <2>1, <2>7, RefreshStep
  <2> QED
    BY <1>1, <2>2, <2>3, <2>4, <2>5, <2>6, <2>7 DEF Deploy
<1>2. CASE Execute
  BY <1>2, ExecuteStep
<1>3. CASE Retry
  BY <1>3, RetryStep
<1>4. ASSUME NEW b \in DOMAIN boxes, Meddle(b) \/ BoxEnds(b) PROVE IInv'
  BY <1>4, MeddleStep
<1>5. CASE List
  BY <1>5, ListStep
<1>6. CASE (\E c \in Actor : CtxEnds(c)) \/ Hang \/ UNCHANGED vars
  BY <1>6, QuietStep
<1> QED
  BY <1>1, <1>2, <1>3, <1>4, <1>5, <1>6 DEF Next

\* Containers are known to those who made them: a Deploy knows its own by id or
\* by a name that was free, an Execute by its list, all but one at most.
THEOREM ContainerDeployInvariant == Spec => []IInv
  BY InitInv, NextInv, PTL DEF Spec

\* A roll-back whose stops were all answered leaves at most the one container
\* running whose run command's answer was lost.
LEMMA RollbackStopsHolds == IInv => RollbackStops
<1> SUFFICES ASSUME IInv, phase = "failed", "refused" \notin fault["run"]
             PROVE  LET up == {b \in DOMAIN boxes : boxes[b].owner = Self /\ boxes[b].state = "running"}
                    IN  Cardinality(up) <= Cardinality(fault["run"]) /\ up \cap Range(created) = {}
  BY DEF RollbackStops
<1> DEFINE up == {b \in DOMAIN boxes : boxes[b].owner = Self /\ boxes[b].state = "running"}
<1>1. up \cap Range(created) = {}
  BY DEF IInv, RollbackInv, Range
<1>2. fault["run"] = {} \/ fault["run"] = {"blind"}
  BY DEF IInv, TypeOK, Actor
<1>3. \A b, c \in up : b = c /\ "blind" \in fault["run"]
  BY <1>1 DEF IInv, RunInv
<1> HIDE DEF up
<1>4. Cardinality({}) = 0 /\ Cardinality({"blind"}) = 1
  BY FS_EmptySet, FS_Singleton
<1>5. Cardinality(up) <= Cardinality(fault["run"])
  <2>1. CASE up = {}
    BY <1>2, <1>4, <2>1
  <2>2. ASSUME NEW b \in up PROVE Cardinality(up) <= Cardinality(fault["run"])
    <3>1. up = {b} /\ fault["run"] = {"blind"}
      BY <1>2, <1>3, <2>2
    <3>2. Cardinality({b}) = 1
      BY FS_Singleton
    <3> QED
      BY <1>4, <3>1, <3>2
  <2> QED
    BY <2>1, <2>2
<1> QED
  BY <1>1, <1>5 DEF up

\* After a success the list goes with all the create intents of the plan.
LEMMA SuccessIsCompleteHolds == IInv => SuccessIsComplete
<1> SUFFICES ASSUME IInv, phase = "ok" PROVE SuccessIsComplete
  BY DEF SuccessIsComplete
<1>1. Len(plan) \in Nat /\ DOMAIN plan = 1 .. Len(plan) /\ at - 1 = Len(plan)
  BY DEF IInv, CastInv, PlanInv
<1>2. 1 .. at - 1 = DOMAIN plan
  BY <1>1
<1>3. \E turn \in [DOMAIN created -> 1 .. at - 1] :
              /\ \A i, k \in DOMAIN created : i < k => turn[i] < turn[k]
              /\ Range(turn) = {k \in 1 .. at - 1 : plan[k].phase = "create"}
              /\ \A i \in DOMAIN created : created[i] \in DOMAIN boxes =>
                    boxes[created[i]].name = plan[turn[i]].service
  BY DEF IInv, PlanInv
<1>4. \A i \in DOMAIN created : created[i] \in DOMAIN boxes => boxes[created[i]].owner = Self
  BY DEF IInv, RunInv
<1> QED
  BY <1>2, <1>3, <1>4 DEF SuccessIsComplete

\* Deployments and runs leave the engine as their results say: nothing behind
\* after a failure, everything started after a success.
THEOREM LifecycleCorrect == Spec => []LifecycleInv
<1>1. IInv => LifecycleInv
  <2> SUFFICES ASSUME IInv PROVE LifecycleInv
    OBVIOUS
  <2>1. TypeOK
    BY DEF IInv
  <2>2. FailedLeavesNothing
    BY DEF IInv, FailedLeavesNothing, OwnInv
  <2>3. DeployedWasStarted
    BY DEF IInv, DeployedWasStarted, KnownInv, Started
  <2> QED
    BY <2>1, <2>2, <2>3, RollbackStopsHolds, SuccessIsCompleteHolds DEF LifecycleInv
<1> QED
  BY <1>1, ContainerDeployInvariant, PTL

\* A List that succeeds has missed no container that was there all along.
THEOREM ListSoundCorrect == Spec => []ListSound
<1>1. IInv => ListSound
  BY DEF IInv, ListSound, ListInv
<1> QED
  BY <1>1, ContainerDeployInvariant, PTL

\* A clean-up touches only what the Deploy or the Execute has made.
THEOREM OnlyOwnTouchedCorrect == Spec => OnlyOwnTouched
<1> DEFINE Touched(b) == b \notin DOMAIN boxes' \/ boxes'[b] # boxes[b]
           Own(b) ==
              /\ \A j \in Job : pc[j] = "cleanup" /\ pc'[j] = "failed" /\ ref[j] # 0 /\ mine[j] # 0
                    => boxes[b].owner = <<j, 1>>
              /\ phase = "rollback" /\ <<phase, at>>' # <<phase, at>>
                    => boxes[b].owner = Self
           OwnOnly == \A b \in DOMAIN boxes : Touched(b) => Own(b)
<1>1. IInv /\ [Next]_vars => [OwnOnly]_vars
  <2> SUFFICES ASSUME IInv, Next, NEW b \in DOMAIN boxes, Touched(b) PROVE Own(b)
    OBVIOUS
  <2>1. ASSUME NEW j \in Job, pc[j] = "cleanup", pc'[j] = "failed", ref[j] # 0, mine[j] # 0
        PROVE  boxes[b].owner = <<j, 1>>
    <3>1. PICK k \in Job : Deploy(k)
      BY <2>1 DEF Next, Execute, Retry, Meddle, BoxEnds, CtxEnds, Hang, List, Others, deploys
    <3>2. \E q : pc' = [pc EXCEPT ![k] = q]
      BY <3>1 DEF Deploy, Create, CreateGet, StartGet, StartRun, StartInspect, Cleanup, Refresh, To, Fail
    <3>3. k = j
      BY <2>1, <3>2 DEF IInv, TypeOK
    <3>4. Cleanup(j)
      BY <2>1, <3>1, <3>3 DEF Deploy, Create, CreateGet, StartGet, StartRun, StartInspect, Refresh
    <3>5. Remove(Target(j))
      BY <3>4 DEF Cleanup
    <3>6. b = mine[j]
      BY <2>1, <3>5, TargetEffect DEF Remove, Restrict, Known
    <3> QED
      BY <2>1, <3>6 DEF IInv, KnownInv, Known
  <2>2. ASSUME phase = "rollback", <<phase, at>>' # <<phase, at>> PROVE boxes[b].owner = Self
    <3>1. rollback
      BY <2>2 DEF Next, Deploy, Execute, Begin, Step, Retry, Meddle, BoxEnds, CtxEnds, Hang, List,
                  Others, run
    <3>2. at # 0 /\ SetState(created[at], "exited")
      BY <3>1 DEF rollback
    <3>3. b = created[at]
      BY <3>2 DEF SetState
    <3>4. at \in DOMAIN created
      <4>1. Len(created) \in Nat /\ DOMAIN created = 1 .. Len(created)
        BY DEF IInv, RunInv
      <4> QED
        BY <2>2, <3>2, <4>1 DEF IInv, RollbackInv
    <3> QED
      BY <3>3, <3>4 DEF IInv, RunInv
  <2> QED
    BY <2>1, <2>2
<1> QED
  BY <1>1, ContainerDeployInvariant, PTL DEF Spec, OnlyOwnTouched
=============================================================================
